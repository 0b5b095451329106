---------------------------- MODULE UdpClient_proofs ----------------------------
(***************************************************************************)
(* Sequences, acknowledgements and datagrams of the UDP client, for any    *)
(* endpoints, sessions, inputs and size of the buffer.                     *)
(*                                                                         *)
(* SequencesDistinct needs to know where packets come from: a reliable     *)
(* packet other than a handshake is drawn by a registered session for its  *)
(* endpoint, and no endpoint has two registered sessions.  As long as no   *)
(* two reads of _sendSeq overlap and it has not come round, the n-th packet*)
(* of a session has sequence n.  AckMeansReceived follows since what the   *)
(* server acknowledges it has seen.  DatagramsStandAlone needs to know that*)
(* an undamaged datagram fills the buffer from its start and is used up.   *)
(***************************************************************************)
EXTENDS UdpClient, SequenceTheorems, TLAPS

Threads == {"tcp", "udp", "game"}
Packets == [kind : Kinds, session : Sessions, seq : Nat, to : Endpoints \union {Nowhere}, n : Nat]
Calls == [by : Threads, pkt : Packets]
Answered == {"S_HANDSHAKE", "S_SPAWN_ACTOR", "S_ACK", "damaged"}
Datagrams == [from : Endpoints, kind : Answered, seq : Nat, acks : SUBSET Nat, claim : Nat]
BytesOf(ds) == [of : ds, part : {1, 2}]

SessionType ==
    /\ made \in 0..MaxSessions
    /\ remote \in [Sessions -> Endpoints \union {Nowhere}]
    /\ sendSeq \in [Sessions -> Nat] /\ drawn \in [Sessions -> Nat]
    /\ calls \subseteq Calls
    /\ pendingAck \in [Sessions -> SUBSET toServer]
    /\ registered \subseteq Sessions
    /\ managed \in registered \union {NoSession}

NetType ==
    /\ toServer \subseteq Packets
    /\ toClient \subseteq Datagrams
    /\ received \subseteq toServer

RecvType ==
    /\ recv \in {"posted", "parsing", "stopped"}
    /\ recv = "parsing" => session \in registered
    /\ buffer \in Seq(BytesOf(toClient))
    /\ processLen \in Nat

\* p has its sequence, and may have been sent.
Drawn(p) == p \in toServer \/ \E c \in calls : c.pkt = p

\* A packet belongs to a session that was made, for the session's endpoint.
PacketInv ==
    \A p \in Packets : Drawn(p) =>
        /\ p.session <= made
        /\ p.to = remote[p.session]
        /\ p.kind = "C_HANDSHAKE" \/ p.session \in registered
        /\ p.n \in 1..drawn[p.session]

\* Session and draw name a packet.
OnceInv ==
    \A p, q \in Packets :
        Drawn(p) /\ Drawn(q) /\ p.session = q.session /\ p.n = q.n => p = q

\* The draw whose turn it is when a session does not repeat itself.
TurnInv(s) ==
    /\ \A p \in Packets : Drawn(p) /\ p.session = s => p.seq = p.n % SeqMod
    /\ \A c, d \in calls : c.pkt.session = s /\ d.pkt.session = s => c = d
    /\ \A c \in calls : c.pkt.session = s => c.pkt.n = drawn[s]
    /\ drawn[s] < SeqMod /\ (\A c \in calls : c.pkt.session # s) =>
          sendSeq[s] = (drawn[s] + 1) % SeqMod

SeqInv == \A s \in Sessions : Repeats(s) \/ TurnInv(s)

\* An endpoint has one registered session.
RegistryInv ==
    /\ \A s \in registered : s <= made
    /\ \A s, t \in registered : remote[s] = remote[t] => s = t

\* What the server acknowledges it has received.
ServerInv == \A d \in toClient : \A n \in d.acks : \E p \in received : p.seq = n

SendInv == SessionType /\ NetType /\ RecvType /\ PacketInv /\ OnceInv /\ SeqInv
           /\ RegistryInv /\ ServerInv

-------------------------------------------------------------------------------
(* Drawing, sending, and making sessions *)

\* A step that leaves the receive alone.
LEMMA RecvAlone ==
    ASSUME RecvType, UNCHANGED recvVars, toClient \subseteq toClient', registered \subseteq registered'
    PROVE  RecvType'
<1>1. BytesOf(toClient) \subseteq BytesOf(toClient')
  BY DEF BytesOf
<1>2. buffer \in Seq(BytesOf(toClient'))
  BY <1>1, SeqMonotonic DEF RecvType
<1> QED
  BY <1>2 DEF RecvType, recvVars

\* The first SeqMod draws have different sequences.
LEMMA ModSmall == \A x \in 0..(SeqMod - 1) : x % SeqMod = x
BY UdpAssumption

LEMMA ModOnce == \A x, y \in 1..SeqMod : x % SeqMod = y % SeqMod => x = y
<1>1. SeqMod % SeqMod = 0 /\ SeqMod \in Nat
  BY UdpAssumption
<1>2. \A x \in 1..SeqMod : x % SeqMod = IF x = SeqMod THEN 0 ELSE x
  BY <1>1, ModSmall
<1> QED
  BY <1>1, <1>2

\* Without repetition session and sequence name a packet.
LEMMA Unique ==
    ASSUME SendInv, NEW p \in toServer, NEW q \in toServer,
           p.session = q.session, p.seq = q.seq, p # q
    PROVE  Repeats(p.session)
<1> USE DEF SendInv
<1>1. p \in Packets /\ q \in Packets /\ p.session \in Sessions /\ Drawn(p) /\ Drawn(q)
  BY DEF NetType, Packets, Drawn
<1>2. p.n \in 1..drawn[p.session] /\ q.n \in 1..drawn[p.session] /\ drawn[p.session] \in Nat
  BY <1>1 DEF PacketInv, SessionType
<1>3. p.n # q.n
  BY <1>1 DEF OnceInv
<1>4. CASE TurnInv(p.session) /\ drawn[p.session] <= SeqMod
  <2>1. p.seq = p.n % SeqMod /\ q.seq = q.n % SeqMod
    BY <1>1, <1>4 DEF TurnInv
  <2>2. p.n \in 1..SeqMod /\ q.n \in 1..SeqMod
    BY <1>2, <1>4, UdpAssumption
  <2> QED
    BY <1>3, <2>1, <2>2, ModOnce
<1>5. CASE drawn[p.session] > SeqMod
  BY <1>5 DEF Repeats
<1> QED
  BY <1>1, <1>2, <1>4, <1>5, UdpAssumption DEF SeqInv

\* What a thread's DrawSeq on session s starts from, be s old or made in the step.
MayDraw(s, kind) ==
    /\ made' \in Nat /\ made <= made' /\ s <= made'
    /\ remote' \in [Sessions -> Endpoints \union {Nowhere}]
    /\ \A t \in Sessions : t <= made => remote'[t] = remote[t]
    /\ registered' = registered
    /\ kind = "C_HANDSHAKE" \/ s \in registered

\* It keeps the invariant.
LEMMA DrawKeeps ==
    ASSUME SendInv, NEW t \in Threads, NEW s \in Sessions, NEW kind \in Kinds,
           DrawSeq(t, s, kind), MayDraw(s, kind)
    PROVE  /\ drawn' \in [Sessions -> Nat]
           /\ calls' \subseteq Calls
           /\ PacketInv' /\ OnceInv' /\ SeqInv'
<1> DEFINE p == [kind |-> kind, session |-> s, seq |-> sendSeq[s], to |-> remote'[s],
                 n |-> drawn[s] + 1]
           c == [by |-> t, pkt |-> p]
<1>1. /\ sendSeq \in [Sessions -> Nat] /\ drawn \in [Sessions -> Nat] /\ made \in Nat
      /\ calls \subseteq Calls /\ toServer \subseteq Packets /\ Sessions \subseteq Nat
  BY DEF SendInv, SessionType, NetType, Sessions
<1>2. drawn' = [drawn EXCEPT ![s] = @ + 1] /\ drawn'[s] = drawn[s] + 1
  BY <1>1 DEF DrawSeq
<1>3. calls' = calls \union {c} /\ UNCHANGED <<sendSeq, toServer>>
  BY <1>2 DEF DrawSeq
<1>4. raced' = IF \E o \in calls : o.pkt.session = s THEN raced \union {s} ELSE raced
  BY DEF DrawSeq
<1>5. p \in Packets /\ c \in Calls
  BY <1>1 DEF Packets, Calls, MayDraw
<1>6. /\ p.session = s /\ p.seq = sendSeq[s] /\ p.to = remote'[s] /\ p.kind = kind
      /\ p.n = drawn[s] + 1 /\ c.pkt = p
  OBVIOUS
<1> HIDE DEF p, c
<1>7. drawn' \in [Sessions -> Nat] /\ calls' \subseteq Calls
  BY <1>1, <1>2, <1>3, <1>5
<1>8. \A q \in Packets : Drawn(q)' => Drawn(q) \/ q = p
  BY <1>3, <1>6 DEF Drawn
<1>9. \A q \in Packets : q.session \in Sessions /\ q.n \in Nat
  BY DEF Packets
<1>10. PacketInv'
  <2> SUFFICES ASSUME NEW q \in Packets, Drawn(q)'
               PROVE  /\ q.session <= made' /\ q.to = remote'[q.session]
                      /\ q.kind = "C_HANDSHAKE" \/ q.session \in registered'
                      /\ q.n \in 1..drawn'[q.session]
    BY DEF PacketInv
  <2>1. CASE q = p
    BY <1>1, <1>2, <1>6, <2>1 DEF MayDraw
  <2>2. CASE Drawn(q)
    <3>1. /\ q.session <= made /\ q.to = remote[q.session] /\ q.n \in 1..drawn[q.session]
          /\ (q.kind = "C_HANDSHAKE" \/ q.session \in registered)
      BY <2>2 DEF SendInv, PacketInv
    <3>2. q.session \in Sessions /\ q.session \in Nat /\ remote'[q.session] = remote[q.session]
      BY <1>1, <1>9, <3>1 DEF MayDraw
    <3>3. drawn'[q.session] >= drawn[q.session] /\ drawn[q.session] \in Nat
      BY <1>1, <1>2, <3>2
    <3> QED
      BY <1>1, <1>7, <3>1, <3>2, <3>3 DEF MayDraw
  <2> QED
    BY <1>8, <2>1, <2>2
<1>11. OnceInv'
  <2>1. \A q \in Packets : Drawn(q) /\ q.session = s => q.n # p.n
    BY <1>1, <1>6 DEF SendInv, PacketInv
  <2> QED
    BY <1>6, <1>8, <2>1 DEF SendInv, OnceInv
<1>12. SeqInv'
  <2> SUFFICES ASSUME NEW u \in Sessions, ~Repeats(u)' PROVE TurnInv(u)'
    BY DEF SeqInv
  <2>1. u \notin raced' /\ drawn'[u] <= SeqMod /\ u \notin raced /\ drawn[u] <= drawn'[u]
        /\ drawn[u] \in Nat /\ SeqMod \in Nat
    <3>1. drawn[u] \in Nat /\ drawn'[u] \in Nat /\ drawn[u] <= drawn'[u]
      BY <1>1, <1>2
    <3>2. u \notin raced' /\ drawn'[u] <= SeqMod /\ SeqMod \in Nat
      BY <3>1, UdpAssumption DEF Repeats
    <3> QED
      BY <1>4, <3>1, <3>2
  <2>2. TurnInv(u)
    <3>1. drawn[u] <= SeqMod
      <4>1. drawn'[u] \in Nat
        BY <1>7
      <4> QED
        BY <2>1, <4>1
    <3>2. ~Repeats(u)
      BY <2>1, <3>1 DEF Repeats
    <3> QED
      BY <3>2 DEF SendInv, SeqInv
  <2>3. CASE u # s
    <3>1. drawn'[u] = drawn[u] /\ sendSeq'[u] = sendSeq[u]
      BY <1>1, <1>2, <1>3, <2>3
    <3>2. \A d \in calls' : d.pkt.session = u => d \in calls
      BY <1>3, <1>6, <2>3
    <3>3. \A q \in Packets : Drawn(q)' /\ q.session = u => Drawn(q)
      BY <1>6, <1>8, <2>3
    <3> QED
      BY <1>3, <2>2, <3>1, <3>2, <3>3 DEF TurnInv
  <2>4. CASE u = s
    <3>1. \A d \in calls : d.pkt.session # s
      BY <1>4, <2>1, <2>4
    <3>2. drawn[s] < SeqMod /\ sendSeq[s] = (drawn[s] + 1) % SeqMod
      BY <1>2, <2>1, <2>2, <2>4, <3>1 DEF TurnInv
    <3>3. \A d \in calls' : d.pkt.session = s => d = c
      BY <1>3, <3>1
    <3>4. \A q \in Packets : Drawn(q)' /\ q.session = s => q.seq = q.n % SeqMod
      BY <1>6, <1>8, <2>2, <2>4, <3>2 DEF TurnInv
    <3>5. c \in calls' /\ c.pkt.session = s /\ c.pkt.n = drawn'[s]
      BY <1>2, <1>3, <1>6
    <3> QED
      BY <2>4, <3>3, <3>4, <3>5 DEF TurnInv
  <2> QED
    BY <2>3, <2>4
<1> QED
  BY <1>7, <1>10, <1>11, <1>12

\* The rest of SendReliable keeps it.
LEMMA SendKeeps ==
    ASSUME SendInv, NEW c \in calls, SendReliable(c)
    PROVE  SendInv'
<1> DEFINE p == c.pkt
<1>1. /\ sendSeq \in [Sessions -> Nat] /\ drawn \in [Sessions -> Nat]
      /\ calls \subseteq Calls /\ toServer \subseteq Packets
      /\ pendingAck \in [Sessions -> SUBSET toServer]
  BY DEF SendInv, SessionType, NetType
<1>2. p \in Packets /\ p.session \in Sessions /\ p.seq \in Nat
  BY <1>1 DEF Calls, Packets
<1>3. /\ calls' = calls \ {c} /\ toServer' = toServer \union {p}
      /\ sendSeq' = [sendSeq EXCEPT ![p.session] = (p.seq + 1) % SeqMod]
      /\ pendingAck' = [pendingAck EXCEPT ![p.session] = {q \in @ : q.seq # p.seq} \union {p}]
  BY DEF SendReliable
<1>4. UNCHANGED <<made, remote, registered, managed, drawn, raced, toClient, received>>
      /\ UNCHANGED recvVars
  BY DEF SendReliable, regVars
<1>5. Drawn(p)
  BY DEF Drawn
<1> HIDE DEF p
<1>6. \A q \in Packets : Drawn(q)' => Drawn(q)
  BY <1>3, <1>5 DEF Drawn
<1>7. SessionType'
  <2>1. (p.seq + 1) % SeqMod \in Nat
    BY <1>2, UdpAssumption
  <2>2. sendSeq' \in [Sessions -> Nat]
    BY <1>1, <1>3, <2>1
  <2>3. pendingAck' \in [Sessions -> SUBSET toServer']
    BY <1>1, <1>2, <1>3
  <2> QED
    BY <1>1, <1>3, <1>4, <2>2, <2>3 DEF SendInv, SessionType
<1>8. NetType' /\ ServerInv' /\ RegistryInv'
  BY <1>1, <1>2, <1>3, <1>4 DEF SendInv, NetType, ServerInv, RegistryInv
<1>9. RecvType'
  BY <1>4, RecvAlone DEF SendInv
<1>10. PacketInv' /\ OnceInv'
  BY <1>4, <1>6 DEF SendInv, PacketInv, OnceInv
<1>11. SeqInv'
  <2> SUFFICES ASSUME NEW u \in Sessions, ~Repeats(u) PROVE TurnInv(u)'
    BY <1>4 DEF SeqInv, Repeats
  <2>1. TurnInv(u) /\ drawn[u] \in Nat
    BY <1>1 DEF SendInv, SeqInv
  <2>2. CASE u # p.session
    <3>1. sendSeq'[u] = sendSeq[u]
      BY <1>1, <1>3, <2>2
    <3>2. \A d \in calls : d.pkt.session = u => d \in calls'
      BY <1>3, <2>2 DEF p
    <3> QED
      BY <1>3, <1>4, <1>6, <2>1, <3>1, <3>2 DEF TurnInv
  <2>3. CASE u = p.session
    <3>1. p.n = drawn[u] /\ p.seq = p.n % SeqMod
      BY <1>2, <1>5, <2>1, <2>3 DEF TurnInv, p
    <3>2. drawn[u] < SeqMod => sendSeq'[u] = (drawn[u] + 1) % SeqMod
      <4>1. drawn[u] < SeqMod => p.seq = drawn[u]
        BY <2>1, <3>1, ModSmall, UdpAssumption
      <4> QED
        BY <1>1, <1>3, <2>3, <4>1
    <3> QED
      BY <1>3, <1>4, <1>6, <2>1, <3>2 DEF TurnInv
  <2> QED
    BY <2>2, <2>3
<1> QED
  BY <1>7, <1>8, <1>9, <1>10, <1>11 DEF SendInv

\* FindOrCreateUdpSession yields a registered session, and no two for an endpoint.
LEMMA FindOrCreateKeeps ==
    ASSUME SendInv, NEW e \in Endpoints, FindOrCreateUdpSession(e),
           UNCHANGED <<seqVars, pendingAck, toServer, received, toClient>>
    PROVE  SessionType' /\ PacketInv' /\ RegistryInv' /\ session' \in registered'
<1> USE UdpAssumption DEF SendInv, SessionType, FindOrCreateUdpSession, Sessions, seqVars
<1>1. CASE SessionsOf(e) # {}
  <2>1. session' \in registered
    BY <1>1 DEF SessionsOf
  <2>2. UNCHANGED <<made, remote, registered, managed, sendSeq, calls, drawn, pendingAck, toServer>>
    BY <1>1
  <2> QED
    BY <2>1, <2>2 DEF PacketInv, RegistryInv, Drawn
<1>2. CASE SessionsOf(e) = {}
  <2>1. made' = made + 1 /\ made' \in Sessions /\ made \in Nat
    BY <1>2
  <2>2. /\ remote' = [remote EXCEPT ![made + 1] = e]
        /\ registered' = registered \union {made + 1}
        /\ managed' = made + 1 /\ session' = made + 1
    BY <1>2, <2>1
  <2>3. SessionType'
    BY <2>1, <2>2
  <2>4. PacketInv'
    <3> SUFFICES ASSUME NEW p \in Packets, Drawn(p)'
                 PROVE  /\ p.session <= made' /\ p.to = remote'[p.session]
                        /\ p.kind = "C_HANDSHAKE" \/ p.session \in registered'
                        /\ p.n \in 1..drawn'[p.session]
      BY DEF PacketInv
    <3>1. Drawn(p) /\ drawn' = drawn
      BY DEF Drawn
    <3>2. /\ p.session <= made /\ p.to = remote[p.session] /\ p.n \in 1..drawn[p.session]
          /\ (p.kind = "C_HANDSHAKE" \/ p.session \in registered)
      BY <3>1 DEF PacketInv
    <3>3. p.session \in Sessions /\ p.session # made + 1
      BY <2>1, <3>2 DEF Packets
    <3>4. p.session <= made'
      BY <2>1, <3>2, <3>3
    <3>5. remote'[p.session] = remote[p.session]
      BY <2>2, <3>3
    <3>6. p.kind = "C_HANDSHAKE" \/ p.session \in registered'
      BY <2>2, <3>2
    <3> QED
      BY <3>1, <3>2, <3>4, <3>5, <3>6
  <2>5. RegistryInv'
    <3>1. \A s \in registered : s <= made /\ remote'[s] = remote[s] /\ remote[s] # e
      <4> SUFFICES ASSUME NEW s \in registered
                   PROVE  s <= made /\ remote'[s] = remote[s] /\ remote[s] # e
        OBVIOUS
      <4>1. s <= made
        BY DEF RegistryInv
      <4>2. s \in Sessions /\ s # made + 1
        BY <2>1, <4>1
      <4>3. remote[s] # e
        BY <1>2 DEF SessionsOf
      <4> QED
        BY <2>2, <4>1, <4>2, <4>3
    <3>2. remote'[made + 1] = e
      BY <2>1, <2>2
    <3> QED
      BY <2>1, <2>2, <3>1, <3>2 DEF RegistryInv
  <2> QED
    BY <2>2, <2>3, <2>4, <2>5
<1> QED
  BY <1>1, <1>2

-------------------------------------------------------------------------------
(* The invariant of sessions, packets and acknowledgements *)

LEMMA SendInit == Init => SendInv
<1> SUFFICES ASSUME Init PROVE SendInv
  OBVIOUS
<1> USE UdpAssumption DEF Init
<1>1. SessionType
  BY DEF SessionType, Sessions, NoSession
<1>2. NetType /\ PacketInv /\ OnceInv /\ RegistryInv /\ ServerInv
  BY DEF NetType, PacketInv, OnceInv, RegistryInv, ServerInv, Drawn
<1>3. RecvType
  BY DEF RecvType
<1>4. SeqInv
  <2>1. 1 % SeqMod = 1 /\ 0 + 1 = 1
    BY ModSmall
  <2> QED
    BY <2>1 DEF SeqInv, TurnInv, Drawn
<1> QED
  BY <1>1, <1>2, <1>3, <1>4 DEF SendInv

\* A step that leaves the sessions alone, and lets the server say more.
LEMMA SessionsAlone ==
    ASSUME SendInv, UNCHANGED <<sessionVars, toServer>>
    PROVE  SessionType' /\ PacketInv' /\ OnceInv' /\ SeqInv' /\ RegistryInv'
<1> USE DEF SendInv, sessionVars, regVars, seqVars
<1>1. SessionType' /\ RegistryInv'
  BY DEF SessionType, RegistryInv
<1>2. PacketInv' /\ OnceInv'
  BY DEF PacketInv, OnceInv, Drawn
<1>3. SeqInv'
  BY DEF SeqInv, TurnInv, Repeats, Drawn
<1> QED
  BY <1>1, <1>2, <1>3

LEMMA EnterGameKeeps == SendInv /\ Handle_S_ENTER_GAME => SendInv'
<1> SUFFICES ASSUME SendInv, Handle_S_ENTER_GAME PROVE SendInv'
  OBVIOUS
<1> DEFINE n == made + 1
<1> USE UdpAssumption DEF SendInv, Handle_S_ENTER_GAME
<1>1. n \in Sessions /\ made' = n /\ made \in Nat /\ n \in Nat
  BY DEF SessionType, Sessions
<1>2. /\ remote' \in [Sessions -> Endpoints \union {Nowhere}]
      /\ \A t \in Sessions : t <= made => remote'[t] = remote[t]
  BY <1>1 DEF SessionType
<1>3. DrawSeq("tcp", n, "C_HANDSHAKE") /\ MayDraw(n, "C_HANDSHAKE")
  BY <1>1, <1>2 DEF MayDraw
<1>4. /\ drawn' \in [Sessions -> Nat] /\ calls' \subseteq Calls
      /\ PacketInv' /\ OnceInv' /\ SeqInv'
  <2> HIDE DEF Handle_S_ENTER_GAME, n, SendInv
  <2>1. "tcp" \in Threads /\ "C_HANDSHAKE" \in Kinds
    BY DEF Threads, Kinds
  <2> QED
    BY <1>1, <1>3, <2>1, DrawKeeps
<1>5. UNCHANGED <<sendSeq, pendingAck, toServer, registered, managed, toClient, received>>
  BY DEF DrawSeq
<1>6. SessionType'
  BY <1>1, <1>2, <1>4, <1>5 DEF SessionType, Sessions
<1>7. NetType' /\ ServerInv'
  BY <1>5 DEF NetType, ServerInv
<1>8. RegistryInv'
  <2>1. \A s \in registered : s \in Sessions /\ s <= made /\ remote'[s] = remote[s] /\ s <= made'
    BY <1>1, <1>2 DEF RegistryInv, SessionType, Sessions
  <2> QED
    BY <2>1 DEF RegistryInv
<1>9. RecvType'
  BY RecvAlone
<1> QED
  BY <1>4, <1>6, <1>7, <1>8, <1>9

\* A draw on a registered session keeps the invariant.
LEMMA RegisteredDrawKeeps ==
    ASSUME SendInv, NEW t \in Threads, NEW s \in registered, NEW kind \in Kinds,
           DrawSeq(t, s, kind), UNCHANGED <<regVars, received, toClient>>
    PROVE  /\ SessionType' /\ NetType' /\ PacketInv' /\ OnceInv' /\ SeqInv'
           /\ RegistryInv' /\ ServerInv'
<1>1. s \in Sessions /\ s <= made /\ made \in Nat
  BY UdpAssumption DEF SendInv, SessionType, RegistryInv
<1>2. MayDraw(s, kind)
  BY <1>1 DEF MayDraw, SendInv, SessionType, regVars
<1>3. /\ drawn' \in [Sessions -> Nat] /\ calls' \subseteq Calls
      /\ PacketInv' /\ OnceInv' /\ SeqInv'
  BY <1>1, <1>2, DrawKeeps
<1>4. UNCHANGED <<sendSeq, pendingAck, toServer>>
  BY DEF DrawSeq
<1> QED
  BY <1>3, <1>4 DEF SendInv, SessionType, NetType, RegistryInv, ServerInv, regVars

LEMMA SendInputKeeps == SendInv /\ SendInputToServer => SendInv'
<1> SUFFICES ASSUME SendInv, SendInputToServer PROVE SendInv'
  OBVIOUS
<1>1. managed \in registered /\ "game" \in Threads /\ "C_PLAYER_INPUT" \in Kinds
  BY DEF SendInv, SessionType, SendInputToServer, Threads, Kinds
<1>2. DrawSeq("game", managed, "C_PLAYER_INPUT") /\ UNCHANGED <<regVars, received, toClient, recvVars>>
  BY DEF SendInputToServer, regVars
<1>3. RecvType'
  BY <1>2, RecvAlone DEF SendInv, regVars
<1> QED
  BY <1>1, <1>2, <1>3, RegisteredDrawKeeps DEF SendInv

LEMMA ProcessRecvKeeps ==
    ASSUME SendInv, NEW d \in toClient, ProcessRecv(d)
    PROVE  SendInv'
<1> USE DEF SendInv, ProcessRecv
<1>1. d.from \in Endpoints
  BY DEF NetType, Datagrams
<1>2. UNCHANGED <<seqVars, pendingAck, toServer, toClient, received>>
  BY DEF netVars
<1>3. SessionType' /\ PacketInv' /\ RegistryInv' /\ session' \in registered'
  BY <1>1, <1>2, FindOrCreateKeeps
<1>4. NetType' /\ OnceInv' /\ SeqInv' /\ ServerInv'
  <2>1. NetType' /\ OnceInv' /\ ServerInv'
    BY <1>2 DEF NetType, OnceInv, ServerInv, Drawn, seqVars
  <2>2. SeqInv'
    BY <1>2 DEF SeqInv, TurnInv, Repeats, Drawn, seqVars
  <2> QED
    BY <2>1, <2>2
<1>5. Bytes(d) \in Seq(BytesOf(toClient))
  BY DEF Bytes, BytesOf
<1>6. buffer' \in Seq(BytesOf(toClient'))
  BY <1>2, <1>5, ConcatProperties DEF RecvType
<1>7. RecvType'
  BY <1>3, <1>6 DEF RecvType
<1> QED
  BY <1>3, <1>4, <1>7

-------------------------------------------------------------------------------
(* The packets of a datagram *)

\* What IsParsingPacket takes for a header lies in a datagram that was sent.
LEMMA HeaderSent ==
    ASSUME SendInv, HasPacket
    PROVE  Header.of \in toClient /\ Claim(Header) \in Nat
<1> USE DEF SendInv, RecvType, HasPacket
<1>1. processLen + 1 \in 1..Len(buffer)
  BY LenProperties
<1>2. Header \in BytesOf(toClient)
  BY <1>1, ElementOfSeq DEF Header
<1>3. Header.of \in toClient
  BY <1>2 DEF BytesOf
<1>4. Header.of.claim \in Nat
  BY <1>3 DEF NetType, Datagrams
<1> QED
  BY <1>3, <1>4, UdpAssumption DEF Claim

\* HandleAck takes packets off the session's own map.
LEMMA AckKeeps ==
    ASSUME SendInv, recv = "parsing", NEW d, HandleAck(d),
           UNCHANGED <<regVars, seqVars, toServer, received, toClient>>
    PROVE  /\ SessionType' /\ NetType' /\ PacketInv' /\ OnceInv' /\ SeqInv'
           /\ RegistryInv' /\ ServerInv'
<1> USE DEF SendInv, regVars, seqVars
<1>1. pendingAck' \in [Sessions -> SUBSET toServer]
  BY DEF SessionType, HandleAck
<1>2. SessionType' /\ NetType' /\ RegistryInv' /\ ServerInv'
  BY <1>1 DEF SessionType, NetType, RegistryInv, ServerInv
<1>3. PacketInv' /\ OnceInv'
  BY DEF PacketInv, OnceInv, Drawn
<1>4. SeqInv'
  BY DEF SeqInv, TurnInv, Repeats, Drawn
<1> QED
  BY <1>2, <1>3, <1>4

LEMMA OnRecvKeeps == SendInv /\ OnRecv => SendInv'
<1> SUFFICES ASSUME SendInv, OnRecv PROVE SendInv'
  OBVIOUS
<1>1. Header.of \in toClient /\ Claim(Header) \in Nat
  BY HeaderSent DEF OnRecv
<1>2. recv = "parsing"
      /\ UNCHANGED <<made, registered, managed, recv, session, buffer, toClient, received>>
      /\ processLen' = processLen + Claim(Header)
  BY DEF OnRecv
<1>3. RecvType'
  BY <1>1, <1>2 DEF RecvType, SendInv
<1>4. CASE UNCHANGED remote /\ DrawSeq("udp", session, "C_SPAWN_ACTOR")
  <2>1. session \in registered /\ "udp" \in Threads /\ "C_SPAWN_ACTOR" \in Kinds
    BY <1>2 DEF SendInv, RecvType, Threads, Kinds
  <2>2. UNCHANGED <<regVars, received, toClient>>
    BY <1>2, <1>4 DEF regVars
  <2> QED
    BY <1>3, <1>4, <2>1, <2>2, RegisteredDrawKeeps DEF SendInv
<1>5. CASE HandleAck(Header.of) /\ UNCHANGED <<remote, seqVars, toServer>>
  BY <1>2, <1>3, <1>5, AckKeeps DEF SendInv, regVars
<1>6. CASE UNCHANGED <<remote, seqVars, pendingAck, toServer>>
  <2>1. UNCHANGED <<regVars, seqVars, pendingAck, toServer, toClient, received>>
    BY <1>2, <1>6 DEF regVars
  <2>2. SessionType' /\ NetType' /\ RegistryInv' /\ ServerInv'
    BY <2>1 DEF SendInv, SessionType, NetType, RegistryInv, ServerInv, regVars, seqVars
  <2>3. PacketInv' /\ OnceInv'
    BY <2>1 DEF SendInv, PacketInv, OnceInv, Drawn, regVars, seqVars
  <2>4. SeqInv'
    BY <2>1 DEF SendInv, SeqInv, TurnInv, Repeats, Drawn, regVars, seqVars
  <2> QED
    BY <1>3, <2>2, <2>3, <2>4 DEF SendInv
<1> QED
  BY <1>4, <1>5, <1>6 DEF OnRecv, Handle_S_HANDSHAKE, Handle_S_SPAWN_ACTOR, Handle_S_ACK, Handle_INVALID

LEMMA FinishRecvKeeps == SendInv /\ FinishRecv => SendInv'
<1> SUFFICES ASSUME SendInv, FinishRecv PROVE SendInv'
  OBVIOUS
<1> USE DEF SendInv, FinishRecv
<1>1. buffer' \in Seq(BytesOf(toClient))
  BY SubSeqProperties, LenProperties DEF RecvType
<1>2. RecvType'
  BY <1>1 DEF RecvType, netVars
<1> QED
  BY <1>2, SessionsAlone DEF netVars, NetType, ServerInv

\* The server answers, and acknowledges what it has seen.
LEMMA ServerReceiveKeeps ==
    ASSUME SendInv, NEW p \in toServer, ServerReceive(p)
    PROVE  SendInv'
<1> USE UdpAssumption DEF SendInv
<1> DEFINE ack == Datagram("S_ACK", 0, Seen \union {p.seq})
<1>1. /\ UNCHANGED <<sessionVars, recvVars, toServer>>
      /\ received' = received \union {p}
  BY DEF ServerReceive
<1>2. toClient \subseteq toClient' /\ toClient' \subseteq toClient \union Answers(p.kind) \union {ack}
  BY DEF ServerReceive
<1>3. p \in Packets /\ Seen \subseteq Nat /\ p.seq \in Nat
  BY DEF NetType, Packets, Seen
<1>4. ack \in Datagrams
  BY <1>3 DEF Datagram, Datagrams, Answered
<1>5. Answers(p.kind) \subseteq Datagrams /\ \A d \in Answers(p.kind) : d.acks = {}
  <2>1. CASE p.kind = "C_HANDSHAKE"
    <3>1. Answers(p.kind) = {Datagram("S_HANDSHAKE", 1, {})}
      BY <2>1 DEF Answers
    <3> QED
      BY <3>1, UdpAssumption DEF Datagram, Datagrams, Answered
  <2>2. CASE p.kind = "C_SPAWN_ACTOR"
    <3>1. Answers(p.kind) = {Datagram("S_SPAWN_ACTOR", 2, {})}
      BY <2>2 DEF Answers
    <3> QED
      BY <3>1, UdpAssumption DEF Datagram, Datagrams, Answered
  <2>3. CASE p.kind = "C_PLAYER_INPUT"
    BY <2>3 DEF Answers
  <2> QED
    BY <1>3, <2>1, <2>2, <2>3 DEF Packets, Kinds
<1>6. NetType'
  BY <1>1, <1>2, <1>4, <1>5 DEF NetType
<1>7. ServerInv'
  <2> SUFFICES ASSUME NEW d \in toClient', NEW n \in d.acks PROVE \E q \in received' : q.seq = n
    BY DEF ServerInv
  <2>1. CASE d \in toClient
    BY <1>1, <2>1 DEF ServerInv
  <2>2. CASE d \in Answers(p.kind)
    BY <1>5, <2>2
  <2>3. CASE d = ack
    BY <1>1, <2>3 DEF Datagram, Seen
  <2> QED
    BY <1>2, <2>1, <2>2, <2>3
<1>8. RecvType'
  BY <1>1, <1>2, RecvAlone DEF sessionVars, regVars
<1> QED
  BY <1>1, <1>6, <1>7, <1>8, SessionsAlone

\* A datagram that acknowledges nothing comes from somewhere.
LEMMA OtherDatagramKeeps ==
    ASSUME SendInv, NEW d \in Datagrams, d.acks = {}, toClient' = toClient \union {d},
           UNCHANGED <<sessionVars, recvVars, toServer, received>>
    PROVE  SendInv'
<1> USE DEF SendInv
<1>1. NetType' /\ ServerInv'
  BY DEF NetType, ServerInv
<1>2. RecvType'
  BY RecvAlone DEF sessionVars, regVars
<1> QED
  BY <1>1, <1>2, SessionsAlone

LEMMA SendStep == SendInv /\ [Next]_vars => SendInv'
<1> SUFFICES ASSUME SendInv, [Next]_vars PROVE SendInv'
  OBVIOUS
<1>1. CASE Handle_S_ENTER_GAME
  BY <1>1, EnterGameKeeps
<1>2. CASE SendInputToServer
  BY <1>2, SendInputKeeps
<1>3. CASE \E d \in toClient : ProcessRecv(d)
  BY <1>3, ProcessRecvKeeps
<1>4. CASE ReceiveError \/ \E e \in Endpoints : ReceiveEmpty(e)
  <2>1. RecvType'
    BY <1>4 DEF ReceiveError, ReceiveEmpty, RecvType, SendInv, sessionVars, regVars, netVars
  <2> QED
    BY <1>4, <2>1, SessionsAlone DEF ReceiveError, ReceiveEmpty, SendInv, NetType, ServerInv, netVars
<1>5. CASE OnRecv
  BY <1>5, OnRecvKeeps
<1>6. CASE FinishRecv
  BY <1>6, FinishRecvKeeps
<1>7. CASE \E p \in toServer : ServerReceive(p)
  BY <1>7, ServerReceiveKeeps
<1>8. CASE \E e \in Endpoints : Stray(e)
  <2>1. PICK e \in Endpoints : Stray(e)
    BY <1>8
  <2>2. [Datagram("S_ACK", 0, {}) EXCEPT !.from = e] \in Datagrams
    BY UdpAssumption DEF Datagram, Datagrams, Answered
  <2>3. [Datagram("S_ACK", 0, {}) EXCEPT !.from = e].acks = {}
    BY DEF Datagram
  <2> QED
    BY <2>1, <2>2, <2>3, OtherDatagramKeeps DEF Stray
<1>9. CASE \E n \in Damages : Damage(n)
  <2>1. PICK n \in Damages : Damage(n)
    BY <1>9
  <2>2. [Datagram("damaged", 0, {}) EXCEPT !.claim = n] \in Datagrams
    BY UdpAssumption DEF Datagram, Datagrams, Answered
  <2>3. [Datagram("damaged", 0, {}) EXCEPT !.claim = n].acks = {}
    BY DEF Datagram
  <2> QED
    BY <2>1, <2>2, <2>3, OtherDatagramKeeps DEF Damage
<1>10. CASE UNCHANGED vars
  <2>1. UNCHANGED <<sessionVars, recvVars, toServer, toClient, received>>
    BY <1>10 DEF vars, netVars
  <2>2. RecvType'
    BY <2>1, RecvAlone DEF SendInv, sessionVars, regVars
  <2> QED
    BY <2>1, <2>2, SessionsAlone DEF SendInv, NetType, ServerInv
<1>11. CASE \E c \in calls : SendReliable(c)
  BY <1>11, SendKeeps
<1> QED
  BY <1>1, <1>2, <1>3, <1>4, <1>5, <1>6, <1>7, <1>8, <1>9, <1>10, <1>11 DEF Next

LEMMA SendInvariant == Spec => []SendInv
BY SendInit, SendStep, PTL DEF Spec

-------------------------------------------------------------------------------
(* Sequences and acknowledgements *)

\* Two reliable packets to one endpoint with one sequence are a handshake and
\* another, or of one session whose reads of _sendSeq have overlapped or come round
\* (Service.cpp 96-121, Session.cpp 314-329).
THEOREM Distinct == Spec => []SequencesDistinct
<1>1. SendInv => SequencesDistinct
  <2> SUFFICES ASSUME SendInv, NEW p \in Reliable, NEW q \in Reliable,
                      p # q, p.to = q.to, p.seq = q.seq,
                      p.kind # "C_HANDSHAKE", q.kind # "C_HANDSHAKE"
               PROVE  p.session = q.session /\ Repeats(p.session)
    BY DEF SequencesDistinct
  <2>1. p \in toServer /\ q \in toServer /\ p \in Packets /\ q \in Packets /\ Drawn(p) /\ Drawn(q)
    BY DEF SendInv, NetType, Reliable, Drawn
  <2>2. p.session \in registered /\ q.session \in registered
    BY <2>1 DEF SendInv, PacketInv
  <2>3. remote[p.session] = remote[q.session]
    BY <2>1 DEF SendInv, PacketInv
  <2>4. p.session = q.session
    BY <2>2, <2>3 DEF SendInv, RegistryInv
  <2> QED
    BY <2>1, <2>4, Unique
<1> QED
  BY SendInvariant, <1>1, PTL

\* A session that repeats itself has done so for good.
LEMMA RepeatsStays ==
    ASSUME SendInv, [Next]_vars, NEW s \in Sessions, Repeats(s)
    PROVE  Repeats(s)'
<1>1. drawn \in [Sessions -> Nat] /\ SeqMod \in Nat
  BY UdpAssumption DEF SendInv, SessionType
<1>2. CASE UNCHANGED <<drawn, raced>>
  BY <1>2 DEF Repeats
<1>3. ASSUME NEW t, NEW u, NEW kind, DrawSeq(t, u, kind) PROVE Repeats(s)'
  <2>1. drawn' = [drawn EXCEPT ![u] = @ + 1] /\ raced \subseteq raced'
    BY <1>3 DEF DrawSeq
  <2>2. drawn'[s] \in Nat /\ drawn'[s] >= drawn[s]
    BY <1>1, <2>1
  <2> QED
    BY <1>1, <2>1, <2>2 DEF Repeats
<1> QED
  BY <1>2, <1>3 DEF Next, Handle_S_ENTER_GAME, SendInputToServer, SendReliable, ProcessRecv, ReceiveError,
     ReceiveEmpty, OnRecv, Handle_S_HANDSHAKE, Handle_S_SPAWN_ACTOR, Handle_S_ACK, Handle_INVALID,
     FinishRecv, ServerReceive, Stray, Damage, vars, sessionVars, seqVars

\* What was taken off a map was sent, and received by the server or mistaken for
\* another packet.
AckedInv ==
    /\ acked \subseteq toServer
    /\ AckMeansReceived

LEMMA AckedStep == SendInv /\ SendInv' /\ AckedInv /\ [Next]_vars => AckedInv'
<1> SUFFICES ASSUME SendInv, SendInv', AckedInv, [Next]_vars PROVE AckedInv'
  OBVIOUS
<1>0. \A p \in acked : p.session \in Sessions /\ (Repeats(p.session) => Repeats(p.session)')
  <2>1. \A p \in acked : p.session \in Sessions
    BY DEF AckedInv, SendInv, NetType, Packets
  <2> QED
    BY <2>1, RepeatsStays
<1>1. CASE acked' = acked /\ toServer \subseteq toServer' /\ received \subseteq received'
  BY <1>0, <1>1 DEF AckedInv, AckMeansReceived
<1>2. CASE OnRecv /\ Handle_S_ACK(Header.of)
  <2>1. Header.of \in toClient
    BY <1>2, HeaderSent DEF OnRecv
  <2>2. /\ UNCHANGED <<toServer, received>>
        /\ acked' = acked \union {p \in pendingAck[session] : p.seq \in Header.of.acks}
    BY <1>2 DEF OnRecv, Handle_S_ACK, HandleAck
  <2>3. session \in Sessions /\ pendingAck[session] \subseteq toServer
    BY <1>2 DEF OnRecv, SendInv, RecvType, SessionType
  <2>4. ASSUME NEW p \in pendingAck[session], p.seq \in Header.of.acks, p \notin received
        PROVE  \E q \in received : q.seq = p.seq /\ (q.session # p.session \/ Repeats(p.session)')
    <3>1. PICK q \in received : q.seq = p.seq
      BY <2>1, <2>4 DEF SendInv, ServerInv
    <3>2. q \in toServer /\ p \in toServer /\ q # p /\ p.session \in Sessions
      BY <2>3, <2>4, <3>1 DEF SendInv, NetType, Packets
    <3>3. q.session # p.session \/ Repeats(p.session)
      BY <3>1, <3>2, Unique
    <3> QED
      BY <3>1, <3>2, <3>3, RepeatsStays
  <2> QED
    BY <1>0, <2>2, <2>3, <2>4 DEF AckedInv, AckMeansReceived
<1>3. CASE OnRecv /\ ~Handle_S_ACK(Header.of)
  BY <1>1, <1>3 DEF OnRecv, Handle_S_HANDSHAKE, Handle_S_SPAWN_ACTOR, Handle_INVALID, DrawSeq
<1>4. CASE ~OnRecv
  BY <1>1, <1>4 DEF Next, Handle_S_ENTER_GAME, SendInputToServer, DrawSeq, SendReliable, ProcessRecv, ReceiveError,
     ReceiveEmpty, FinishRecv, ServerReceive, Stray, Damage, vars, netVars, ghostVars
<1> QED
  BY <1>2, <1>3, <1>4

\* A packet leaves the map of unacknowledged packets only if the server received
\* it, or another one with its sequence, of another session or of one that repeats
\* itself (Session.cpp 314-348).
THEOREM AckHonest == Spec => []AckMeansReceived
<1>1. Init => AckedInv
  BY DEF Init, AckedInv, AckMeansReceived
<1>2. AckedInv => AckMeansReceived
  BY DEF AckedInv
<1> QED
  BY SendInvariant, <1>1, <1>2, AckedStep, PTL DEF Spec

-------------------------------------------------------------------------------
(* Datagrams *)

\* Undamaged datagrams claim their size.
ClaimInv == \A d \in toClient : d.kind # "damaged" => d.claim = 2

\* As long as only those have come in, the buffer holds at most the one being
\* parsed, from its start, and it is used up by one packet.
AloneInv ==
    /\ whole
    /\ recv = "posted" => buffer = << >> /\ readPos = 0
    /\ recv = "parsing" =>
         \E d : buffer = Bytes(d) /\ d.claim = 2 /\ readPos = 0 /\ processLen \in {0, 2}

WholeInv == ClaimInv /\ (damaged \/ AloneInv)

\* The bytes of a datagram are two.
LEMMA BytesOfDatagram ==
    ASSUME NEW d
    PROVE  /\ Len(Bytes(d)) = 2
           /\ Bytes(d)[1] = [of |-> d, part |-> 1]
           /\ << >> \o Bytes(d) = Bytes(d)
           /\ SubSeq(Bytes(d), 1, 2) = Bytes(d)
           /\ SubSeq(Bytes(d), 3, 2) = << >>
<1>1. Bytes(d) \in Seq({[of |-> d, part |-> 1], [of |-> d, part |-> 2]})
  BY DEF Bytes
<1>2. Len(Bytes(d)) = 2 /\ Bytes(d)[1] = [of |-> d, part |-> 1]
  BY DEF Bytes
<1>3. << >> \o Bytes(d) = Bytes(d)
  BY <1>1, ConcatEmptySeq
<1>4. SubSeq(Bytes(d), 1, Len(Bytes(d))) = Bytes(d)
  BY <1>1, SubSeqFull
<1>5. SubSeq(Bytes(d), 3, 2) = << >>
  BY SubSeqEmpty
<1> QED
  BY <1>2, <1>3, <1>4, <1>5

LEMMA ClaimStep == SendInv /\ ClaimInv /\ [Next]_vars => ClaimInv'
<1> SUFFICES ASSUME SendInv, ClaimInv, [Next]_vars PROVE ClaimInv'
  OBVIOUS
<1>1. CASE toClient' = toClient
  BY <1>1 DEF ClaimInv
<1>2. CASE \E p \in toServer : ServerReceive(p)
  <2>1. PICK p \in toServer : ServerReceive(p)
    BY <1>2
  <2>2. toClient' \subseteq toClient \union Answers(p.kind)
                            \union {Datagram("S_ACK", 0, Seen \union {p.seq})}
    BY <2>1 DEF ServerReceive
  <2>3. \A d \in Answers(p.kind) : d.claim = 2
    BY <2>1 DEF SendInv, NetType, Packets, Kinds, Answers, Datagram
  <2>4. Datagram("S_ACK", 0, Seen \union {p.seq}).claim = 2
    BY DEF Datagram
  <2> QED
    BY <2>2, <2>3, <2>4 DEF ClaimInv
<1>3. CASE \E e \in Endpoints : Stray(e)
  <2>1. \A e : [Datagram("S_ACK", 0, {}) EXCEPT !.from = e].claim = 2
    BY DEF Datagram
  <2> QED
    BY <1>3, <2>1 DEF Stray, ClaimInv
<1>4. CASE \E n \in Damages : Damage(n)
  <2>1. \A n : [Datagram("damaged", 0, {}) EXCEPT !.claim = n].kind = "damaged"
    BY DEF Datagram
  <2> QED
    BY <1>4, <2>1 DEF Damage, ClaimInv
<1> QED
  BY <1>1, <1>2, <1>3, <1>4 DEF Next, Handle_S_ENTER_GAME, SendInputToServer, SendReliable, ProcessRecv,
     ReceiveError, ReceiveEmpty, OnRecv, FinishRecv, vars, netVars

LEMMA AloneStep == ClaimInv /\ AloneInv /\ ~damaged /\ [Next]_vars => damaged' \/ AloneInv'
<1> SUFFICES ASSUME ClaimInv, AloneInv, ~damaged, ~damaged', [Next]_vars PROVE AloneInv'
  OBVIOUS
<1>1. CASE UNCHANGED <<recvVars, whole>>
  BY <1>1 DEF AloneInv, recvVars
<1>2. CASE \E d \in toClient : ProcessRecv(d)
  <2>1. PICK d \in toClient : ProcessRecv(d)
    BY <1>2
  <2>2. d.claim = 2
    BY <2>1 DEF ProcessRecv, ClaimInv
  <2>3. buffer' = Bytes(d) /\ readPos' = 0 /\ processLen' = 0
    BY <2>1, BytesOfDatagram DEF ProcessRecv, AloneInv
  <2>4. recv' = "parsing" /\ whole'
    BY <2>1 DEF ProcessRecv, AloneInv
  <2> QED
    BY <2>2, <2>3, <2>4 DEF AloneInv
<1>3. CASE OnRecv \/ FinishRecv
  <2>1. PICK d : buffer = Bytes(d) /\ d.claim = 2 /\ readPos = 0 /\ processLen \in {0, 2}
    BY <1>3 DEF OnRecv, FinishRecv, AloneInv
  <2>2. processLen = 0 => Header = [of |-> d, part |-> 1] /\ Claim(Header) = 2 /\ IsWhole
    BY <2>1, BytesOfDatagram DEF Header, Claim, IsWhole
  <2>3. Len(buffer) = 2
    BY <2>1, BytesOfDatagram
  <2>4. processLen = 0 => HasPacket
    BY <2>2, <2>3 DEF HasPacket, Header
  <2>5. processLen = 2 => ~HasPacket
    BY <2>3 DEF HasPacket
  <2>6. CASE OnRecv
    <3>1. processLen = 0
      BY <2>1, <2>6, <2>5 DEF OnRecv
    <3>2. UNCHANGED <<buffer, readPos, recv>> /\ recv = "parsing" /\ processLen' = processLen + Claim(Header)
      BY <2>6 DEF OnRecv
    <3>3. whole'
      BY <2>2, <2>6, <3>1, Zenon DEF OnRecv, AloneInv
    <3> QED
      BY <2>1, <2>2, <3>1, <3>2, <3>3 DEF AloneInv
  <2>7. CASE FinishRecv
    <3>1. processLen = 2
      BY <2>1, <2>7, <2>4 DEF FinishRecv
    <3>2. buffer' = SubSeq(Bytes(d), processLen + 1, Len(buffer))
      BY <2>1, <2>7 DEF FinishRecv
    <3>3. processLen + 1 = 3
      BY <3>1
    <3>4. buffer' = << >>
      BY <2>3, <3>2, <3>3, BytesOfDatagram
    <3>5. readPos' = 0 /\ recv' = "posted" /\ whole' = whole
      BY <2>7, <3>4 DEF FinishRecv, ghostVars
    <3> QED
      BY <3>4, <3>5 DEF AloneInv
  <2> QED
    BY <1>3, <2>6, <2>7
<1>4. CASE ReceiveError \/ \E e \in Endpoints : ReceiveEmpty(e)
  BY <1>4 DEF ReceiveError, ReceiveEmpty, AloneInv, ghostVars
<1> QED
  BY <1>1, <1>2, <1>3, <1>4 DEF Next, Handle_S_ENTER_GAME, SendInputToServer, SendReliable, ServerReceive,
     Stray, Damage, vars, ghostVars

\* Once a damaged datagram has come in, it has.
LEMMA DamageStays == damaged /\ [Next]_vars => damaged'
BY DEF Next, Handle_S_ENTER_GAME, SendInputToServer, SendReliable, ProcessRecv, ReceiveError,
   ReceiveEmpty, OnRecv, FinishRecv, ServerReceive, Stray, Damage, vars, ghostVars

\* Until then no packet is put together from two datagrams, and every receive
\* finds the buffer empty from its start (UdpReceiver.cpp 55-101).
THEOREM StandAlone == Spec => []DatagramsStandAlone
<1>1. Init => WholeInv
  BY DEF Init, WholeInv, ClaimInv, AloneInv
<1>2. SendInv /\ WholeInv /\ [Next]_vars => WholeInv'
  BY ClaimStep, AloneStep, DamageStays DEF WholeInv
<1>3. WholeInv => DatagramsStandAlone
  BY DEF WholeInv, AloneInv, DatagramsStandAlone
<1> QED
  BY SendInvariant, <1>1, <1>2, <1>3, PTL DEF Spec

===============================================================================
