--------------------------- MODULE TcpSession_proofs ---------------------------
(***************************************************************************)
(* One async_write at a time, from memory that is owned, of what Send has  *)
(* queued and in that order; a queue that somebody will send; registries   *)
(* that agree: for every number of senders, writes and buffers.            *)
(*                                                                         *)
(* sendRegistered is a token: whoever finds it FALSE holds it on its way   *)
(* through RegisterSend, hands it to the write, and gets it back in        *)
(* ProcessSend.  ProcessDisconnect takes it from its holder, which is safe *)
(* only because nobody passes RegisterSend's test any more by then.  So    *)
(* the invariant says that there is one holder, before that test while the *)
(* session is connected and behind it always.                              *)
(***************************************************************************)
EXTENDS TcpSession, SequenceTheorems, FiniteSetTheorems, WellFoundedInduction, TLAPS

\* p is behind the test of RegisterSend, or its write is on the way.
Sends(p) ==
    \/ pc[p] \in {"clear", "drain", "write", "psend", "requeue"}
    \/ p \in Writes /\ pc[p] = "posted"

\* p has sendRegistered, as long as nothing disconnects.
Holds(p) == Sends(p) \/ pc[p] = "check"

\* p has passed the exchange of Disconnect.
Closes(p) == pc[p] \in {"close", "pd", "release", "pdClear"}

\* Nothing but the connect handler has run yet, or the connect has failed.
Connecting == ~timeRef /\ pc[Connector] # "setTime"

Early == {"start", "connecting", "add", "setManager", "setTime"}

StartInv ==
    /\ timeRef => pc[Connector] \notin Early
    /\ ~timeRef => pc[Connector] \in Early \union {"idle"}
    /\ pc[Connector] # "idle" => pc[Receiver] = "idle"
    /\ Connecting =>
         /\ \A p \in Procs \ {Connector} : pc[p] = "idle"
         /\ connected <=> pc[Connector] \in {"add", "setManager"}
         /\ service <=> pc[Connector] = "setManager"
         /\ sockOpen <=> pc[Connector] # "start"
         /\ ~manager /\ ~failed /\ ~sendRegistered
         /\ sendQueue = <<>> /\ accepted = <<>> /\ wire = <<>>

CloseInv ==
    /\ connected => sockOpen /\ (service \/ pc[Connector] = "add")
    /\ manager => service
    /\ crash # "assert"
    /\ \A p, q \in Procs : Closes(p) /\ Closes(q) => p = q
    /\ \A p \in Procs :
         /\ Closes(p) => ~connected
         /\ pc[p] \in {"close", "pd", "release"} => service
         /\ pc[p] \in {"pd", "release", "pdClear"} => ~sockOpen
         /\ pc[p] \in {"release", "pdClear"} => ~manager
         /\ pc[p] = "pdClear" => ~service

HolderInv ==
    /\ \A p, q \in Procs : Sends(p) /\ Sends(q) => p = q
    /\ connected =>
         /\ \A p, q \in Procs : Holds(p) /\ Holds(q) => p = q
         /\ \A p \in Procs : Holds(p) => sendRegistered

\* While the session is connected what is queued has a holder.
DutyInv ==
    /\ \A p \in Procs : pc[p] = "requeue" /\ sockOpen => failed
    /\ connected =>
         /\ \A p \in Procs : pc[p] \in {"check", "clear", "drain"} => sendQueue # <<>>
         /\ failed => sendRegistered
         /\ ~failed /\ sendQueue # <<>> => sendRegistered
         /\ ~failed /\ sendRegistered => \E p \in Procs : Holds(p) \/ pc[p] = "disc"

\* Who has failed does not send again.
FailedInv ==
    failed /\ sockOpen =>
        /\ \A p \in Procs : Sends(p) => pc[p] = "requeue"
        /\ connected => \A p \in Procs : pc[p] # "check"

MemoryInv ==
    ~Cleared =>
        \A p \in Procs :
            /\ pc[p] = "drain" => current = <<>>
            /\ pc[p] = "write" => current = batch[p]
            /\ p \in Writes /\ pc[p] = "posted" => current = batch[p]

\* What is on its way to the socket, between the queue and the wire.
OnTheWay(p) == pc[p] = "write" \/ (p \in Writes /\ pc[p] = "posted")

\* Send brings one buffer.
QueuedOne == \A p \in Procs : pc[p] = "queue" => \E b \in Buffers : batch[p] = <<b>>

\* Until a write fails, what Send has queued is on the wire, on its way or queued.
ExactInv ==
    sockOpen /\ ~failed =>
        /\ \A p \in Procs :
             OnTheWay(p) => NonEmpty(accepted) = wire \o batch[p] \o NonEmpty(sendQueue)
        /\ (\A p \in Procs : ~OnTheWay(p)) => NonEmpty(accepted) = wire \o NonEmpty(sendQueue)

PrefixInv == \E rest \in Seq(Buffers) : NonEmpty(accepted) = wire \o rest

WireInv == QueuedOne /\ ExactInv /\ PrefixInv

SessionInv ==
    TypeOK /\ StartInv /\ CloseInv /\ HolderInv /\ DutyInv /\ FailedInv /\ MemoryInv /\ WireInv
    /\ OnlyDisconnectRaces

-------------------------------------------------------------------------------
\* The order of the natural numbers.
Below == {p \in Nat \X Nat : p[1] < p[2]}

\* It is well founded.
LEMMA BelowWellFounded == IsWellFoundedOn(Below, Nat)
BY NatLessThanWellFounded DEF OpToRel, Below

\* Every set of natural numbers but the empty one has a least number.
LEMMA LeastNat ==
    ASSUME NEW T \in SUBSET Nat, T # {}
    PROVE  \E m \in T : \A k \in T : m <= k
<1>1. \E m \in T : \A k \in T : ~ (<<k, m>> \in Below)
  <2>1. T \subseteq Nat
    OBVIOUS
  <2> QED
    BY <2>1, WFMin, BelowWellFounded
<1>2. PICK m \in T : \A k \in T : ~ (<<k, m>> \in Below)
  BY <1>1
<1>3. ASSUME NEW k \in T PROVE m <= k
  <2>1. ~(k < m)
    BY <1>2 DEF Below
  <2> QED
    BY <2>1
<1> QED
  BY <1>3

\* A set that holds 0 and with every number the next one holds every number.
LEMMA InductNat ==
    ASSUME NEW G \in SUBSET Nat, 0 \in G, \A n \in G : n + 1 \in G
    PROVE  G = Nat
<1> SUFFICES ASSUME G # Nat PROVE FALSE
  OBVIOUS
<1>1. PICK m \in Nat \ G : \A k \in Nat \ G : m <= k
  BY LeastNat
<1>2. m # 0 /\ m - 1 \in G
  BY <1>1
<1> QED
  BY <1>1, <1>2

\* f is the function kept of NonEmpty, as far as n.
Filters(f, s, n) ==
    /\ f \in [0..n -> Seq(Buffers)]
    /\ f[0] = <<>>
    /\ \A i \in 1..n : f[i] = IF s[i] \in Empty THEN f[i - 1] ELSE Append(f[i - 1], s[i])

\* There is a function that NonEmpty can choose,
LEMMA NonEmptyExists ==
    ASSUME NEW s \in Seq(Buffers)
    PROVE  \E f : Filters(f, s, Len(s))
<1> DEFINE G == {n \in Nat : n <= Len(s) => \E f : Filters(f, s, n)}
<1>1. 0 \in G
  <2>1. Filters([i \in 0..0 |-> <<>>], s, 0)
    BY DEF Filters
  <2> QED
    BY <2>1
<1>2. ASSUME NEW n \in G PROVE n + 1 \in G
  <2> SUFFICES ASSUME n + 1 <= Len(s) PROVE \E f : Filters(f, s, n + 1)
    OBVIOUS
  <2>1. PICK f : Filters(f, s, n)
    OBVIOUS
  <2> DEFINE last1 == IF s[n + 1] \in Empty THEN f[n] ELSE Append(f[n], s[n + 1])
             g == [i \in 0..(n + 1) |-> IF i <= n THEN f[i] ELSE last1]
  <2>2. /\ f \in [0..n -> Seq(Buffers)] /\ f[0] = <<>>
        /\ \A i \in 1..n : f[i] = IF s[i] \in Empty THEN f[i - 1] ELSE Append(f[i - 1], s[i])
    BY <2>1 DEF Filters
  <2>3. s[n + 1] \in Buffers /\ last1 \in Seq(Buffers)
    BY <2>2
  <2>4. g \in [0..(n + 1) -> Seq(Buffers)] /\ g[0] = <<>>
    BY <2>2, <2>3
  <2>5. ASSUME NEW i \in 1..(n + 1) PROVE g[i] = IF s[i] \in Empty THEN g[i - 1] ELSE Append(g[i - 1], s[i])
    <3>1. CASE i = n + 1
      <4>1. g[i] = last1 /\ g[i - 1] = f[n]
        BY <3>1
      <4> QED
        BY <3>1, <4>1
    <3>2. CASE i # n + 1
      <4>1. i \in 1..n /\ g[i] = f[i] /\ g[i - 1] = f[i - 1]
        BY <3>2
      <4> QED
        BY <2>2, <4>1
    <3> QED
      BY <3>1, <3>2
  <2>6. Filters(g, s, n + 1)
    <3> HIDE DEF g
    <3> QED
      BY <2>4, <2>5 DEF Filters
  <2> QED
    BY <2>6
<1>3. G = Nat
  <2> HIDE DEF G
  <2>1. G \in SUBSET Nat
    BY DEF G
  <2> QED
    BY <1>1, <1>2, <2>1, InductNat
<1>4. Len(s) \in G
  <2> HIDE DEF G
  <2> QED
    BY <1>3
<1>5. Len(s) <= Len(s) => \E f : Filters(f, s, Len(s))
  BY <1>4, Zenon
<1> QED
  BY <1>5

\* and only one,
LEMMA NonEmptyUnique ==
    ASSUME NEW s, NEW t, NEW m \in Nat, NEW n \in Nat, m <= n, NEW f, NEW g,
           Filters(f, s, n), Filters(g, t, m), \A i \in 1..m : s[i] = t[i]
    PROVE  f[m] = g[m]
<1> DEFINE G == {k \in Nat : k <= m => f[k] = g[k]}
<1>1. 0 \in G
  <2>1. f[0] = <<>> /\ g[0] = <<>>
    BY DEF Filters
  <2> QED
    BY <2>1
<1>2. ASSUME NEW k \in G PROVE k + 1 \in G
  <2> SUFFICES ASSUME k + 1 <= m PROVE f[k + 1] = g[k + 1]
    OBVIOUS
  <2>1. k + 1 \in 1..m /\ k + 1 \in 1..n /\ f[k] = g[k] /\ (k + 1) - 1 = k
    OBVIOUS
  <2>2. /\ f[k + 1] = IF s[k + 1] \in Empty THEN f[k] ELSE Append(f[k], s[k + 1])
        /\ g[k + 1] = IF t[k + 1] \in Empty THEN g[k] ELSE Append(g[k], t[k + 1])
    BY <2>1 DEF Filters
  <2> QED
    BY <2>1, <2>2
<1>3. G = Nat
  <2> HIDE DEF G
  <2>1. G \in SUBSET Nat
    BY DEF G
  <2> QED
    BY <1>1, <1>2, <2>1, InductNat
<1> QED
  BY <1>3

\* so NonEmpty keeps, in their order, the buffers that have bytes.
LEMMA NonEmptyIs ==
    ASSUME NEW s \in Seq(Buffers), NEW f, Filters(f, s, Len(s))
    PROVE  NonEmpty(s) = f[Len(s)]
<1> DEFINE Body(k, n) == IF n = 0 THEN <<>> ELSE IF s[n] \in Empty THEN k[n - 1] ELSE Append(k[n - 1], s[n])
           kept == CHOOSE k : k = [n \in 0..Len(s) |-> Body(k, n)]
<1>1. f = [n \in 0..Len(s) |-> Body(f, n)]
  <2>1. ASSUME NEW n \in 0..Len(s) PROVE f[n] = Body(f, n)
    <3>1. CASE n = 0
      BY <3>1 DEF Filters
    <3>2. CASE n \in 1..Len(s)
      BY <3>2 DEF Filters
    <3> QED
      BY <3>1, <3>2
  <2>2. f = [n \in 0..Len(s) |-> f[n]]
    BY DEF Filters
  <2> HIDE DEF Body
  <2> QED
    BY <2>1, <2>2
<1>2. kept = [n \in 0..Len(s) |-> Body(kept, n)]
  <2> HIDE DEF Body
  <2> QED
    BY <1>1
<1>3. NonEmpty(s) = kept[Len(s)]
  BY DEF NonEmpty
<1> HIDE DEF kept
<1>4. Filters(f, s, Len(s)) => \A n \in 0..Len(s) : f[n] = kept[n]
  <2> DEFINE G == {k \in Nat : k <= Len(s) => f[k] = kept[k]}
  <2>1. ASSUME NEW n \in 0..Len(s) PROVE kept[n] = Body(kept, n) /\ f[n] = Body(f, n)
    <3> HIDE DEF Body
    <3> QED
      BY <1>1, <1>2
  <2>2. 0 \in G
    BY <2>1
  <2>3. ASSUME NEW k \in G PROVE k + 1 \in G
    BY <2>1
  <2>4. G = Nat
    <3> HIDE DEF G
    <3>1. G \in SUBSET Nat
      BY DEF G
    <3> QED
      BY <2>2, <2>3, <3>1, InductNat
  <2> QED
    BY <2>4
<1> QED
  BY <1>3, <1>4

\* NonEmpty from sequence to sequence: of the empty one, of one that is longer by one.
LEMMA NonEmptyNil == NonEmpty(<<>>) = <<>>
<1>1. <<>> \in Seq(Buffers)
  OBVIOUS
<1>2. PICK f : Filters(f, <<>>, Len(<<>>))
  BY <1>1, NonEmptyExists
<1>3. NonEmpty(<<>>) = f[Len(<<>>)]
  BY <1>1, <1>2, NonEmptyIs
<1> QED
  BY <1>2, <1>3 DEF Filters

\* A buffer at the end is kept when it has bytes.
LEMMA NonEmptyAppend ==
    ASSUME NEW s \in Seq(Buffers), NEW e \in Buffers
    PROVE  NonEmpty(Append(s, e)) = IF e \in Empty THEN NonEmpty(s) ELSE Append(NonEmpty(s), e)
<1>1. PICK f : Filters(f, s, Len(s))
  BY NonEmptyExists
<1> DEFINE t == Append(s, e)
<1>2. /\ t \in Seq(Buffers) /\ Len(t) = Len(s) + 1 /\ t[Len(s) + 1] = e
      /\ Len(s) \in Nat /\ Len(s) <= Len(t) /\ \A i \in 1..Len(s) : t[i] = s[i]
  OBVIOUS
<1> HIDE DEF t
<1>3. PICK g : Filters(g, t, Len(t))
  BY <1>2, NonEmptyExists
<1>4. \A i \in 1..Len(s) : s[i] = t[i]
  BY <1>2
<1>5. g[Len(s)] = f[Len(s)]
  BY <1>1, <1>2, <1>3, <1>4, NonEmptyUnique
<1>6. NonEmpty(s) = f[Len(s)] /\ NonEmpty(t) = g[Len(t)]
  BY <1>1, <1>2, <1>3, NonEmptyIs
<1>7. g[Len(s) + 1] = IF e \in Empty THEN g[Len(s)] ELSE Append(g[Len(s)], e)
  BY <1>2, <1>3 DEF Filters
<1> QED
  BY <1>2, <1>5, <1>6, <1>7 DEF t

\* What is kept is a sequence of buffers.
LEMMA NonEmptyType ==
    ASSUME NEW s \in Seq(Buffers)
    PROVE  NonEmpty(s) \in Seq(Buffers)
<1>1. PICK f : Filters(f, s, Len(s))
  BY NonEmptyExists
<1> QED
  BY <1>1, NonEmptyIs DEF Filters

\* A last buffer is drained after the others.
LEMMA NonEmptyConcat ==
    ASSUME NEW s \in Seq(Buffers), NEW b \in Buffers
    PROVE  NonEmpty(s \o <<b>>) = NonEmpty(s) \o NonEmpty(<<b>>)
<1>1. s \o <<b>> = Append(s, b) /\ <<b>> = Append(<<>>, b) /\ <<>> \in Seq(Buffers)
  OBVIOUS
<1>2. NonEmpty(<<b>>) = IF b \in Empty THEN <<>> ELSE <<b>>
  BY <1>1, NonEmptyAppend, NonEmptyNil
<1>3. NonEmpty(Append(s, b)) = IF b \in Empty THEN NonEmpty(s) ELSE Append(NonEmpty(s), b)
  BY NonEmptyAppend
<1>4. /\ NonEmpty(s) \o <<>> = NonEmpty(s)
      /\ NonEmpty(s) \o <<b>> = Append(NonEmpty(s), b)
  <2>1. NonEmpty(s) \in Seq(Buffers)
    BY NonEmptyType
  <2> QED
    BY <2>1
<1> QED
  BY <1>1, <1>2, <1>3, <1>4

\* Concatenation is associative.
LEMMA Assoc == \A s, t, u \in Seq(Buffers) : (s \o t) \o u = s \o (t \o u)
BY ConcatAssociative

\* A queue is what is ahead in it and the rest.
LEMMA Split ==
    ASSUME NEW s \in Seq(Buffers), NEW n \in Nat, n <= Len(s)
    PROVE  /\ SubSeq(s, 1, n) \in Seq(Buffers) /\ SubSeq(s, n + 1, Len(s)) \in Seq(Buffers)
           /\ s = SubSeq(s, 1, n) \o SubSeq(s, n + 1, Len(s))
<1>1. SubSeq(s, 1, n) \o SubSeq(s, n + 1, Len(s)) = SubSeq(s, 1, Len(s))
  <2>1. 1 \in 1..Len(s) + 1 /\ n \in 1 - 1..Len(s) /\ Len(s) \in n..Len(s)
    OBVIOUS
  <2> QED
    BY <2>1, ConcatAdjacentSubSeq
<1>2. SubSeq(s, 1, n) \in Seq(Buffers) /\ SubSeq(s, n + 1, Len(s)) \in Seq(Buffers)
  OBVIOUS
<1>3. SubSeq(s, 1, Len(s)) = s
  OBVIOUS
<1> QED
  BY <1>1, <1>2, <1>3

-------------------------------------------------------------------------------
\* The activities.
LEMMA ProcsFacts ==
    /\ Connector \in Procs /\ Receiver \in Procs /\ Connector # Receiver
    /\ \A w \in Writes : w \in Procs /\ w # Connector /\ w # Receiver
BY ActivitiesAssumption DEF Procs, Connector, Receiver

\* Where an activity goes on after a Send it made in a callback.
LEMMA AfterSendTyped == \A p \in Procs : AfterSend(p) \in {"regRecv", "parse", "idle"}
BY DEF AfterSend

\* The first state satisfies the invariant.
LEMMA SessionInitInv == Init => SessionInv
<1> SUFFICES ASSUME Init PROVE SessionInv
  OBVIOUS
<1> USE ProcsFacts DEF Init
<1>1. TypeOK
  <2>1. /\ connected \in BOOLEAN /\ sockOpen \in BOOLEAN /\ service \in BOOLEAN
        /\ manager \in BOOLEAN /\ timeRef \in BOOLEAN /\ sendRegistered \in BOOLEAN
        /\ failed \in BOOLEAN
    BY Zenon
  <2>2. pc \in [Procs -> PcValues] /\ batch \in [Procs -> Seq(Buffers)]
    BY DEF PcValues
  <2> QED
    BY <2>1, <2>2 DEF TypeOK
<1>2. StartInv
  BY DEF StartInv, Connecting, Early
<1>3. CloseInv
  BY DEF CloseInv, Closes
<1>4. HolderInv
  BY DEF HolderInv, Holds, Sends
<1>5. DutyInv
  BY DEF DutyInv, Holds, Sends
<1>6. FailedInv
  BY DEF FailedInv
<1>7. MemoryInv
  BY DEF MemoryInv
<1>8. WireInv
  <2>1. <<>> \in Seq(Buffers) /\ NonEmpty(accepted) = wire \o <<>>
    BY NonEmptyNil
  <2>2. \E rest \in Seq(Buffers) : NonEmpty(accepted) = wire \o rest
    BY <2>1
  <2> QED
    BY <2>2, NonEmptyNil DEF WireInv, QueuedOne, ExactInv, PrefixInv, OnTheWay
<1> QED
  BY <1>1, <1>2, <1>3, <1>4, <1>5, <1>6, <1>7, <1>8 DEF SessionInv, OnlyDisconnectRaces

\* A step keeps StartInv.
LEMMA StartStep == SessionInv /\ [Next]_vars => StartInv'
<1> SUFFICES ASSUME SessionInv, [Next]_vars PROVE StartInv'
  OBVIOUS
<1> USE ProcsFacts DEF SessionInv, StartInv, Connecting, Early, At, Goto, refVars, sendVars
<1>0. pc \in [Procs -> PcValues]
  BY DEF SessionInv, TypeOK
<1> USE <1>0
<1>1. CASE RegisterConnect
  BY <1>1 DEF RegisterConnect
<1>2. CASE ConnectDone
  BY <1>2 DEF ConnectDone
<1>3. CASE AddTcpSession
  BY <1>3 DEF AddTcpSession
<1>4. CASE SetTcpSession
  BY <1>4 DEF SetTcpSession
<1>5. CASE SetTimeSession
  BY <1>5 DEF SetTimeSession
<1>6. CASE RecvDone
  BY <1>6 DEF RecvDone
<1>7. CASE RecvFails
  BY <1>7 DEF RecvFails
<1>8. ASSUME NEW p \in Procs, NEW b \in Buffers, Send(p, b) PROVE StartInv'
  <2>1. ~Connecting
    BY <1>8, ActivitiesAssumption DEF Send, MayCall
  <2>2. pc[Connector] = "login" \/ pc'[Connector] = pc[Connector]
    BY <1>8, ActivitiesAssumption DEF Send, MayCall
  <2>3. pc[Connector] = "login" => pc'[Connector] \in {"login", "queue", "regRecv"}
    BY <1>8 DEF Send, AfterSend
  <2>4. pc[Receiver] = "idle" => pc'[Receiver] = "idle"
    <3>1. pc[Receiver] = "idle" => p # Receiver
      BY <1>8, ActivitiesAssumption DEF Send, MayCall
    <3> QED
      BY <1>8, <3>1 DEF Send
  <2> QED
    BY <1>8, <2>1, <2>2, <2>3, <2>4 DEF Send
<1>9. ASSUME NEW p \in Procs, SendQueue(p) PROVE StartInv'
  BY <1>9 DEF SendQueue, AfterSend
<1>10. ASSUME NEW p \in Procs, RegisterSendCheck(p) PROVE StartInv'
  BY <1>10 DEF RegisterSendCheck, AfterSend
<1>11. ASSUME NEW p \in Procs, RegisterSendClear(p) PROVE StartInv'
  BY <1>11 DEF RegisterSendClear, AccessCurrent
<1>12. ASSUME NEW p \in Procs, RegisterSendDrain(p) PROVE StartInv'
  BY <1>12 DEF RegisterSendDrain, AfterSend
<1>13. ASSUME NEW p \in Procs, Disconnect(p) PROVE StartInv'
  BY <1>13 DEF Disconnect
<1>14. ASSUME NEW p \in Procs, RegisterDisconnect(p) PROVE StartInv'
  BY <1>14 DEF RegisterDisconnect
<1>15. ASSUME NEW p \in Procs, ProcessDisconnect(p) PROVE StartInv'
  BY <1>15 DEF ProcessDisconnect
<1>16. ASSUME NEW p \in Procs, ReleaseTcpSession(p) PROVE StartInv'
  BY <1>16 DEF ReleaseTcpSession
<1>17. ASSUME NEW p \in Procs, ProcessDisconnectClear(p) PROVE StartInv'
  BY <1>17 DEF ProcessDisconnectClear, AccessCurrent
<1>18. ASSUME NEW p \in Procs, RegisterRecv(p) PROVE StartInv'
  BY <1>18 DEF RegisterRecv
<1>19. ASSUME NEW p \in Procs, NEW w \in Writes, RegisterSendWrite(p, w) PROVE StartInv'
  BY <1>19 DEF RegisterSendWrite, AfterSend
<1>20. ASSUME NEW w \in Writes, WriteDone(w) PROVE StartInv'
  BY <1>20 DEF WriteDone
<1>21. ASSUME NEW w \in Writes, WriteRequeue(w) PROVE StartInv'
  BY <1>21 DEF WriteRequeue
<1>22. ASSUME NEW w \in Writes, ProcessSend(w) PROVE StartInv'
  BY <1>22 DEF ProcessSend
<1>23. ASSUME NEW w \in Writes, NEW n \in 0..Cardinality(Buffers), WriteError(w, n) PROVE StartInv'
  BY <1>23 DEF WriteError
<1>24. CASE UNCHANGED vars
  BY <1>24 DEF vars
<1> QED
  BY <1>1, <1>2, <1>3, <1>4, <1>5, <1>6, <1>7, <1>8, <1>9, <1>10, <1>11, <1>12, <1>13, <1>14, <1>15, <1>16, <1>17, <1>18, <1>19, <1>20, <1>21, <1>22, <1>23, <1>24 DEF Next, ConnectStep, SendStep, DisconnectStep, WriteStep

\* A step keeps CloseInv.
LEMMA CloseStep == SessionInv /\ [Next]_vars => CloseInv'
<1> SUFFICES ASSUME SessionInv, [Next]_vars PROVE CloseInv'
  OBVIOUS
<1> USE ProcsFacts DEF SessionInv, CloseInv, Closes, At, Goto, refVars, sendVars
<1>0. pc \in [Procs -> PcValues]
  BY DEF SessionInv, TypeOK
<1> USE <1>0
<1>1. CASE RegisterConnect
  BY <1>1 DEF RegisterConnect, StartInv, Connecting, Early
<1>2. CASE ConnectDone
  BY <1>2 DEF ConnectDone, StartInv, Connecting, Early
<1>3. CASE AddTcpSession
  BY <1>3 DEF AddTcpSession, StartInv, Connecting, Early
<1>4. CASE SetTcpSession
  BY <1>4 DEF SetTcpSession, StartInv, Connecting, Early
<1>5. CASE SetTimeSession
  BY <1>5 DEF SetTimeSession
<1>6. CASE RecvDone
  BY <1>6 DEF RecvDone
<1>7. CASE RecvFails
  BY <1>7 DEF RecvFails
<1>8. ASSUME NEW p \in Procs, NEW b \in Buffers, Send(p, b) PROVE CloseInv'
  BY <1>8 DEF Send, MayCall, AfterSend
<1>9. ASSUME NEW p \in Procs, SendQueue(p) PROVE CloseInv'
  BY <1>9 DEF SendQueue, AfterSend
<1>10. ASSUME NEW p \in Procs, RegisterSendCheck(p) PROVE CloseInv'
  BY <1>10 DEF RegisterSendCheck, AfterSend
<1>11. ASSUME NEW p \in Procs, RegisterSendClear(p) PROVE CloseInv'
  BY <1>11 DEF RegisterSendClear, AccessCurrent
<1>12. ASSUME NEW p \in Procs, RegisterSendDrain(p) PROVE CloseInv'
  BY <1>12 DEF RegisterSendDrain, AfterSend, AccessCurrent
<1>13. ASSUME NEW p \in Procs, Disconnect(p) PROVE CloseInv'
  <2>1. connected => service
    BY <1>13 DEF Disconnect, StartInv, Connecting, Early
  <2> QED
    BY <1>13, <2>1 DEF Disconnect
<1>14. ASSUME NEW p \in Procs, RegisterDisconnect(p) PROVE CloseInv'
  BY <1>14 DEF RegisterDisconnect
<1>15. ASSUME NEW p \in Procs, ProcessDisconnect(p) PROVE CloseInv'
  BY <1>15 DEF ProcessDisconnect
<1>16. ASSUME NEW p \in Procs, ReleaseTcpSession(p) PROVE CloseInv'
  BY <1>16 DEF ReleaseTcpSession
<1>17. ASSUME NEW p \in Procs, ProcessDisconnectClear(p) PROVE CloseInv'
  BY <1>17 DEF ProcessDisconnectClear, AccessCurrent
<1>18. ASSUME NEW p \in Procs, RegisterRecv(p) PROVE CloseInv'
  BY <1>18 DEF RegisterRecv
<1>19. ASSUME NEW p \in Procs, NEW w \in Writes, RegisterSendWrite(p, w) PROVE CloseInv'
  BY <1>19 DEF RegisterSendWrite, AfterSend
<1>20. ASSUME NEW w \in Writes, WriteDone(w) PROVE CloseInv'
  BY <1>20 DEF WriteDone
<1>21. ASSUME NEW w \in Writes, WriteRequeue(w) PROVE CloseInv'
  BY <1>21 DEF WriteRequeue, AccessCurrent
<1>22. ASSUME NEW w \in Writes, ProcessSend(w) PROVE CloseInv'
  BY <1>22 DEF ProcessSend
<1>23. ASSUME NEW w \in Writes, NEW n \in 0..Cardinality(Buffers), WriteError(w, n) PROVE CloseInv'
  BY <1>23 DEF WriteError
<1>24. CASE UNCHANGED vars
  BY <1>24 DEF vars
<1> QED
  BY <1>1, <1>2, <1>3, <1>4, <1>5, <1>6, <1>7, <1>8, <1>9, <1>10, <1>11, <1>12, <1>13, <1>14, <1>15, <1>16, <1>17, <1>18, <1>19, <1>20, <1>21, <1>22, <1>23, <1>24 DEF Next, ConnectStep, SendStep, DisconnectStep, WriteStep

\* A step keeps HolderInv.
LEMMA HolderStep == SessionInv /\ [Next]_vars => HolderInv'
<1> SUFFICES ASSUME SessionInv, [Next]_vars PROVE HolderInv'
  OBVIOUS
<1> USE ProcsFacts DEF SessionInv, HolderInv, Holds, Sends, At, Goto, refVars, sendVars
<1>0. pc \in [Procs -> PcValues]
  BY DEF SessionInv, TypeOK
<1> USE <1>0
<1>1. CASE RegisterConnect
  BY <1>1 DEF RegisterConnect
<1>2. CASE ConnectDone
  BY <1>2 DEF ConnectDone, StartInv, Connecting, Early
<1>3. CASE AddTcpSession
  BY <1>3 DEF AddTcpSession
<1>4. CASE SetTcpSession
  BY <1>4 DEF SetTcpSession
<1>5. CASE SetTimeSession
  BY <1>5 DEF SetTimeSession
<1>6. CASE RecvDone
  BY <1>6 DEF RecvDone
<1>7. CASE RecvFails
  BY <1>7 DEF RecvFails
<1>8. ASSUME NEW p \in Procs, NEW b \in Buffers, Send(p, b) PROVE HolderInv'
  BY <1>8 DEF Send, MayCall, AfterSend
<1>9. ASSUME NEW p \in Procs, SendQueue(p) PROVE HolderInv'
  BY <1>9 DEF SendQueue, AfterSend
<1>10. ASSUME NEW p \in Procs, RegisterSendCheck(p) PROVE HolderInv'
  BY <1>10 DEF RegisterSendCheck, AfterSend
<1>11. ASSUME NEW p \in Procs, RegisterSendClear(p) PROVE HolderInv'
  BY <1>11 DEF RegisterSendClear, AccessCurrent
<1>12. ASSUME NEW p \in Procs, RegisterSendDrain(p) PROVE HolderInv'
  BY <1>12 DEF RegisterSendDrain, AfterSend
<1>13. ASSUME NEW p \in Procs, Disconnect(p) PROVE HolderInv'
  BY <1>13 DEF Disconnect
<1>14. ASSUME NEW p \in Procs, RegisterDisconnect(p) PROVE HolderInv'
  BY <1>14 DEF RegisterDisconnect
<1>15. ASSUME NEW p \in Procs, ProcessDisconnect(p) PROVE HolderInv'
  BY <1>15 DEF ProcessDisconnect
<1>16. ASSUME NEW p \in Procs, ReleaseTcpSession(p) PROVE HolderInv'
  BY <1>16 DEF ReleaseTcpSession
<1>17. ASSUME NEW p \in Procs, ProcessDisconnectClear(p) PROVE HolderInv'
  BY <1>17 DEF ProcessDisconnectClear, AccessCurrent, CloseInv, Closes
<1>18. ASSUME NEW p \in Procs, RegisterRecv(p) PROVE HolderInv'
  BY <1>18 DEF RegisterRecv
<1>19. ASSUME NEW p \in Procs, NEW w \in Writes, RegisterSendWrite(p, w) PROVE HolderInv'
  BY <1>19 DEF RegisterSendWrite, AfterSend
<1>20. ASSUME NEW w \in Writes, WriteDone(w) PROVE HolderInv'
  BY <1>20 DEF WriteDone
<1>21. ASSUME NEW w \in Writes, WriteRequeue(w) PROVE HolderInv'
  BY <1>21 DEF WriteRequeue
<1>22. ASSUME NEW w \in Writes, ProcessSend(w) PROVE HolderInv'
  BY <1>22 DEF ProcessSend
<1>23. ASSUME NEW w \in Writes, NEW n \in 0..Cardinality(Buffers), WriteError(w, n) PROVE HolderInv'
  BY <1>23 DEF WriteError
<1>24. CASE UNCHANGED vars
  BY <1>24 DEF vars
<1> QED
  BY <1>1, <1>2, <1>3, <1>4, <1>5, <1>6, <1>7, <1>8, <1>9, <1>10, <1>11, <1>12, <1>13, <1>14, <1>15, <1>16, <1>17, <1>18, <1>19, <1>20, <1>21, <1>22, <1>23, <1>24 DEF Next, ConnectStep, SendStep, DisconnectStep, WriteStep

\* A step keeps DutyInv.
LEMMA DutyStep == SessionInv /\ [Next]_vars => DutyInv'
<1> SUFFICES ASSUME SessionInv, [Next]_vars PROVE DutyInv'
  OBVIOUS
<1> USE ProcsFacts DEF SessionInv, DutyInv, Holds, Sends, At, Goto, refVars, sendVars
<1>0. pc \in [Procs -> PcValues]
  BY DEF SessionInv, TypeOK
<1> USE <1>0
<1>1. CASE RegisterConnect
  BY <1>1 DEF RegisterConnect, StartInv, Connecting, Early
<1>2. CASE ConnectDone
  BY <1>2 DEF ConnectDone, StartInv, Connecting, Early
<1>3. CASE AddTcpSession
  BY <1>3 DEF AddTcpSession
<1>4. CASE SetTcpSession
  BY <1>4 DEF SetTcpSession
<1>5. CASE SetTimeSession
  BY <1>5 DEF SetTimeSession
<1>6. CASE RecvDone
  BY <1>6 DEF RecvDone
<1>7. CASE RecvFails
  BY <1>7 DEF RecvFails
<1>8. ASSUME NEW p \in Procs, NEW b \in Buffers, Send(p, b) PROVE DutyInv'
  BY <1>8 DEF Send, MayCall, AfterSend
<1>9. ASSUME NEW p \in Procs, SendQueue(p) PROVE DutyInv'
  <2>1. sendQueue' # <<>> /\ sendRegistered'
    <3>1. PICK b \in Buffers : batch[p] = <<b>>
      BY <1>9 DEF SendQueue, WireInv, QueuedOne
    <3>2. sendQueue \in Seq(Buffers)
      BY DEF TypeOK
    <3> QED
      BY <1>9, <3>1, <3>2 DEF SendQueue
  <2>2. ASSUME connected, ~failed PROVE \E q \in Procs : (Holds(q) \/ pc[q] = "disc")'
    <3>1. CASE sendRegistered
      <4>1. PICK q \in Procs : Holds(q) \/ pc[q] = "disc"
        BY <2>2, <3>1
      <4>2. q # p /\ pc'[q] = pc[q]
        BY <1>9, <4>1 DEF SendQueue
      <4> QED
        BY <4>1, <4>2
    <3>2. CASE ~sendRegistered
      BY <1>9, <3>2 DEF SendQueue
    <3> QED
      BY <3>1, <3>2
  <2>3. \A q \in Procs : pc'[q] = "requeue" => pc[q] = "requeue"
    BY <1>9 DEF SendQueue, AfterSend
  <2>4. UNCHANGED <<connected, sockOpen, failed>>
    BY <1>9 DEF SendQueue
  <2> QED
    BY <2>1, <2>2, <2>3, <2>4
<1>10. ASSUME NEW p \in Procs, RegisterSendCheck(p) PROVE DutyInv'
  BY <1>10 DEF RegisterSendCheck, AfterSend, CloseInv
<1>11. ASSUME NEW p \in Procs, RegisterSendClear(p) PROVE DutyInv'
  BY <1>11 DEF RegisterSendClear, AccessCurrent
<1>12. ASSUME NEW p \in Procs, RegisterSendDrain(p) PROVE DutyInv'
  BY <1>12 DEF RegisterSendDrain, AfterSend, HolderInv
<1>13. ASSUME NEW p \in Procs, Disconnect(p) PROVE DutyInv'
  BY <1>13 DEF Disconnect
<1>14. ASSUME NEW p \in Procs, RegisterDisconnect(p) PROVE DutyInv'
  BY <1>14 DEF RegisterDisconnect
<1>15. ASSUME NEW p \in Procs, ProcessDisconnect(p) PROVE DutyInv'
  BY <1>15 DEF ProcessDisconnect
<1>16. ASSUME NEW p \in Procs, ReleaseTcpSession(p) PROVE DutyInv'
  BY <1>16 DEF ReleaseTcpSession
<1>17. ASSUME NEW p \in Procs, ProcessDisconnectClear(p) PROVE DutyInv'
  BY <1>17 DEF ProcessDisconnectClear, AccessCurrent, CloseInv, Closes
<1>18. ASSUME NEW p \in Procs, RegisterRecv(p) PROVE DutyInv'
  BY <1>18 DEF RegisterRecv, StartInv
<1>19. ASSUME NEW p \in Procs, NEW w \in Writes, RegisterSendWrite(p, w) PROVE DutyInv'
  BY <1>19 DEF RegisterSendWrite, AfterSend
<1>20. ASSUME NEW w \in Writes, WriteDone(w) PROVE DutyInv'
  BY <1>20 DEF WriteDone
<1>21. ASSUME NEW w \in Writes, WriteRequeue(w) PROVE DutyInv'
  BY <1>21 DEF WriteRequeue, HolderInv, CloseInv
<1>22. ASSUME NEW w \in Writes, ProcessSend(w) PROVE DutyInv'
  <2>1. UNCHANGED <<connected, sockOpen, sendQueue, failed>>
    BY <1>22 DEF ProcessSend
  <2>2. \A q \in Procs : q # w => pc'[q] = pc[q]
    BY <1>22 DEF ProcessSend
  <2>3. connected => ~failed
    BY <1>22 DEF ProcessSend, FailedInv, CloseInv
  <2>4. CASE sendQueue = <<>>
    BY <1>22, <2>4, <2>1, <2>2, <2>3 DEF ProcessSend, HolderInv
  <2>5. CASE sendQueue # <<>>
    BY <1>22, <2>5, <2>1, <2>2, <2>3 DEF ProcessSend, HolderInv
  <2> QED
    BY <2>4, <2>5
<1>23. ASSUME NEW w \in Writes, NEW n \in 0..Cardinality(Buffers), WriteError(w, n) PROVE DutyInv'
  BY <1>23 DEF WriteError, HolderInv, CloseInv
<1>24. CASE UNCHANGED vars
  BY <1>24 DEF vars
<1> QED
  BY <1>1, <1>2, <1>3, <1>4, <1>5, <1>6, <1>7, <1>8, <1>9, <1>10, <1>11, <1>12, <1>13, <1>14, <1>15, <1>16, <1>17, <1>18, <1>19, <1>20, <1>21, <1>22, <1>23, <1>24 DEF Next, ConnectStep, SendStep, DisconnectStep, WriteStep

\* A step keeps FailedInv.
LEMMA FailedStep == SessionInv /\ [Next]_vars => FailedInv'
<1> SUFFICES ASSUME SessionInv, [Next]_vars PROVE FailedInv'
  OBVIOUS
<1> USE ProcsFacts DEF SessionInv, FailedInv, Sends, At, Goto, refVars, sendVars
<1>0. pc \in [Procs -> PcValues]
  BY DEF SessionInv, TypeOK
<1> USE <1>0
<1>1. CASE RegisterConnect
  BY <1>1 DEF RegisterConnect, StartInv, Connecting, Early
<1>2. CASE ConnectDone
  BY <1>2 DEF ConnectDone, StartInv, Connecting, Early
<1>3. CASE AddTcpSession
  BY <1>3 DEF AddTcpSession
<1>4. CASE SetTcpSession
  BY <1>4 DEF SetTcpSession
<1>5. CASE SetTimeSession
  BY <1>5 DEF SetTimeSession
<1>6. CASE RecvDone
  BY <1>6 DEF RecvDone
<1>7. CASE RecvFails
  BY <1>7 DEF RecvFails
<1>8. ASSUME NEW p \in Procs, NEW b \in Buffers, Send(p, b) PROVE FailedInv'
  BY <1>8 DEF Send, MayCall, AfterSend
<1>9. ASSUME NEW p \in Procs, SendQueue(p) PROVE FailedInv'
  BY <1>9 DEF SendQueue, AfterSend, DutyInv
<1>10. ASSUME NEW p \in Procs, RegisterSendCheck(p) PROVE FailedInv'
  BY <1>10 DEF RegisterSendCheck, AfterSend
<1>11. ASSUME NEW p \in Procs, RegisterSendClear(p) PROVE FailedInv'
  BY <1>11 DEF RegisterSendClear, AccessCurrent
<1>12. ASSUME NEW p \in Procs, RegisterSendDrain(p) PROVE FailedInv'
  BY <1>12 DEF RegisterSendDrain, AfterSend
<1>13. ASSUME NEW p \in Procs, Disconnect(p) PROVE FailedInv'
  BY <1>13 DEF Disconnect
<1>14. ASSUME NEW p \in Procs, RegisterDisconnect(p) PROVE FailedInv'
  BY <1>14 DEF RegisterDisconnect
<1>15. ASSUME NEW p \in Procs, ProcessDisconnect(p) PROVE FailedInv'
  BY <1>15 DEF ProcessDisconnect
<1>16. ASSUME NEW p \in Procs, ReleaseTcpSession(p) PROVE FailedInv'
  BY <1>16 DEF ReleaseTcpSession
<1>17. ASSUME NEW p \in Procs, ProcessDisconnectClear(p) PROVE FailedInv'
  BY <1>17 DEF ProcessDisconnectClear, AccessCurrent
<1>18. ASSUME NEW p \in Procs, RegisterRecv(p) PROVE FailedInv'
  BY <1>18 DEF RegisterRecv
<1>19. ASSUME NEW p \in Procs, NEW w \in Writes, RegisterSendWrite(p, w) PROVE FailedInv'
  BY <1>19 DEF RegisterSendWrite, AfterSend
<1>20. ASSUME NEW w \in Writes, WriteDone(w) PROVE FailedInv'
  BY <1>20 DEF WriteDone
<1>21. ASSUME NEW w \in Writes, WriteRequeue(w) PROVE FailedInv'
  BY <1>21 DEF WriteRequeue
<1>22. ASSUME NEW w \in Writes, ProcessSend(w) PROVE FailedInv'
  BY <1>22 DEF ProcessSend
<1>23. ASSUME NEW w \in Writes, NEW n \in 0..Cardinality(Buffers), WriteError(w, n) PROVE FailedInv'
  BY <1>23 DEF WriteError, HolderInv, Holds
<1>24. CASE UNCHANGED vars
  BY <1>24 DEF vars
<1> QED
  BY <1>1, <1>2, <1>3, <1>4, <1>5, <1>6, <1>7, <1>8, <1>9, <1>10, <1>11, <1>12, <1>13, <1>14, <1>15, <1>16, <1>17, <1>18, <1>19, <1>20, <1>21, <1>22, <1>23, <1>24 DEF Next, ConnectStep, SendStep, DisconnectStep, WriteStep

\* A step keeps MemoryInv.
LEMMA MemoryStep == SessionInv /\ [Next]_vars => MemoryInv'
<1> SUFFICES ASSUME SessionInv, [Next]_vars PROVE MemoryInv'
  OBVIOUS
<1> USE ProcsFacts DEF SessionInv, MemoryInv, Cleared, At, Goto, refVars, sendVars
<1>0. pc \in [Procs -> PcValues] /\ batch \in [Procs -> Seq(Buffers)] /\ current \in Seq(Buffers)
  BY DEF SessionInv, TypeOK
<1> USE <1>0
<1>1. CASE RegisterConnect
  BY <1>1 DEF RegisterConnect, StartInv, Connecting, Early
<1>2. CASE ConnectDone
  BY <1>2 DEF ConnectDone
<1>3. CASE AddTcpSession
  BY <1>3 DEF AddTcpSession, StartInv, Connecting, Early
<1>4. CASE SetTcpSession
  BY <1>4 DEF SetTcpSession
<1>5. CASE SetTimeSession
  BY <1>5 DEF SetTimeSession
<1>6. CASE RecvDone
  BY <1>6 DEF RecvDone
<1>7. CASE RecvFails
  BY <1>7 DEF RecvFails
<1>8. ASSUME NEW p \in Procs, NEW b \in Buffers, Send(p, b) PROVE MemoryInv'
  BY <1>8 DEF Send, MayCall, AfterSend
<1>9. ASSUME NEW p \in Procs, SendQueue(p) PROVE MemoryInv'
  BY <1>9 DEF SendQueue, AfterSend
<1>10. ASSUME NEW p \in Procs, RegisterSendCheck(p) PROVE MemoryInv'
  BY <1>10 DEF RegisterSendCheck, AfterSend
<1>11. ASSUME NEW p \in Procs, RegisterSendClear(p) PROVE MemoryInv'
  BY <1>11 DEF RegisterSendClear, AccessCurrent, HolderInv, Sends
<1>12. ASSUME NEW p \in Procs, RegisterSendDrain(p) PROVE MemoryInv'
  <2>1. NonEmpty(sendQueue) \in Seq(Buffers)
    BY NonEmptyType DEF TypeOK
  <2>2. ~Cleared => current' = batch'[p]
    BY <1>12, <2>1 DEF RegisterSendDrain
  <2>3. \A q \in Procs : q # p => pc'[q] = pc[q] /\ ~Sends(q)
    BY <1>12 DEF RegisterSendDrain, HolderInv, Sends
  <2>4. pc'[p] # "drain" /\ ~(p \in Writes /\ pc'[p] = "posted")
    BY <1>12 DEF RegisterSendDrain, AfterSend
  <2>5. Cleared' = Cleared
    BY <1>12 DEF RegisterSendDrain, AfterSend
  <2> QED
    BY <2>2, <2>3, <2>4, <2>5 DEF Sends
<1>13. ASSUME NEW p \in Procs, Disconnect(p) PROVE MemoryInv'
  BY <1>13 DEF Disconnect
<1>14. ASSUME NEW p \in Procs, RegisterDisconnect(p) PROVE MemoryInv'
  BY <1>14 DEF RegisterDisconnect
<1>15. ASSUME NEW p \in Procs, ProcessDisconnect(p) PROVE MemoryInv'
  BY <1>15 DEF ProcessDisconnect
<1>16. ASSUME NEW p \in Procs, ReleaseTcpSession(p) PROVE MemoryInv'
  <2>1. ~Cleared /\ current' = current /\ batch' = batch
    BY <1>16 DEF ReleaseTcpSession, CloseInv
  <2>2. \A q \in Procs : pc'[q] \in {"drain", "write", "posted"} => pc[q] = pc'[q]
    BY <1>16 DEF ReleaseTcpSession
  <2> QED
    BY <2>1, <2>2
<1>17. ASSUME NEW p \in Procs, ProcessDisconnectClear(p) PROVE MemoryInv'
  <2>1. service' = FALSE
    BY <1>17 DEF ProcessDisconnectClear, CloseInv
  <2>2. \A q \in Procs : pc'[q] # "pdClear"
    BY <1>17 DEF ProcessDisconnectClear, CloseInv, Closes
  <2> QED
    BY <2>1, <2>2
<1>18. ASSUME NEW p \in Procs, RegisterRecv(p) PROVE MemoryInv'
  BY <1>18 DEF RegisterRecv
<1>19. ASSUME NEW p \in Procs, NEW w \in Writes, RegisterSendWrite(p, w) PROVE MemoryInv'
  BY <1>19 DEF RegisterSendWrite, AfterSend
<1>20. ASSUME NEW w \in Writes, WriteDone(w) PROVE MemoryInv'
  BY <1>20 DEF WriteDone
<1>21. ASSUME NEW w \in Writes, WriteRequeue(w) PROVE MemoryInv'
  BY <1>21 DEF WriteRequeue, HolderInv, Sends
<1>22. ASSUME NEW w \in Writes, ProcessSend(w) PROVE MemoryInv'
  BY <1>22 DEF ProcessSend
<1>23. ASSUME NEW w \in Writes, NEW n \in 0..Cardinality(Buffers), WriteError(w, n) PROVE MemoryInv'
  BY <1>23 DEF WriteError
<1>24. CASE UNCHANGED vars
  BY <1>24 DEF vars
<1> QED
  BY <1>1, <1>2, <1>3, <1>4, <1>5, <1>6, <1>7, <1>8, <1>9, <1>10, <1>11, <1>12, <1>13, <1>14, <1>15, <1>16, <1>17, <1>18, <1>19, <1>20, <1>21, <1>22, <1>23, <1>24 DEF Next, ConnectStep, SendStep, DisconnectStep, WriteStep

\* A step keeps TypeOK.
LEMMA TypeStep == SessionInv /\ [Next]_vars => TypeOK'
<1> SUFFICES ASSUME SessionInv, [Next]_vars PROVE TypeOK'
  OBVIOUS
<1> USE ProcsFacts DEF SessionInv, TypeOK, At, Goto, refVars, sendVars, PcValues
<1>1. CASE RegisterConnect
  BY <1>1 DEF RegisterConnect
<1>2. CASE ConnectDone
  BY <1>2 DEF ConnectDone
<1>3. CASE AddTcpSession
  BY <1>3 DEF AddTcpSession
<1>4. CASE SetTcpSession
  BY <1>4 DEF SetTcpSession
<1>5. CASE SetTimeSession
  BY <1>5 DEF SetTimeSession
<1>6. CASE RecvDone
  BY <1>6 DEF RecvDone
<1>7. CASE RecvFails
  BY <1>7 DEF RecvFails
<1>8. ASSUME NEW p \in Procs, NEW b \in Buffers, Send(p, b) PROVE TypeOK'
  <2>1. pc' \in [Procs -> PcValues]
    BY <1>8, AfterSendTyped DEF Send
  <2>2. batch' \in [Procs -> Seq(Buffers)]
    <3>1. <<b>> \in Seq(Buffers)
      OBVIOUS
    <3>2. batch' = [batch EXCEPT ![p] = <<b>>] \/ batch' = batch
      BY <1>8 DEF Send
    <3> QED
      BY <3>1, <3>2
  <2> QED
    BY <1>8, <2>1, <2>2 DEF Send
<1>9. ASSUME NEW p \in Procs, SendQueue(p) PROVE TypeOK'
  BY <1>9, AfterSendTyped DEF SendQueue
<1>10. ASSUME NEW p \in Procs, RegisterSendCheck(p) PROVE TypeOK'
  BY <1>10, AfterSendTyped DEF RegisterSendCheck, Unlock
<1>11. ASSUME NEW p \in Procs, RegisterSendClear(p) PROVE TypeOK'
  BY <1>11 DEF RegisterSendClear, AccessCurrent
<1>12. ASSUME NEW p \in Procs, RegisterSendDrain(p) PROVE TypeOK'
  <2>1. NonEmpty(sendQueue) \in Seq(Buffers)
    BY NonEmptyType
  <2>2. pc' \in [Procs -> PcValues]
    BY <1>12, AfterSendTyped DEF RegisterSendDrain
  <2>3. batch' \in [Procs -> Seq(Buffers)] /\ current' \in Seq(Buffers)
    BY <1>12, <2>1 DEF RegisterSendDrain
  <2> QED
    BY <1>12, <2>2, <2>3 DEF RegisterSendDrain, Unlock, AccessCurrent
<1>13. ASSUME NEW p \in Procs, Disconnect(p) PROVE TypeOK'
  BY <1>13 DEF Disconnect
<1>14. ASSUME NEW p \in Procs, RegisterDisconnect(p) PROVE TypeOK'
  BY <1>14 DEF RegisterDisconnect
<1>15. ASSUME NEW p \in Procs, ProcessDisconnect(p) PROVE TypeOK'
  BY <1>15 DEF ProcessDisconnect
<1>16. ASSUME NEW p \in Procs, ReleaseTcpSession(p) PROVE TypeOK'
  BY <1>16 DEF ReleaseTcpSession
<1>17. ASSUME NEW p \in Procs, ProcessDisconnectClear(p) PROVE TypeOK'
  <2>1. sendRegistered' \in BOOLEAN
    BY <1>17, Zenon DEF ProcessDisconnectClear
  <2> QED
    BY <1>17, <2>1 DEF ProcessDisconnectClear, AccessCurrent
<1>18. ASSUME NEW p \in Procs, RegisterRecv(p) PROVE TypeOK'
  BY <1>18 DEF RegisterRecv
<1>19. ASSUME NEW p \in Procs, NEW w \in Writes, RegisterSendWrite(p, w) PROVE TypeOK'
  <2>1. pc' \in [Procs -> PcValues]
    BY <1>19, AfterSendTyped DEF RegisterSendWrite
  <2>2. batch' \in [Procs -> Seq(Buffers)]
    <3>1. batch[p] \in Seq(Buffers) /\ <<>> \in Seq(Buffers)
      OBVIOUS
    <3>2. batch' = [batch EXCEPT ![p] = <<>>, ![w] = batch[p]]
      BY <1>19 DEF RegisterSendWrite
    <3> QED
      BY <3>1, <3>2
  <2>3. lock' \in Procs \union {Nobody}
    BY <1>19 DEF RegisterSendWrite, Unlock
  <2>4. UNCHANGED <<connected, sockOpen, refVars, sendQueue, sendRegistered, current,
                    accepted, fresh, wire, failed, crash>>
    BY <1>19 DEF RegisterSendWrite
  <2> QED
    BY <2>1, <2>2, <2>3, <2>4
<1>20. ASSUME NEW w \in Writes, WriteDone(w) PROVE TypeOK'
  BY <1>20 DEF WriteDone
<1>21. ASSUME NEW w \in Writes, WriteRequeue(w) PROVE TypeOK'
  BY <1>21 DEF WriteRequeue, AccessCurrent
<1>22. ASSUME NEW w \in Writes, ProcessSend(w) PROVE TypeOK'
  BY <1>22 DEF ProcessSend
<1>23. ASSUME NEW w \in Writes, NEW n \in 0..Cardinality(Buffers), WriteError(w, n) PROVE TypeOK'
  BY <1>23 DEF WriteError
<1>24. CASE UNCHANGED vars
  BY <1>24 DEF vars
<1> QED
  BY <1>1, <1>2, <1>3, <1>4, <1>5, <1>6, <1>7, <1>8, <1>9, <1>10, <1>11, <1>12, <1>13, <1>14, <1>15, <1>16, <1>17, <1>18, <1>19, <1>20, <1>21, <1>22, <1>23, <1>24 DEF Next, ConnectStep, SendStep, DisconnectStep, WriteStep

\* A step keeps WireInv.
LEMMA WireStep == SessionInv /\ [Next]_vars => WireInv'
<1> SUFFICES ASSUME SessionInv, [Next]_vars PROVE WireInv'
  OBVIOUS
<1> USE ProcsFacts DEF SessionInv, WireInv, QueuedOne, ExactInv, PrefixInv, OnTheWay, At, Goto, refVars, sendVars
<1>0. /\ pc \in [Procs -> PcValues] /\ batch \in [Procs -> Seq(Buffers)]
      /\ accepted \in Seq(Buffers) /\ wire \in Seq(Buffers) /\ sendQueue \in Seq(Buffers)
  BY DEF SessionInv, TypeOK
<1> USE <1>0
<1>1. CASE RegisterConnect
  <2>1. \A p \in Procs : ~OnTheWay(p)'
    BY <1>1 DEF RegisterConnect, StartInv, Connecting, Early
  <2>2. NonEmpty(<<>>) = <<>> \o NonEmpty(<<>>)
    BY NonEmptyNil
  <2> QED
    BY <1>1, <2>1, <2>2 DEF RegisterConnect, StartInv, Connecting, Early
<1>2. CASE ConnectDone
  BY <1>2 DEF ConnectDone
<1>3. CASE AddTcpSession
  BY <1>3 DEF AddTcpSession
<1>4. CASE SetTcpSession
  BY <1>4 DEF SetTcpSession
<1>5. CASE SetTimeSession
  BY <1>5 DEF SetTimeSession
<1>6. CASE RecvDone
  BY <1>6 DEF RecvDone
<1>7. CASE RecvFails
  BY <1>7 DEF RecvFails
<1>8. ASSUME NEW p \in Procs, NEW b \in Buffers, Send(p, b) PROVE WireInv'
  BY <1>8 DEF Send, MayCall, AfterSend
<1>9. ASSUME NEW p \in Procs, SendQueue(p) PROVE WireInv'
  <2>1. PICK b \in Buffers : batch[p] = <<b>>
    BY <1>9 DEF SendQueue
  <2>2. /\ sendQueue' = sendQueue \o <<b>> /\ accepted' = accepted \o <<b>>
        /\ UNCHANGED <<wire, sockOpen, failed>>
    BY <1>9, <2>1 DEF SendQueue
  <2>3. \A q \in Procs : OnTheWay(q)' => OnTheWay(q) /\ q # p
    BY <1>9 DEF SendQueue, AfterSend
  <2>4. ~OnTheWay(p) /\ \A q \in Procs : q # p => pc'[q] = pc[q] /\ batch'[q] = batch[q]
    BY <1>9 DEF SendQueue
  <2> DEFINE end == NonEmpty(<<b>>)
  <2>5. /\ end \in Seq(Buffers)
        /\ NonEmpty(accepted') = NonEmpty(accepted) \o end
        /\ NonEmpty(sendQueue') = NonEmpty(sendQueue) \o end
    <3>1. <<b>> \in Seq(Buffers)
      OBVIOUS
    <3>2. NonEmpty(sendQueue \o <<b>>) = NonEmpty(sendQueue) \o end
      BY NonEmptyConcat
    <3>3. NonEmpty(accepted \o <<b>>) = NonEmpty(accepted) \o end
      BY NonEmptyConcat
    <3>4. end \in Seq(Buffers)
      BY <3>1, NonEmptyType
    <3> QED
      BY <2>2, <3>2, <3>3, <3>4
  <2> HIDE DEF end
  <2>6. NonEmpty(sendQueue) \in Seq(Buffers)
    BY NonEmptyType
  <2>7. QueuedOne'
    BY <1>9, <2>4 DEF SendQueue, AfterSend
  <2>8. ASSUME sockOpen, ~failed, NEW q \in Procs, OnTheWay(q)'
        PROVE  NonEmpty(accepted') = wire' \o batch'[q] \o NonEmpty(sendQueue')
    <3>1. NonEmpty(accepted) = wire \o batch[q] \o NonEmpty(sendQueue)
      BY <2>3, <2>8
    <3>2. wire \o batch[q] \in Seq(Buffers)
      OBVIOUS
    <3>3. (wire \o batch[q] \o NonEmpty(sendQueue)) \o end = wire \o batch[q] \o (NonEmpty(sendQueue) \o end)
      BY <2>5, <2>6, <3>2, Assoc
    <3> QED
      BY <2>2, <2>3, <2>4, <2>5, <2>8, <3>1, <3>3
  <2>9. ASSUME sockOpen, ~failed, \A q \in Procs : ~OnTheWay(q)'
        PROVE  NonEmpty(accepted') = wire' \o NonEmpty(sendQueue')
    <3>1. NonEmpty(accepted) = wire \o NonEmpty(sendQueue)
      BY <2>4, <2>9
    <3>2. (wire \o NonEmpty(sendQueue)) \o end = wire \o (NonEmpty(sendQueue) \o end)
      BY <2>5, <2>6, Assoc
    <3> QED
      BY <2>2, <2>5, <3>1, <3>2
  <2>10. PrefixInv'
    <3>1. PICK rest \in Seq(Buffers) : NonEmpty(accepted) = wire \o rest
      OBVIOUS
    <3>2. (wire \o rest) \o end = wire \o (rest \o end)
      <4>1. \A u \in Seq(Buffers) : (wire \o rest) \o u = wire \o (rest \o u)
        BY <2>5, <3>1, Assoc
      <4> QED
        BY <2>5, <4>1
    <3>3. rest \o end \in Seq(Buffers)
      BY <2>5
    <3> QED
      BY <2>2, <2>5, <3>1, <3>2, <3>3
  <2> QED
    BY <2>2, <2>7, <2>8, <2>9, <2>10
<1>10. ASSUME NEW p \in Procs, RegisterSendCheck(p) PROVE WireInv'
  BY <1>10 DEF RegisterSendCheck, AfterSend
<1>11. ASSUME NEW p \in Procs, RegisterSendClear(p) PROVE WireInv'
  BY <1>11 DEF RegisterSendClear, AccessCurrent
<1>12. ASSUME NEW p \in Procs, RegisterSendDrain(p) PROVE WireInv'
  <2>1. /\ NonEmpty(sendQueue) \in Seq(Buffers) /\ NonEmpty(sendQueue') = <<>>
        /\ wire \o NonEmpty(sendQueue) \o <<>> = wire \o NonEmpty(sendQueue)
    BY <1>12, NonEmptyType, NonEmptyNil DEF RegisterSendDrain
  <2>2. \A q \in Procs : ~OnTheWay(q)
    BY <1>12 DEF RegisterSendDrain, HolderInv, Sends
  <2>3. \A q \in Procs : q # p => pc'[q] = pc[q] /\ batch'[q] = batch[q]
    BY <1>12 DEF RegisterSendDrain
  <2>4. /\ OnTheWay(p)' <=> sendQueue # <<>>
        /\ pc'[p] # "queue" /\ batch'[p] = NonEmpty(sendQueue)
    BY <1>12 DEF RegisterSendDrain, AfterSend
  <2>5. UNCHANGED <<wire, accepted, sockOpen, failed>>
    BY <1>12 DEF RegisterSendDrain
  <2>6. QueuedOne' /\ PrefixInv'
    BY <2>3, <2>4, <2>5
  <2>7. ExactInv'
    BY <2>1, <2>2, <2>3, <2>4, <2>5, NonEmptyNil
  <2> QED
    BY <2>6, <2>7
<1>13. ASSUME NEW p \in Procs, Disconnect(p) PROVE WireInv'
  BY <1>13 DEF Disconnect
<1>14. ASSUME NEW p \in Procs, RegisterDisconnect(p) PROVE WireInv'
  BY <1>14 DEF RegisterDisconnect
<1>15. ASSUME NEW p \in Procs, ProcessDisconnect(p) PROVE WireInv'
  BY <1>15 DEF ProcessDisconnect
<1>16. ASSUME NEW p \in Procs, ReleaseTcpSession(p) PROVE WireInv'
  BY <1>16 DEF ReleaseTcpSession
<1>17. ASSUME NEW p \in Procs, ProcessDisconnectClear(p) PROVE WireInv'
  BY <1>17 DEF ProcessDisconnectClear, AccessCurrent, CloseInv
<1>18. ASSUME NEW p \in Procs, RegisterRecv(p) PROVE WireInv'
  <2>1. UNCHANGED <<wire, accepted, sendQueue, batch, sockOpen, failed>>
    BY <1>18 DEF RegisterRecv
  <2>2. \A q \in Procs : (pc'[q] = "queue" => pc[q] = "queue") /\ (OnTheWay(q)' <=> OnTheWay(q))
    BY <1>18 DEF RegisterRecv, StartInv
  <2> QED
    BY <2>1, <2>2
<1>19. ASSUME NEW p \in Procs, NEW w \in Writes, RegisterSendWrite(p, w) PROVE WireInv'
  <2>1. p # w /\ ~OnTheWay(w) /\ OnTheWay(p) /\ OnTheWay(w)' /\ ~OnTheWay(p)' /\ batch'[w] = batch[p]
    BY <1>19 DEF RegisterSendWrite, AfterSend
  <2>2. \A q \in Procs \ {p, w} : pc'[q] = pc[q] /\ batch'[q] = batch[q]
    BY <1>19 DEF RegisterSendWrite
  <2>3. UNCHANGED <<wire, accepted, sendQueue, sockOpen, failed>>
    BY <1>19 DEF RegisterSendWrite
  <2>4. pc'[p] # "queue" /\ pc'[w] # "queue"
    BY <1>19 DEF RegisterSendWrite, AfterSend
  <2>5. QueuedOne' /\ PrefixInv'
    BY <2>2, <2>3, <2>4
  <2>6. \A q \in Procs : OnTheWay(q)' => q = w
    BY <2>1, <2>2 DEF HolderInv, Sends
  <2>7. ExactInv'
    BY <2>1, <2>3, <2>6
  <2> QED
    BY <2>5, <2>7
<1>20. ASSUME NEW w \in Writes, WriteDone(w) PROVE WireInv'
  <2>1. ~failed /\ NonEmpty(accepted) = wire' \o NonEmpty(sendQueue)
    BY <1>20 DEF WriteDone, FailedInv, Sends
  <2>2. \A q \in Procs : ~OnTheWay(q)'
    BY <1>20 DEF WriteDone, HolderInv, Sends
  <2>3. QueuedOne'
    BY <1>20 DEF WriteDone
  <2>4. UNCHANGED <<accepted, sendQueue>> /\ NonEmpty(sendQueue) \in Seq(Buffers)
    BY <1>20, NonEmptyType DEF WriteDone
  <2> QED
    BY <2>1, <2>2, <2>3, <2>4
<1>21. ASSUME NEW w \in Writes, WriteRequeue(w) PROVE WireInv'
  BY <1>21 DEF WriteRequeue, DutyInv
<1>22. ASSUME NEW w \in Writes, ProcessSend(w) PROVE WireInv'
  BY <1>22 DEF ProcessSend
<1>23. ASSUME NEW w \in Writes, NEW n \in 0..Cardinality(Buffers), WriteError(w, n) PROVE WireInv'
  <2>1. QueuedOne' /\ UNCHANGED <<accepted, sendQueue, sockOpen>>
    BY <1>23 DEF WriteError
  <2>2. CASE ~sockOpen
    <3>1. wire' = wire
      BY <1>23, <2>2 DEF WriteError
    <3> QED
      BY <2>1, <2>2, <3>1
  <2>3. CASE sockOpen
    <3>1. ~failed /\ failed' /\ NonEmpty(accepted) = wire \o batch[w] \o NonEmpty(sendQueue)
      BY <1>23, <2>3 DEF WriteError, FailedInv, Sends
    <3> DEFINE out == SubSeq(batch[w], 1, n)
               left == SubSeq(batch[w], n + 1, Len(batch[w]))
    <3>2. batch[w] = out \o left /\ out \in Seq(Buffers) /\ left \in Seq(Buffers)
      <4>1. batch[w] \in Seq(Buffers) /\ n \in Nat /\ n <= Len(batch[w])
        BY <1>23 DEF WriteError
      <4> QED
        BY <4>1, Split
    <3>3. wire' = wire \o out
      BY <1>23 DEF WriteError
    <3> HIDE DEF out, left
    <3>4. NonEmpty(sendQueue) \in Seq(Buffers)
      BY NonEmptyType
    <3>5. /\ wire \o (out \o left) = (wire \o out) \o left
          /\ (wire \o out) \o left \o NonEmpty(sendQueue) = (wire \o out) \o (left \o NonEmpty(sendQueue))
      <4>1. wire \in Seq(Buffers) /\ wire \o out \in Seq(Buffers)
        BY <3>2
      <4>2. wire \o (out \o left) = (wire \o out) \o left
        BY <3>2, <4>1, Assoc
      <4> DEFINE before == wire \o out
                 behind == NonEmpty(sendQueue)
      <4> HIDE DEF before, behind
      <4>3. (before \o left) \o behind = before \o (left \o behind)
        <5>1. before \in Seq(Buffers) /\ behind \in Seq(Buffers)
          BY <3>4, <4>1 DEF before, behind
        <5>2. left \in Seq(Buffers)
          BY <3>2
        <5> HIDE DEF out, left, before, behind
        <5>3. \A t, u \in Seq(Buffers) : (before \o t) \o u = before \o (t \o u)
          BY <5>1, Assoc
        <5>4. \A u \in Seq(Buffers) : (before \o left) \o u = before \o (left \o u)
          BY <5>2, <5>3
        <5> QED
          BY <5>1, <5>4
      <4> QED
        BY <4>2, <4>3 DEF before, behind
    <3>6. left \o NonEmpty(sendQueue) \in Seq(Buffers)
      BY <3>2, <3>4
    <3>7. NonEmpty(accepted) = wire' \o (left \o NonEmpty(sendQueue))
      BY <3>1, <3>2, <3>3, <3>5
    <3> QED
      BY <2>1, <3>1, <3>6, <3>7
  <2> QED
    BY <2>2, <2>3
<1>24. CASE UNCHANGED vars
  BY <1>24 DEF vars
<1> QED
  BY <1>1, <1>2, <1>3, <1>4, <1>5, <1>6, <1>7, <1>8, <1>9, <1>10, <1>11, <1>12, <1>13, <1>14, <1>15, <1>16, <1>17, <1>18, <1>19, <1>20, <1>21, <1>22, <1>23, <1>24 DEF Next, ConnectStep, SendStep, DisconnectStep, WriteStep

\* A step keeps OnlyDisconnectRaces: an access that meets RegisterSend's clear()
\* is not of the activity that holds sendRegistered, so it is ProcessDisconnect's.
LEMMA RaceStep == SessionInv /\ [Next]_vars => OnlyDisconnectRaces'
<1> SUFFICES ASSUME SessionInv, [Next]_vars PROVE OnlyDisconnectRaces'
  OBVIOUS
<1>1. ASSUME NEW p \in Procs, Accesses(p), Races(p) PROVE ~connected
  <2>1. PICK q \in Procs \ {p} : Accesses(q) /\ ~(Locks(p) /\ Locks(q))
    BY <1>1 DEF Races
  <2>2. pc[p] = "pdClear" \/ pc[q] = "pdClear"
    BY <1>1, <2>1 DEF Accesses, SessionInv, HolderInv, Sends
  <2> QED
    BY <2>2 DEF SessionInv, CloseInv, Closes
<1>2. ASSUME NEW p \in Procs, Accesses(p), AccessCurrent(p), connected' = connected
      PROVE  OnlyDisconnectRaces'
  BY <1>1, <1>2 DEF AccessCurrent, SessionInv, OnlyDisconnectRaces
<1>3. \/ \E p \in Procs : Accesses(p) /\ AccessCurrent(p) /\ connected' = connected
      \/ crash' = crash /\ (crash = "no" \/ connected' = connected)
      \/ crash' \in {crash, "assert"} /\ connected' = connected
  <2> USE ProcsFacts DEF At, refVars, sendVars
  <2>1. ASSUME NEW p \in Procs, SendStep(p) PROVE <1>3!:
    BY <2>1 DEF SendStep, SendQueue, RegisterSendCheck, RegisterSendClear, RegisterSendDrain,
                RegisterSendWrite, Accesses
  <2>2. ASSUME NEW p \in Procs, DisconnectStep(p) PROVE <1>3!:
    BY <2>2 DEF DisconnectStep, Disconnect, RegisterDisconnect, ProcessDisconnect,
                ReleaseTcpSession, ProcessDisconnectClear, Accesses
  <2>3. ASSUME NEW w \in Writes, WriteStep(w) PROVE <1>3!:
    BY <2>3 DEF WriteStep, WriteDone, WriteRequeue, ProcessSend, WriteError, Accesses
  <2>4. ASSUME ConnectStep \/ RecvDone \/ RecvFails \/ UNCHANGED vars PROVE <1>3!:
    BY <2>4 DEF ConnectStep, RegisterConnect, ConnectDone, AddTcpSession, SetTcpSession,
                SetTimeSession, RecvDone, RecvFails, vars
  <2>5. ASSUME NEW p \in Procs, RegisterRecv(p) PROVE <1>3!:
    BY <2>5 DEF RegisterRecv
  <2>6. ASSUME NEW p \in Procs, NEW b \in Buffers, Send(p, b) PROVE <1>3!:
    BY <2>6 DEF Send
  <2> QED
    BY <2>1, <2>2, <2>3, <2>4, <2>5, <2>6 DEF Next
<1> QED
  BY <1>2, <1>3 DEF SessionInv, OnlyDisconnectRaces

-------------------------------------------------------------------------------
\* What holds of every state of the session.
LEMMA SessionInvariant == Spec => []SessionInv
<1>1. SessionInv /\ [Next]_vars => SessionInv'
  BY TypeStep, StartStep, CloseStep, HolderStep, DutyStep, FailedStep, MemoryStep, WireStep, RaceStep
     DEF SessionInv
<1> QED
  BY SessionInitInv, <1>1, PTL DEF Spec

\* The variables of the session keep their types (Session.h 90-98).
THEOREM TypeCorrect == Spec => []TypeOK
<1>1. SessionInv => TypeOK
  BY DEF SessionInv
<1> QED
  BY SessionInvariant, <1>1, PTL

\* The exchange of sendRegistered lets one activity into RegisterSend, so that
\* two async_writes are never outstanding (Session.cpp 39-44, 134-136, 210-214).
THEOREM OneWriteAtATime == Spec => []NoOverlappingWrites
<1>1. SessionInv => NoOverlappingWrites
  <2> SUFFICES ASSUME SessionInv PROVE NoOverlappingWrites
    OBVIOUS
  <2> DEFINE posted == {w \in Writes : pc[w] = "posted"}
  <2>1. \A v, w \in posted : v = w
    BY ProcsFacts DEF SessionInv, HolderInv, Sends
  <2>2. CASE posted = {}
    BY <2>2, FS_EmptySet DEF NoOverlappingWrites
  <2>3. CASE posted # {}
    <3>1. PICK w : posted = {w}
      BY <2>1, <2>3
    <3> HIDE DEF posted
    <3>2. Cardinality(posted) = 1
      BY <3>1, FS_Singleton
    <3> QED
      BY <3>2 DEF NoOverlappingWrites, posted
  <2> QED
    BY <2>2, <2>3
<1> QED
  BY SessionInvariant, <1>1, PTL

\* Until ProcessDisconnect clears _currentSendBuffers an outstanding write finds
\* its buffers there, on the open socket and on the closed one, and something keeps
\* the session that the handlers run on (Session.cpp 111-136, 150, 163, 195).
THEOREM WhatCallbacksUseIsThere == Spec => []NothingDangles
<1>1. SessionInv => BuffersOutliveWrite
  BY ProcsFacts DEF SessionInv, MemoryInv, BuffersOutliveWrite
<1>2. SessionInv => SessionOutlivesCallbacks
  BY ProcsFacts DEF SessionInv, StartInv, Connecting, SessionOutlivesCallbacks, CallbackRuns, ConnectRuns
<1> QED
  BY SessionInvariant, <1>1, <1>2, PTL DEF NothingDangles

\* Nothing meets RegisterSend's unlocked clear() while the session is connected:
\* neither a second RegisterSend nor the write handler (Session.cpp 111, 127,
\* 146-150, 195).
THEOREM ClearMeetsOnlyDisconnect == Spec => []OnlyDisconnectRaces
<1>1. SessionInv => OnlyDisconnectRaces
  BY DEF SessionInv
<1> QED
  BY SessionInvariant, <1>1, PTL

\* A buffer queued on a session that is connected and has not failed has an
\* activity that will take it (Session.cpp 33-45, 113-118, 210-214).
THEOREM QueueHasAnOwner == Spec => []NoBufferStranded
<1>1. SessionInv => NoBufferStranded
  BY DEF SessionInv, CloseInv, DutyInv, Holds, Sends, NoBufferStranded, OnDuty
<1> QED
  BY SessionInvariant, <1>1, PTL

\* What the socket has taken is a beginning of what Send queued, without the
\* empty buffers, whatever fails (Session.cpp 33-45, 113-154, 191-198).
THEOREM WireIsInOrder == Spec => []WireFollowsSends
<1>1. SessionInv => WireFollowsSends
  <2> SUFFICES ASSUME SessionInv PROVE WireFollowsSends
    OBVIOUS
  <2>1. PICK rest \in Seq(Buffers) : NonEmpty(accepted) = wire \o rest
    BY DEF SessionInv, WireInv, PrefixInv
  <2>2. wire \in Seq(Buffers)
    BY DEF SessionInv, TypeOK
  <2>3. Len(wire) <= Len(wire \o rest) /\ SubSeq(wire, 1, Len(wire)) = SubSeq(wire \o rest, 1, Len(wire))
    BY <2>1, <2>2
  <2> QED
    BY <2>1, <2>3 DEF WireFollowsSends, IsPrefix
<1> QED
  BY SessionInvariant, <1>1, PTL

\* The assertion of ReleaseTcpSession holds, and SessionManager has no session
\* that the Service does not know (Service.cpp 78, GameTcpSession.cpp 15, 38).
THEOREM RegistriesDoAgree == Spec => []RegistriesAgree
<1>1. SessionInv => RegistriesAgree
  BY DEF SessionInv, CloseInv, RegistriesAgree, ReleaseFindsSession, ManagedIsRegistered
<1> QED
  BY SessionInvariant, <1>1, PTL

===============================================================================
