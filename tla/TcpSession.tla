------------------------------ MODULE TcpSession ------------------------------
(***************************************************************************)
(* The life of the client's TcpSession (Session.cpp, Service.cpp,          *)
(* GameTcpSession.cpp): connect, the send queue with its one outstanding   *)
(* async_write, the receive loop and the disconnect, run by the four       *)
(* threads of Service::Start and by the game threads that call Send.       *)
(*                                                                         *)
(* A process is an activity: the connect handler, the chain of receive     *)
(* handlers, a write with its completion handler, or a caller of Send.     *)
(* An action is one access to state that activities share; a region under  *)
(* WRITE_LOCK is one action, except ProcessSend's, which calls             *)
(* RegisterSend with the lock held (the variable lock).                    *)
(***************************************************************************)
EXTENDS Integers, Sequences, FiniteSets, SequencesExt

CONSTANTS
    Senders,  \* game threads that call Send
    Writes,   \* bound: async_write operations that exist at one time
    Buffers,  \* the SendBuffers, each sent once
    Empty,    \* those with WriteSize() = 0
    Login,    \* the C_LOGIN buffer that OnConnected sends
    Nobody    \* nobody holds the lock

Connector == "connector"
Receiver == "receiver"
Procs == Senders \union Writes \union {Connector, Receiver}

ASSUME BuffersAssumption ==
    /\ Empty \subseteq Buffers
    /\ Login \in Buffers \ Empty
    /\ Nobody \notin Procs
    /\ IsFiniteSet(Writes)

\* Callers of Send, writes and the two handlers are activities apart.
ASSUME ActivitiesAssumption ==
    /\ Senders \intersect Writes = {}
    /\ {Connector, Receiver} \intersect (Senders \union Writes) = {}

VARIABLES
    connected,       \* _connected
    sockOpen,        \* _socket.is_open()
    service,         \* the session is in Service::_tcpSessions
    manager,         \* SessionManager::_tcpSession is the session
    timeRef,         \* TimeManager::_session is the session
    sendQueue,       \* _sendQueue
    sendRegistered,  \* _sendRegistered
    current,         \* _currentSendBuffers
    lock,            \* who is inside ProcessSend's WRITE_LOCK
    pc,              \* where each activity is
    batch,           \* batch[p]: RegisterSend's sendBuffers, then the write's
    fresh,           \* buffers nobody has sent yet
    accepted,        \* what Send has queued, in the order of the lock
    wire,            \* what the socket has taken
    failed,          \* an async_write on the open socket has failed
    crash            \* "no", or what ended the process

sendVars == <<sendQueue, sendRegistered, current, lock, accepted>>
refVars == <<service, manager, timeRef>>
vars == <<connected, sockOpen, refVars, sendVars, pc, batch, fresh, wire, failed,
          crash>>

PcValues == {"start", "idle", "connecting", "add", "setManager", "setTime", "login",
             "queue", "check", "clear", "drain", "write", "posted",
             "psend", "requeue", "regRecv", "parse", "disc", "close", "pd",
             "release", "pdClear"}

TypeOK ==
    /\ connected \in BOOLEAN /\ sockOpen \in BOOLEAN
    /\ service \in BOOLEAN /\ manager \in BOOLEAN /\ timeRef \in BOOLEAN
    /\ sendQueue \in Seq(Buffers) /\ current \in Seq(Buffers)
    /\ sendRegistered \in BOOLEAN
    /\ lock \in Procs \union {Nobody}
    /\ pc \in [Procs -> PcValues]
    /\ batch \in [Procs -> Seq(Buffers)]
    /\ fresh \in SUBSET Buffers
    /\ accepted \in Seq(Buffers) /\ wire \in Seq(Buffers)
    /\ failed \in BOOLEAN
    /\ crash \in {"no", "assert", "race"}

At(p, l) == crash = "no" /\ pc[p] = l
Goto(p, l) == pc' = [pc EXCEPT ![p] = l]

\* p may enter a region under WRITE_LOCK (the lock is reentrant).
MayLock(p) == lock \in {p, Nobody}
Unlock(p) == lock' = IF lock = p THEN Nobody ELSE lock

\* What p goes on with when Send returns.
AfterSend(p) ==
    IF p = Connector THEN "regRecv" ELSE IF p = Receiver THEN "parse" ELSE "idle"

-------------------------------------------------------------------------------
(* Connect *)

\* RegisterConnect: the early return for port 0 leaves an open socket.
RegisterConnect ==
    /\ At(Connector, "start")
    /\ sockOpen' = TRUE
    /\ \E l \in {"connecting", "idle"} : Goto(Connector, l)
    /\ UNCHANGED <<connected, refVars, sendVars, batch, fresh, wire, failed, crash>>

\* The handler of async_connect: ProcessConnect stores _connected, or the error
\* is only printed.
ConnectDone ==
    /\ At(Connector, "connecting")
    /\ \/ connected' = TRUE /\ Goto(Connector, "add")
       \/ connected' = connected /\ Goto(Connector, "idle")
    /\ UNCHANGED <<sockOpen, refVars, sendVars, batch, fresh, wire, failed, crash>>

AddTcpSession ==
    /\ At(Connector, "add")
    /\ service' = TRUE
    /\ Goto(Connector, "setManager")
    /\ UNCHANGED <<connected, sockOpen, manager, timeRef, sendVars, batch, fresh,
                   wire, failed, crash>>

\* GameTcpSession::OnConnected.
SetTcpSession ==
    /\ At(Connector, "setManager")
    /\ manager' = TRUE
    /\ Goto(Connector, "setTime")
    /\ UNCHANGED <<connected, sockOpen, service, timeRef, sendVars, batch, fresh,
                   wire, failed, crash>>

SetTimeSession ==
    /\ At(Connector, "setTime")
    /\ timeRef' = TRUE
    /\ Goto(Connector, "login")
    /\ UNCHANGED <<connected, sockOpen, service, manager, sendVars, batch, fresh,
                   wire, failed, crash>>

-------------------------------------------------------------------------------
(* Send *)

\* p may call Send(b): the end of OnConnected, a packet handler, a game thread
\* with the session of SessionManager or TimeManager.
MayCall(p, b) ==
    \/ p = Connector /\ At(p, "login") /\ b = Login
    \/ p = Receiver /\ At(p, "parse") /\ b # Login
    \/ p \in Senders /\ At(p, "idle") /\ (manager \/ timeRef) /\ b # Login

\* The test of IsConnected; the buffer is dropped when it fails.
Send(p, b) ==
    /\ b \in fresh
    /\ MayCall(p, b)
    /\ fresh' = fresh \ {b}
    /\ IF connected
       THEN Goto(p, "queue") /\ batch' = [batch EXCEPT ![p] = <<b>>]
       ELSE Goto(p, AfterSend(p)) /\ UNCHANGED batch
    /\ UNCHANGED <<connected, sockOpen, refVars, sendVars, wire, failed, crash>>

\* Mutant of SendQueue: the result of the exchange is not tested.
SendQueueAlwaysRegisters(p) ==
    /\ At(p, "queue")
    /\ MayLock(p)
    /\ sendQueue' = sendQueue \o batch[p]
    /\ accepted' = accepted \o batch[p]
    /\ batch' = [batch EXCEPT ![p] = <<>>]
    /\ sendRegistered' = TRUE
    /\ Goto(p, "check")
    /\ UNCHANGED <<connected, sockOpen, refVars, current, lock, fresh, wire, failed,
                   crash>>

\* The region under WRITE_LOCK: push and exchange(true).
SendQueue(p) ==
    /\ At(p, "queue")
    /\ MayLock(p)
    /\ sendQueue' = sendQueue \o batch[p]
    /\ accepted' = accepted \o batch[p]
    /\ batch' = [batch EXCEPT ![p] = <<>>]
    /\ sendRegistered' = TRUE
    /\ Goto(p, IF sendRegistered THEN AfterSend(p) ELSE "check")
    /\ UNCHANGED <<connected, sockOpen, refVars, current, lock, fresh, wire, failed,
                   crash>>

\* RegisterSend's early return.
RegisterSendCheck(p) ==
    /\ At(p, "check")
    /\ IF connected /\ sockOpen
       THEN Goto(p, "clear") /\ UNCHANGED lock
       ELSE Goto(p, AfterSend(p)) /\ Unlock(p)
    /\ UNCHANGED <<connected, sockOpen, refVars, sendQueue, sendRegistered, current,
                   accepted, batch, fresh, wire, failed, crash>>

\* What the loop of RegisterSend takes of the queue: the buffers with bytes in them.
NonEmpty(queue) ==
    LET kept[n \in 0..Len(queue)] ==
            IF n = 0 THEN <<>>
            ELSE IF queue[n] \in Empty THEN kept[n - 1] ELSE Append(kept[n - 1], queue[n])
    IN  kept[Len(queue)]

\* About to access _currentSendBuffers: to clear it, fill it or requeue it.
Accesses(p) == pc[p] \in {"clear", "drain", "requeue", "pdClear"}
Modifies(p) == current # <<>> \/ (pc[p] = "drain" /\ NonEmpty(sendQueue) # <<>>)

\* All of them lock, but RegisterSend's clear() only when ProcessSend has.
Locks(p) == pc[p] # "clear" \/ lock = p

\* Two unordered accesses are a data race: both work, or the process dies of a
\* buffer released twice.
Races(p) ==
    \E q \in Procs \ {p} :
        Accesses(q) /\ (Modifies(p) \/ Modifies(q)) /\ ~(Locks(p) /\ Locks(q))
AccessCurrent(p) ==
    \/ crash' = crash
    \/ Races(p) /\ crash' = "race"

\* _currentSendBuffers.clear(), outside the lock unless ProcessSend holds it.
RegisterSendClear(p) ==
    /\ At(p, "clear")
    /\ current' = <<>>
    /\ AccessCurrent(p)
    /\ Goto(p, "drain")
    /\ UNCHANGED <<connected, sockOpen, refVars, sendQueue, sendRegistered, lock,
                   accepted, batch, fresh, wire, failed>>

\* Mutant of RegisterSendDrain: nothing keeps the buffers alive.
RegisterSendDrainUnowned(p) ==
    /\ At(p, "drain")
    /\ MayLock(p)
    /\ batch' = [batch EXCEPT ![p] = NonEmpty(sendQueue)]
    /\ sendQueue' = <<>>
    /\ IF sendQueue = <<>>
       THEN Goto(p, AfterSend(p)) /\ Unlock(p)
       ELSE Goto(p, "write") /\ UNCHANGED lock
    /\ UNCHANGED <<connected, sockOpen, refVars, sendRegistered, current, accepted,
                   fresh, wire, failed, crash>>

\* The region under WRITE_LOCK: every queued buffer that is not empty.
RegisterSendDrain(p) ==
    /\ At(p, "drain")
    /\ MayLock(p)
    /\ batch' = [batch EXCEPT ![p] = NonEmpty(sendQueue)]
    /\ current' = current \o NonEmpty(sendQueue)
    /\ sendQueue' = <<>>
    /\ AccessCurrent(p)
    /\ IF sendQueue = <<>>
       THEN Goto(p, AfterSend(p)) /\ Unlock(p)
       ELSE Goto(p, "write") /\ UNCHANGED lock
    /\ UNCHANGED <<connected, sockOpen, refVars, sendRegistered, accepted, fresh,
                   wire, failed>>

\* async_write of the batch.
RegisterSendWrite(p, w) ==
    /\ At(p, "write")
    /\ At(w, "idle")
    /\ pc' = [pc EXCEPT ![p] = AfterSend(p), ![w] = "posted"]
    /\ batch' = [batch EXCEPT ![p] = <<>>, ![w] = batch[p]]
    /\ Unlock(p)
    /\ UNCHANGED <<connected, sockOpen, refVars, sendQueue, sendRegistered, current,
                   accepted, fresh, wire, failed, crash>>

\* The write ends well; with 0 bytes ProcessSend disconnects.
WriteDone(w) ==
    /\ At(w, "posted")
    /\ sockOpen
    /\ wire' = wire \o batch[w]
    /\ batch' = [batch EXCEPT ![w] = <<>>]
    /\ Goto(w, IF batch[w] = <<>> THEN "disc" ELSE "psend")
    /\ UNCHANGED <<connected, sockOpen, refVars, sendVars, fresh, failed, crash>>

\* The write fails, the first n buffers having gone out.
WriteError(w, n) ==
    /\ At(w, "posted")
    /\ n <= Len(batch[w])
    /\ ~sockOpen => n = 0
    /\ wire' = wire \o SubSeq(batch[w], 1, n)
    /\ batch' = [batch EXCEPT ![w] = <<>>]
    /\ failed' = (failed \/ sockOpen)
    /\ Goto(w, "requeue")
    /\ UNCHANGED <<connected, sockOpen, refVars, sendVars, fresh, crash>>

\* Mutant of WriteRequeue: the registration ends, so the next Send sends the
\* buffers again.
WriteRequeueRetries(w) ==
    /\ At(w, "requeue")
    /\ MayLock(w)
    /\ sendQueue' = sendQueue \o current
    /\ current' = <<>>
    /\ sendRegistered' = FALSE
    /\ Goto(w, "idle")
    /\ UNCHANGED <<connected, sockOpen, refVars, lock, accepted, batch, fresh, wire,
                   failed, crash>>

\* The handler's "retry send": _currentSendBuffers go to the back of the queue.
WriteRequeue(w) ==
    /\ At(w, "requeue")
    /\ MayLock(w)
    /\ sendQueue' = sendQueue \o current
    /\ current' = <<>>
    /\ AccessCurrent(w)
    /\ Goto(w, "idle")
    /\ UNCHANGED <<connected, sockOpen, refVars, sendRegistered, lock, accepted,
                   batch, fresh, wire, failed>>

\* Mutants of ProcessSend: the registration ends whatever is queued,
ProcessSendForgets(w) ==
    /\ At(w, "psend")
    /\ lock = Nobody
    /\ sendRegistered' = FALSE
    /\ Goto(w, "idle")
    /\ UNCHANGED <<connected, sockOpen, refVars, sendQueue, current, lock, accepted,
                   batch, fresh, wire, failed, crash>>

\* and never ends.
ProcessSendKeeps(w) ==
    /\ At(w, "psend")
    /\ lock = Nobody
    /\ IF sendQueue = <<>>
       THEN Goto(w, "idle") /\ UNCHANGED lock
       ELSE lock' = w /\ Goto(w, "check")
    /\ UNCHANGED <<connected, sockOpen, refVars, sendQueue, sendRegistered, current,
                   accepted, batch, fresh, wire, failed, crash>>

\* ProcessSend after OnSend: an empty queue ends the registration.
ProcessSend(w) ==
    /\ At(w, "psend")
    /\ lock = Nobody
    /\ IF sendQueue = <<>>
       THEN sendRegistered' = FALSE /\ Goto(w, "idle") /\ UNCHANGED lock
       ELSE lock' = w /\ Goto(w, "check") /\ UNCHANGED sendRegistered
    /\ UNCHANGED <<connected, sockOpen, refVars, sendQueue, current, accepted, batch,
                   fresh, wire, failed, crash>>

-------------------------------------------------------------------------------
(* Receive and disconnect *)

\* The connect handler arms the first receive, ProcessRecv the next one.
RegisterRecv(p) ==
    /\ \/ p = Connector /\ At(p, "regRecv")
       \/ p = Receiver /\ At(p, "parse")
    /\ pc' = [pc EXCEPT ![p] = "idle",
                        ![Receiver] = IF connected /\ sockOpen THEN "posted" ELSE "idle"]
    /\ UNCHANGED <<connected, sockOpen, refVars, sendVars, batch, fresh, wire, failed,
                   crash>>

\* The receive handler: data is parsed (OnRecv may call Send); an error, 0 bytes
\* and the overflows that end ProcessRecv disconnect.
RecvDone ==
    /\ At(Receiver, "posted")
    /\ sockOpen
    /\ Goto(Receiver, "parse")
    /\ UNCHANGED <<connected, sockOpen, refVars, sendVars, batch, fresh, wire, failed,
                   crash>>

RecvFails ==
    /\ At(Receiver, "posted") \/ At(Receiver, "parse")
    /\ Goto(Receiver, "disc")
    /\ UNCHANGED <<connected, sockOpen, refVars, sendVars, batch, fresh, wire, failed,
                   crash>>

\* Disconnect: only the caller that finds _connected set goes on.
Disconnect(p) ==
    /\ At(p, "disc")
    /\ connected' = FALSE
    /\ Goto(p, IF connected THEN "close" ELSE "idle")
    /\ UNCHANGED <<sockOpen, refVars, sendVars, batch, fresh, wire, failed, crash>>

\* RegisterDisconnect: cancel and close; when close reports an error the rest of
\* the disconnect is skipped.
RegisterDisconnect(p) ==
    /\ At(p, "close")
    /\ sockOpen' = FALSE
    /\ \/ sockOpen /\ Goto(p, "pd")
       \/ Goto(p, "idle")
    /\ UNCHANGED <<connected, refVars, sendVars, batch, fresh, wire, failed, crash>>

\* Mutant of ProcessDisconnect: SessionManager keeps the session.
ProcessDisconnectKeeps(p) ==
    /\ At(p, "pd")
    /\ connected' = FALSE
    /\ Goto(p, "release")
    /\ UNCHANGED <<sockOpen, refVars, sendVars, batch, fresh, wire, failed, crash>>

\* ProcessDisconnect: store(false) and OnDisconnected.
ProcessDisconnect(p) ==
    /\ At(p, "pd")
    /\ connected' = FALSE
    /\ manager' = FALSE
    /\ Goto(p, "release")
    /\ UNCHANGED <<sockOpen, service, timeRef, sendVars, batch, fresh, wire, failed,
                   crash>>

\* Service::ReleaseTcpSession, with its ASSERT_CRASH.
ReleaseTcpSession(p) ==
    /\ At(p, "release")
    /\ service' = FALSE
    /\ crash' = IF service THEN crash ELSE "assert"
    /\ Goto(p, "pdClear")
    /\ UNCHANGED <<connected, sockOpen, manager, timeRef, sendVars, batch, fresh,
                   wire, failed>>

\* The region under WRITE_LOCK that ends ProcessDisconnect.
ProcessDisconnectClear(p) ==
    /\ At(p, "pdClear")
    /\ MayLock(p)
    /\ sendQueue' = <<>>
    /\ current' = <<>>
    /\ sendRegistered' = FALSE
    /\ AccessCurrent(p)
    /\ Goto(p, "idle")
    /\ UNCHANGED <<connected, sockOpen, refVars, lock, accepted, batch, fresh, wire,
                   failed>>

-------------------------------------------------------------------------------
Init ==
    /\ connected = FALSE /\ sockOpen = FALSE
    /\ service = FALSE /\ manager = FALSE /\ timeRef = FALSE
    /\ sendQueue = <<>> /\ sendRegistered = FALSE /\ current = <<>>
    /\ lock = Nobody
    /\ pc = [p \in Procs |-> IF p = Connector THEN "start" ELSE "idle"]
    /\ batch = [p \in Procs |-> <<>>]
    /\ fresh = Buffers
    /\ accepted = <<>> /\ wire = <<>>
    /\ failed = FALSE /\ crash = "no"

\* What p does on the way through Send and RegisterSend.
SendStep(p) ==
    \/ SendQueue(p)
    \/ RegisterSendCheck(p) \/ RegisterSendClear(p) \/ RegisterSendDrain(p)
    \/ \E w \in Writes : RegisterSendWrite(p, w)

DisconnectStep(p) ==
    \/ Disconnect(p) \/ RegisterDisconnect(p)
    \/ ProcessDisconnect(p) \/ ReleaseTcpSession(p) \/ ProcessDisconnectClear(p)

ConnectStep ==
    RegisterConnect \/ ConnectDone \/ AddTcpSession \/ SetTcpSession \/ SetTimeSession

WriteStep(w) ==
    \/ WriteDone(w) \/ WriteRequeue(w) \/ ProcessSend(w)
    \/ \E n \in 0..Cardinality(Buffers) : WriteError(w, n)

Next ==
    \/ ConnectStep
    \/ \E p \in Procs, b \in Buffers : Send(p, b)
    \/ \E p \in Procs : SendStep(p) \/ DisconnectStep(p) \/ RegisterRecv(p)
    \/ \E w \in Writes : WriteStep(w)
    \/ RecvDone \/ RecvFails

Spec == Init /\ [][Next]_vars

\* asio completes every operation, and a thread that runs a handler or Send goes
\* on; nothing makes a packet arrive or a thread call Send.
FairSpec ==
    /\ Spec
    /\ WF_vars(ConnectStep)
    /\ \A p \in Procs : WF_vars(SendStep(p)) /\ WF_vars(DisconnectStep(p))
    /\ WF_vars(Send(Connector, Login))
    /\ \A p \in {Connector, Receiver} : WF_vars(RegisterRecv(p))
    /\ \A w \in Writes : WF_vars(WriteStep(w))

-------------------------------------------------------------------------------
(* Properties *)

\* The socket has at most one async_write at a time, as boost.asio demands:
\* sendRegistered admits one thread to RegisterSend, on either way into it
\* (Session.cpp 39-44, 210-214).
NoOverlappingWrites == Cardinality({w \in Writes : pc[w] = "posted"}) <= 1

\* ProcessDisconnect has run to its end (or the session was never registered).
Cleared == ~service /\ \A p \in Procs : pc[p] # "pdClear"

\* The memory an async_write reads from is owned by _currentSendBuffers until
\* its handler runs, through the disconnect too, up to the clear() that ends
\* ProcessDisconnect: no clear() and no other RegisterSend releases it (Session.cpp
\* 111, 127-128, 150).  That last clear() does, with the aborted write's handler
\* still to come (line 195): from then on nobody owns the buffers of the write.
BuffersOutliveWrite ==
    \A w \in Writes : pc[w] = "posted" => current = batch[w] \/ Cleared

\* RegisterSend clears _currentSendBuffers without the lock (line 111).  While
\* the session is connected no other access meets that clear(): sendRegistered
\* keeps RegisterSend and the write handler apart.  Only ProcessDisconnect,
\* which nothing keeps apart from them (line 195), races with it.
OnlyDisconnectRaces == crash = "race" => ~connected

\* What goes out is what Send queued, in that order, nothing left out in between
\* and nothing twice, through partial writes, failures and disconnects.
WireFollowsSends == IsPrefix(wire, NonEmpty(accepted))

\* A buffer in the queue of a connected session whose writes have not failed has
\* somebody who will send it: a thread in RegisterSend, a write, or its handler.
OnDuty(p) == pc[p] \in {"check", "clear", "drain", "write", "psend"}
NoBufferStranded ==
    connected /\ ~failed /\ sendQueue # <<>> =>
        \/ \E p \in Procs : OnDuty(p)
        \/ \E w \in Writes : pc[w] = "posted"
        \/ \E p \in Procs : pc[p] = "disc"

\* The handlers of async_receive and async_write capture a bare this
\* (Session.cpp 136, 163); while one is outstanding or runs, some shared_ptr
\* keeps the session alive: the service's, the game's, or the connect handler's.
CallbackRuns ==
    pc[Receiver] # "idle" \/ \E w \in Writes : pc[w] # "idle"
ConnectRuns == pc[Connector] \notin {"start", "idle"}
SessionOutlivesCallbacks ==
    CallbackRuns => service \/ manager \/ timeRef \/ ConnectRuns

\* Both together: up to the clear() of ProcessDisconnect an outstanding write has
\* its buffers, and every handler its session.
NothingDangles == BuffersOutliveWrite /\ SessionOutlivesCallbacks

\* ReleaseTcpSession's ASSERT_CRASH never fires: whoever gets past the exchange
\* of Disconnect finds the session registered (Service.cpp:78).
ReleaseFindsSession == crash # "assert"

\* SessionManager never offers a session that the Service has released or does
\* not know yet (GameTcpSession.cpp 15, 38).
ManagedIsRegistered == manager => service

\* Both together: the two registries agree on which session there is, in every
\* order of connect, failure and disconnect.
RegistriesAgree == ReleaseFindsSession /\ ManagedIsRegistered

\* What a Send of a connected session has queued reaches the socket, unless the
\* connection ends or a write fails.
AcceptedIsSent ==
    \A b \in Buffers \ Empty :
        b \in ToSet(accepted) ~>
            b \in ToSet(wire) \/ ~connected \/ failed \/ crash # "no"

\* What the comment in the write handler says of a failed write: retry send
\* (Session.cpp:143).
FailedSendIsRetried ==
    failed /\ sendQueue # <<>> ~>
        (\E w \in Writes : pc[w] = "posted") \/ ~connected \/ crash # "no"

===============================================================================
