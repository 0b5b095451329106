----------------------------- MODULE TimeManager -----------------------------
(***************************************************************************)
(* The client's estimate of the server's clock (TimeManager.cpp).  The     *)
(* main thread asks for the server's time over TCP and notes when, the I/O *)
(* thread bases the estimate on the answer.  The two numbers of the        *)
(* estimate are stored without a lock and are read as they stand.          *)
(*                                                                         *)
(* Time is counted in whole units; the server's clock and the local one    *)
(* differ by Skew and run alike.  Since half a round trip goes into the    *)
(* estimate, it is kept in half units.  Requests and answers are numbered: *)
(* TCP keeps them in order.  Frame counts, time scale, average round trip  *)
(* and jitter are left out.                                                *)
(***************************************************************************)
EXTENDS Integers

CONSTANTS
    Skew,          \* the server's clock minus the local one
    Tick,          \* LOGIC_TICK_INTERVAL
    SyncInterval,  \* SYNC_TIME_INTERVAL
    FirstSync,     \* when the first request is due
    MaxSyncs,      \* bound: requests
    LastTime       \* bound: the time that is followed

ASSUME TimeAssumption ==
    /\ Skew \in Int /\ Tick \in Nat /\ SyncInterval \in Nat /\ FirstSync \in Nat
    /\ MaxSyncs \in Nat /\ LastTime \in Nat

Requests == 1..MaxSyncs

VARIABLES
    now,         \* GetRawLocalTime()
    due,         \* when _sumTime reaches SYNC_TIME_INTERVAL
    stamping,    \* Update is between Send and the note of the time
    lastSent,    \* _lastTimeSyncSent
    asked,       \* how many requests have been sent
    replied,     \* how many the server has answered
    replyTime,   \* replyTime[k]: the server's time in answer k
    got,         \* how many answers OnServerTimeReceived has been given
    storing,     \* what it still has to store: "none", "server", "local"
    latestRtt,   \* _latestRtt
    nowRead,     \* its local now
    baseServer,  \* _baseServerTime, in half units
    baseLocal,   \* _baseLocalTime
    late         \* history: the time noted was later than the server's answer

clockVars == <<now, due, stamping, lastSent, asked, replied, replyTime,
               got, storing, latestRtt, nowRead, baseServer, baseLocal, late>>

ClockTypeOK ==
    /\ now \in Nat /\ due \in Nat
    /\ stamping \in BOOLEAN
    /\ lastSent \in Nat
    /\ asked \in 0..MaxSyncs
    /\ replied \in 0..MaxSyncs /\ got \in 0..MaxSyncs
    /\ replyTime \in [Requests -> Int]
    /\ storing \in {"none", "server", "local"}
    /\ latestRtt \in Int /\ nowRead \in Nat
    /\ baseServer \in Int /\ baseLocal \in Nat
    /\ late \in BOOLEAN

ServerTime == now + Skew

\* GetClientTime, in half units.
ClientTime == baseServer + 2 * (now - baseLocal)

-------------------------------------------------------------------------------
\* Time goes on; the main thread does not stay away for long.
TimeGoesOn ==
    /\ now < LastTime
    /\ now' = now + 1
    /\ UNCHANGED <<due, stamping, lastSent, asked, replied, replyTime,
                   got, storing, latestRtt, nowRead, baseServer, baseLocal, late>>

\* TimeManager::Update sends a request once the interval is over.
SendTimeSync ==
    /\ ~stamping
    /\ now >= due
    /\ asked < MaxSyncs
    /\ asked' = asked + 1
    /\ stamping' = TRUE
    /\ UNCHANGED <<now, due, lastSent, replied, replyTime, got, storing,
                   latestRtt, nowRead, baseServer, baseLocal, late>>

\* It notes the time after the request has gone.
NoteTimeSyncSent ==
    /\ stamping
    /\ lastSent' = now
    /\ due' = now + SyncInterval
    /\ stamping' = FALSE
    /\ UNCHANGED <<now, asked, replied, replyTime, got, storing, latestRtt, nowRead,
                   baseServer, baseLocal, late>>

\* The server answers with its time.
ServerReply ==
    /\ replied < asked
    /\ replied' = replied + 1
    /\ replyTime' = [replyTime EXCEPT ![replied + 1] = ServerTime]
    /\ UNCHANGED <<now, due, stamping, lastSent, asked, got, storing,
                   latestRtt, nowRead, baseServer, baseLocal, late>>

\* OnServerTimeReceived reads the clock and computes the round trip.
OnServerTimeReceived ==
    /\ storing = "none"
    /\ got < replied
    /\ got' = got + 1
    /\ nowRead' = now
    /\ latestRtt' = now - lastSent
    /\ late' = (replyTime[got + 1] - Skew < lastSent)
    /\ storing' = "server"
    /\ UNCHANGED <<now, due, stamping, lastSent, asked, replied, replyTime,
                   baseServer, baseLocal>>

\* Mutant of BaseServerTime: half the round trip is added.
BaseServerTimeAhead == 2 * replyTime[got] + latestRtt - 2 * Tick

BaseServerTime == 2 * replyTime[got] - latestRtt - 2 * Tick

\* The stores to _baseServerTime and to _baseLocalTime.
StoreBaseServer ==
    /\ storing = "server"
    /\ baseServer' = BaseServerTime
    /\ storing' = "local"
    /\ UNCHANGED <<now, due, stamping, lastSent, asked, replied, replyTime,
                   got, latestRtt, nowRead, baseLocal, late>>

StoreBaseLocal ==
    /\ storing = "local"
    /\ baseLocal' = nowRead
    /\ storing' = "none"
    /\ UNCHANGED <<now, due, stamping, lastSent, asked, replied, replyTime,
                   got, latestRtt, nowRead, baseServer, late>>

-------------------------------------------------------------------------------
ClockInit ==
    /\ now = 0 /\ due = FirstSync /\ stamping = FALSE
    /\ lastSent = 0
    /\ asked = 0 /\ replied = 0 /\ got = 0
    /\ replyTime = [k \in Requests |-> 0]
    /\ storing = "none" /\ latestRtt = 0 /\ nowRead = 0
    /\ baseServer = 0 /\ baseLocal = 0
    /\ late = FALSE

ClockStep ==
    \/ TimeGoesOn \/ SendTimeSync \/ NoteTimeSyncSent \/ ServerReply
    \/ OnServerTimeReceived \/ StoreBaseServer \/ StoreBaseLocal

ClockSpec == ClockInit /\ [][ClockStep]_clockVars

-------------------------------------------------------------------------------
(* Properties *)

\* How far the estimate is behind the server's clock, in half units.
Lag == 2 * ServerTime - ClientTime

\* Once the first answer is in, the estimate is behind the server's clock by a
\* tick and half the measured round trip at least, whichever request the round
\* trip was measured from.  It is behind by a tick and one and a half round trips
\* at most, unless the time of a request was noted after the server's answer:
\* that of a later request, or of this one (TimeManager.cpp 33-45, 58-73).
ClockLagsBehind ==
    got > 0 /\ storing = "none" =>
        /\ Lag >= 2 * Tick + latestRtt
        /\ ~late => Lag <= 2 * Tick + 3 * latestRtt

===============================================================================
