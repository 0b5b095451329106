------------------------- MODULE MovementInterpolator -------------------------
(***************************************************************************)
(* A remote actor (RemoteActor.cpp) and its MovementInterpolator, on top   *)
(* of the clock: the I/O thread adds the snapshots of S_SYNC_ACTOR, which  *)
(* come as datagrams and may be lost, repeated or out of order; the main   *)
(* thread shows the actor between two snapshots, or ahead of the last.     *)
(*                                                                         *)
(* A snapshot is told by its timestamp, what is shown by the time it is    *)
(* shown for: the position follows from these by linear interpolation.     *)
(* Times of the clock are halved where they meet the client's.             *)
(***************************************************************************)
EXTENDS TimeManager, SequencesExt

CONSTANTS
    MinDelay,      \* MIN_INTERPOLATION_DELAY, in half units
    MaxDelay,      \* MAX_INTERPOLATION_DELAY, in half units
    FirstDelay,    \* the delay at first, in half units
    Limit,         \* _extrapolationLimit, in half units
    Window,        \* the half second that snapshots are kept
    MaxSnapshots   \* bound: the snapshots in the buffer

ASSUME InterpolatorAssumption ==
    /\ MinDelay \in Nat /\ MaxDelay \in Nat /\ FirstDelay \in Nat
    /\ MinDelay <= FirstDelay /\ FirstDelay <= MaxDelay
    /\ Limit \in Nat /\ Window \in Nat /\ MaxSnapshots \in Nat

VARIABLES
    arrived,    \* history: those that AddSnapshot has been given
    snapshots,  \* the timestamps in _snapshotBuffer
    delay,      \* _interpolationDelay, in half units
    current,    \* Process: currentTime, when it is to extrapolate
    showing,    \* Process is between Interpolate and Extrapolate
    shown       \* what is shown: [time, basis, epoch]

vars == <<clockVars, arrived, snapshots, delay, current, showing, shown>>

NotRead == [time |-> 0, epoch |-> 0]

\* The value of the estimate's two numbers, told by how often they were stored to.
Epoch == 2 * got - (IF storing = "server" THEN 2 ELSE IF storing = "local" THEN 1 ELSE 0)

-------------------------------------------------------------------------------
(* The I/O thread *)

\* The snapshots the server has sent, one in a unit of time.
Sent == {t + Skew : t \in 0..now}

\* The first of these places in the buffer, or its end.
FirstOf(places) ==
    IF places = {} THEN Len(snapshots) + 1 ELSE CHOOSE i \in places : \A k \in places : i <= k

UpperBound(s) == FirstOf({i \in 1..Len(snapshots) : snapshots[i] > s})

\* Mutant of Inserted: the snapshot goes to the end.
InsertedLast(s) == Append(snapshots, s)

\* upper_bound and insert.
Inserted(s) == InsertAt(snapshots, UpperBound(s), s)

\* AddSnapshot, under the lock: what is older than the new one by more than the
\* window goes.
AddSnapshot(s) ==
    /\ Len(snapshots) < MaxSnapshots
    /\ arrived' = arrived \union {s}
    /\ snapshots' =
         LET keep == {i \in 1..Len(Inserted(s)) : Inserted(s)[i] >= s - Window}
         IN  SubSeq(Inserted(s), CHOOSE i \in keep : \A k \in keep : i <= k, Len(Inserted(s)))
    /\ UNCHANGED <<clockVars, delay, current, showing, shown>>

\* Mutant of Delays: the delay is not clamped.
DelaysUnclamped == MinDelay..(MaxDelay + Limit)

\* What clamp leaves of the average round trip and the jitter.
Delays == MinDelay..MaxDelay

\* Handle_S_SYNC_TIME: after OnServerTimeReceived the delay is set anew.
SetBasedOnServerTime ==
    /\ StoreBaseLocal
    /\ delay' \in Delays
    /\ UNCHANGED <<arrived, snapshots, current, showing, shown>>

-------------------------------------------------------------------------------
(* The main thread: RemoteActor::Render *)

\* The first snapshot that is not before time t, in half units.
LowerBound(t) == FirstOf({i \in 1..Len(snapshots) : 2 * snapshots[i] >= t})

\* Process reads the clock and tries to interpolate.
Interpolate ==
    LET t == ClientTime - delay
        i == LowerBound(t)
    IN  /\ ~showing
        /\ IF Len(snapshots) >= 2 /\ i > 1 /\ i <= Len(snapshots)
           THEN /\ shown' = [time |-> t, basis |-> <<snapshots[i - 1], snapshots[i]>>, epoch |-> Epoch]
                /\ UNCHANGED <<current, showing>>
           ELSE /\ current' = [time |-> ClientTime, epoch |-> Epoch]
                /\ showing' = TRUE
                /\ UNCHANGED shown
        /\ UNCHANGED <<clockVars, arrived, snapshots, delay>>

Newest == snapshots[Len(snapshots)]

\* Extrapolate: from the last snapshot there is, unless it is too old.
Extrapolate ==
    /\ showing
    /\ showing' = FALSE /\ current' = NotRead
    /\ shown' = IF snapshots = << >> \/ current.time - 2 * Newest > Limit THEN shown
                ELSE [time |-> current.time, basis |-> <<Newest>>, epoch |-> current.epoch]
    /\ UNCHANGED <<clockVars, arrived, snapshots, delay>>

-------------------------------------------------------------------------------
Init ==
    /\ ClockInit
    /\ arrived = {} /\ snapshots = << >>
    /\ delay = FirstDelay
    /\ current = NotRead /\ showing = FALSE
    /\ shown = [time |-> 0, basis |-> << >>, epoch |-> 0]

Next ==
    \/ /\ TimeGoesOn \/ SendTimeSync \/ NoteTimeSyncSent \/ ServerReply
          \/ OnServerTimeReceived \/ StoreBaseServer
       /\ UNCHANGED <<arrived, snapshots, delay, current, showing, shown>>
    \/ SetBasedOnServerTime
    \/ \E s \in Sent : AddSnapshot(s)
    \/ Interpolate \/ Extrapolate

Spec == Init /\ [][Next]_vars

-------------------------------------------------------------------------------
(* Properties *)

\* What is interpolated lies between its two snapshots, one strictly before, and no
\* snapshot of the last half second that has arrived in between is passed over,
\* however late or often it came (MovementInterpolator.cpp 25-70).
ShownBetweenNeighbours ==
    [][ Len(shown'.basis) = 2 /\ shown' # shown =>
          LET prev == shown'.basis[1]
              next == shown'.basis[2]
          IN  /\ 2 * prev < shown'.time /\ shown'.time <= 2 * next
              /\ \A s \in arrived : prev < s /\ s < next => \E u \in arrived : s < u - Window ]_vars

\* As long as the estimate of the clock stays the same, what is shown never goes
\* back in time by more than the largest delay: that much it goes back when the
\* actor is interpolated again after it was shown ahead of its last snapshot
\* (MovementInterpolator.cpp 11-23, 45-86).
BackstepBounded ==
    [][ shown'.epoch = shown.epoch /\ Len(shown.basis) > 0 =>
          shown'.time >= shown.time - MaxDelay ]_vars

===============================================================================
