----------------------------- MODULE Actors_proofs -----------------------------
(***************************************************************************)
(* What moves in the scene: the clock of TimeManager, the remote actors of *)
(* MovementInterpolator on top of it, and the player.                      *)
(*                                                                         *)
(* The estimate of the server's clock stays within the measured round trip *)
(* of it, for every skew, tick, interval and number of requests.  The      *)
(* property speaks of the moment at which the estimate has been stored;    *)
(* the invariant follows it there: an answer carries a time of the server  *)
(* that has passed, the round trip was measured from a time that had been  *)
(* noted, and the two stores put what was computed into the two numbers.   *)
(*                                                                         *)
(* What a remote actor is shown for lies between neighbouring snapshots,   *)
(* because the buffer is sorted and has lost only what the window allows.  *)
(* It does not go back in time by more than the largest delay, because the *)
(* time shown, and the time Process goes by, are not ahead of the client's *)
(* time unless the estimate of the clock has been stored anew since; Epoch *)
(* counts those stores.                                                    *)
(*                                                                         *)
(* The displayed position of the player keeps near the predicted one,      *)
(* whichever way a correction turns the player.  While nothing has gone    *)
(* wrong the player, the server and every correction on its way agree on   *)
(* where the inputs lead, each by the yaw it was given with; so the        *)
(* predicted position is the server's as soon as the client's heading is   *)
(* that of the inputs it replays.  Total and Unacked are known by          *)
(* induction over lists.                                                   *)
(***************************************************************************)
EXTENDS MovementInterpolator, Player, SequenceTheorems, WellFoundedInduction, TLAPS

\* The order of the natural numbers.
Below == {p \in Nat \X Nat : p[1] < p[2]}

\* It is well founded.
LEMMA BelowWellFounded == IsWellFoundedOn(Below, Nat)
BY NatLessThanWellFounded DEF OpToRel, Below

\* Every set of natural numbers but the empty one has a least number.
LEMMA LeastNat ==
    ASSUME NEW T \in SUBSET Nat, T # {}
    PROVE  \E m \in T : \A k \in T : m <= k
<1>1. \E m \in T : \A k \in T : ~ (<<k, m>> \in Below)
  <2>1. T \subseteq Nat
    OBVIOUS
  <2> QED
    BY <2>1, WFMin, BelowWellFounded
<1>2. PICK m \in T : \A k \in T : ~ (<<k, m>> \in Below)
  BY <1>1
<1>3. ASSUME NEW k \in T PROVE m <= k
  <2>1. ~(k < m)
    BY <1>2 DEF Below
  <2> QED
    BY <2>1
<1> QED
  BY <1>3

\* A set that holds 0 and with every number the next one holds every number.
LEMMA InductNat ==
    ASSUME NEW G \in SUBSET Nat, 0 \in G, \A n \in G : n + 1 \in G
    PROVE  G = Nat
<1> SUFFICES ASSUME G # Nat PROVE FALSE
  OBVIOUS
<1>1. PICK m \in Nat \ G : \A k \in Nat \ G : m <= k
  BY LeastNat
<1>2. m # 0 /\ m - 1 \in G
  BY <1>1
<1> QED
  BY <1>1, <1>2

-------------------------------------------------------------------------------
(* The clock *)

\* What is known of the numbers before anything is computed from them.
PastInv ==
    /\ lastSent <= now
    /\ got <= replied /\ replied <= asked
    /\ \A k \in Requests : k <= replied => replyTime[k] <= now + Skew

\* What the last answer was turned into: the round trip reaches back to a time
\* noted, at which this answer had not been given unless it was noted late.
MeasuredInv ==
    got > 0 =>
        /\ nowRead <= now
        /\ 0 <= latestRtt
        /\ replyTime[got] - Skew <= nowRead
        /\ ~late => nowRead - latestRtt <= replyTime[got] - Skew

\* How far the stores have come.
StoredInv ==
    /\ storing # "none" => got > 0
    /\ got > 0 /\ storing # "server" => baseServer = BaseServerTime
    /\ got > 0 /\ storing = "none" => baseLocal = nowRead

ClockInv == ClockTypeOK /\ PastInv /\ MeasuredInv /\ StoredInv

-------------------------------------------------------------------------------
\* The first state satisfies the invariant.
LEMMA ClockInitInv == ClockInit => ClockInv
<1> SUFFICES ASSUME ClockInit PROVE ClockInv
  OBVIOUS
<1> USE TimeAssumption DEF ClockInit
<1>1. ClockTypeOK
  <2>1. stamping \in BOOLEAN /\ late \in BOOLEAN
    BY Zenon
  <2> QED
    BY <2>1 DEF ClockTypeOK, Requests
<1>2. PastInv
  BY DEF PastInv, Requests
<1>3. MeasuredInv /\ StoredInv
  BY DEF MeasuredInv, StoredInv
<1> QED
  BY <1>1, <1>2, <1>3 DEF ClockInv

\* Every step keeps it.
LEMMA ClockStepInv == ClockInv /\ [ClockStep]_clockVars => ClockInv'
<1> SUFFICES ASSUME ClockInv, [ClockStep]_clockVars PROVE ClockInv'
  OBVIOUS
<1> USE TimeAssumption
<1> USE DEF ClockInv, ClockTypeOK, PastInv, MeasuredInv, StoredInv, BaseServerTime, Requests
<1>1. CASE TimeGoesOn
  BY <1>1 DEF TimeGoesOn
<1>2. CASE SendTimeSync
  BY <1>2 DEF SendTimeSync
<1>3. CASE NoteTimeSyncSent
  <2> USE <1>3 DEF NoteTimeSyncSent
  <2>1. ClockTypeOK'
    <3>1. stamping' \in BOOLEAN
      BY Zenon
    <3>2. late' \in BOOLEAN
      BY Zenon
    <3> QED
      BY <3>1, <3>2
  <2>2. PastInv'
    OBVIOUS
  <2>3. MeasuredInv' /\ StoredInv'
    OBVIOUS
  <2> QED
    BY <2>1, <2>2, <2>3
<1>4. CASE ServerReply
  BY <1>4 DEF ServerReply, ServerTime
<1>5. CASE OnServerTimeReceived
  <2> USE <1>5 DEF OnServerTimeReceived
  <2>1. got' \in Requests /\ got' <= replied
    OBVIOUS
  <2>2. late' <=> replyTime[got'] - Skew < lastSent
    OBVIOUS
  <2>3. ClockTypeOK'
    BY <2>1
  <2>4. PastInv'
    BY <2>1
  <2>5. MeasuredInv'
    BY <2>1, <2>2
  <2>6. StoredInv'
    BY <2>1
  <2> QED
    BY <2>3, <2>4, <2>5, <2>6
<1>6. CASE StoreBaseServer
  BY <1>6 DEF StoreBaseServer
<1>7. CASE StoreBaseLocal
  BY <1>7 DEF StoreBaseLocal
<1>8. CASE UNCHANGED clockVars
  BY <1>8 DEF clockVars
<1> QED
  BY <1>1, <1>2, <1>3, <1>4, <1>5, <1>6, <1>7, <1>8 DEF ClockStep

\* The invariant holds the bounds.
LEMMA InvLags == ClockInv => ClockLagsBehind
<1> SUFFICES ASSUME ClockInv, got > 0, storing = "none"
             PROVE  Lag >= 2 * Tick + latestRtt /\ (~late => Lag <= 2 * Tick + 3 * latestRtt)
  BY DEF ClockLagsBehind
<1> USE TimeAssumption
<1>1. now \in Int /\ latestRtt \in Int /\ nowRead \in Int /\ replyTime[got] \in Int
  BY DEF ClockInv, ClockTypeOK, Requests
<1>2. baseServer = 2 * replyTime[got] - latestRtt - 2 * Tick /\ baseLocal = nowRead
  BY DEF ClockInv, StoredInv, BaseServerTime
<1>3. /\ replyTime[got] - Skew <= nowRead
      /\ ~late => nowRead - latestRtt <= replyTime[got] - Skew
  BY DEF ClockInv, MeasuredInv
<1>4. Lag = 2 * (Skew + nowRead - replyTime[got]) + latestRtt + 2 * Tick
  BY <1>1, <1>2 DEF Lag, ServerTime, ClientTime
<1> QED
  BY <1>1, <1>3, <1>4

\* The invariant of the specification.
LEMMA ClockInvariant == ClockSpec => []ClockInv
BY ClockInitInv, ClockStepInv, PTL DEF ClockSpec

\* The numbers of TimeManager keep their types (TimeManager.cpp 19-80).
THEOREM ClockTypeCorrect == ClockSpec => []ClockTypeOK
<1>1. ClockInv => ClockTypeOK
  BY DEF ClockInv
<1> QED
  BY ClockInvariant, <1>1, PTL

\* The estimate lags the server's clock by a tick and half the measured round
\* trip at least, and by a tick and one and a half at most unless the request
\* was noted late, for every skew and every order of the stores
\* (TimeManager.cpp 33-45, 58-73).
THEOREM LagsBehind == ClockSpec => []ClockLagsBehind
BY ClockInvariant, InvLags, PTL

-------------------------------------------------------------------------------
(* The remote actor *)

ViewTypeOK ==
    /\ delay \in MinDelay..MaxDelay
    /\ showing \in BOOLEAN
    /\ current \in [time : Int, epoch : Int]
    /\ shown.time \in Int /\ shown.epoch \in Int

\* The time shown and the time Process goes by are of the past.
PastTimesInv ==
    /\ shown.epoch <= Epoch
    /\ Len(shown.basis) > 0 /\ shown.epoch = Epoch => shown.time <= ClientTime
    /\ showing => current.epoch <= Epoch
    /\ showing /\ current.epoch = Epoch => current.time <= ClientTime

\* While Process is about to extrapolate, its time is not before the one shown.
ForwardInv ==
    showing /\ Len(shown.basis) > 0 /\ current.epoch = shown.epoch => shown.time <= current.time

ViewInv == ClockInv /\ ViewTypeOK /\ PastTimesInv /\ ForwardInv

-------------------------------------------------------------------------------
\* A step is one of the clock, or leaves the clock alone.
LEMMA StepOfClock == [Next]_vars => [ClockStep]_clockVars
BY DEF Next, SetBasedOnServerTime, AddSnapshot, Interpolate, Extrapolate, ClockStep, vars

\* Epoch and the client's time are numbers.
LEMMA EpochTyped == ClockTypeOK => Epoch \in Int /\ ClientTime \in Int
BY DEF ClockTypeOK, Epoch, ClientTime

\* A step of the clock starts a new epoch, or leaves the estimate alone and lets
\* time go on.
LEMMA ClockGoesOn ==
    ASSUME ClockInv, ClockInv', [ClockStep]_clockVars
    PROVE  Epoch' > Epoch \/ (Epoch' = Epoch /\ ClientTime' >= ClientTime)
<1> USE DEF ClockInv, ClockTypeOK, StoredInv, Epoch, ClientTime
<1>1. CASE TimeGoesOn
  BY <1>1 DEF TimeGoesOn
<1>2. CASE SendTimeSync \/ NoteTimeSyncSent \/ ServerReply
  <2>1. UNCHANGED <<now, got, storing, baseServer, baseLocal>>
    BY <1>2, Zenon DEF SendTimeSync, NoteTimeSyncSent, ServerReply
  <2> QED
    BY <2>1
<1>3. CASE OnServerTimeReceived
  BY <1>3 DEF OnServerTimeReceived
<1>4. CASE StoreBaseServer
  BY <1>4 DEF StoreBaseServer
<1>5. CASE StoreBaseLocal
  BY <1>5 DEF StoreBaseLocal
<1>6. CASE UNCHANGED clockVars
  BY <1>6 DEF clockVars
<1> QED
  BY <1>1, <1>2, <1>3, <1>4, <1>5, <1>6 DEF ClockStep

-------------------------------------------------------------------------------
\* The first state satisfies the invariant.
LEMMA ViewInit == Init => ViewInv
<1> SUFFICES ASSUME Init PROVE ViewInv
  OBVIOUS
<1> USE TimeAssumption, InterpolatorAssumption DEF Init
<1>1. ClockInv
  BY ClockInitInv
<1>2. Len(shown.basis) = 0 /\ ~showing /\ Epoch = 0
  BY DEF ClockInit, Epoch
<1>3. showing \in BOOLEAN
  BY Zenon
<1>4. ViewTypeOK
  BY <1>3 DEF ViewTypeOK, NotRead
<1> QED
  BY <1>1, <1>2, <1>4 DEF ViewInv, PastTimesInv, ForwardInv

\* Every step keeps it, and goes back by MaxDelay at most.
LEMMA ViewStep ==
    ASSUME ViewInv, [Next]_vars
    PROVE  /\ ViewInv'
           /\ shown'.epoch = shown.epoch /\ Len(shown.basis) > 0 =>
                shown'.time >= shown.time - MaxDelay
<1> USE TimeAssumption, InterpolatorAssumption
<1>1. [ClockStep]_clockVars
  BY StepOfClock
<1>2. ClockInv /\ ClockInv'
  BY <1>1, ClockStepInv DEF ViewInv
<1>3. Epoch' > Epoch \/ (Epoch' = Epoch /\ ClientTime' >= ClientTime)
  BY <1>1, <1>2, ClockGoesOn
<1>4. Epoch \in Int /\ ClientTime \in Int
  BY <1>2, EpochTyped DEF ClockInv
<1>5. Epoch' \in Int /\ ClientTime' \in Int
  BY <1>2 DEF ClockInv, ClockTypeOK, Epoch, ClientTime
<1> USE DEF ViewInv, ViewTypeOK, PastTimesInv, ForwardInv
<1>6. CASE UNCHANGED <<current, showing, shown>> /\ delay' \in MinDelay..MaxDelay
  BY <1>2, <1>3, <1>4, <1>5, <1>6
<1>7. CASE Interpolate
  <2>1. Epoch' = Epoch /\ ClientTime' = ClientTime /\ delay' = delay
    BY <1>7 DEF Interpolate, Epoch, ClientTime, clockVars
  <2>2. CASE UNCHANGED <<current, showing>>
    <3>1. shown'.time = ClientTime - delay /\ shown'.epoch = Epoch /\ ~showing
      BY <1>7, <2>2 DEF Interpolate
    <3> QED
      BY <1>2, <1>4, <2>1, <2>2, <3>1
  <2>3. CASE UNCHANGED shown /\ current' = [time |-> ClientTime, epoch |-> Epoch] /\ showing' = TRUE
    BY <1>2, <1>4, <2>1, <2>3
  <2> QED
    BY <1>7, <2>2, <2>3 DEF Interpolate
<1>8. CASE Extrapolate
  <2>1. Epoch' = Epoch /\ ClientTime' = ClientTime /\ delay' = delay /\ showing /\ ~showing'
    BY <1>8 DEF Extrapolate, Epoch, ClientTime, clockVars
  <2>2. showing' \in BOOLEAN
    BY <1>8, Zenon DEF Extrapolate
  <2>3. current' \in [time : Int, epoch : Int]
    BY <1>8 DEF Extrapolate, NotRead
  <2>4. CASE shown' = shown
    BY <1>2, <1>4, <2>1, <2>2, <2>3, <2>4
  <2>5. CASE shown' = [time |-> current.time, basis |-> <<Newest>>, epoch |-> current.epoch]
    BY <1>2, <1>4, <2>1, <2>2, <2>3, <2>5
  <2> QED
    BY <1>8, <2>4, <2>5 DEF Extrapolate
<1>9. Interpolate \/ Extrapolate
        \/ (UNCHANGED <<current, showing, shown>> /\ delay' \in MinDelay..MaxDelay)
  BY DEF Next, SetBasedOnServerTime, AddSnapshot, Delays, vars
<1> QED
  BY <1>6, <1>7, <1>8, <1>9

\* The invariant of what is shown holds throughout.
LEMMA ViewInvariant == Spec => []ViewInv
<1>1. ViewInv /\ [Next]_vars => ViewInv'
  BY ViewStep
<1> QED
  BY ViewInit, <1>1, PTL DEF Spec

-------------------------------------------------------------------------------
\* What the threads of the interpolator do to the clock is what TimeManager allows
\* (GameScene.cpp 37-49, MovementInterpolator.cpp 11-23).
THEOREM ClockUnderneath == Spec => ClockSpec
<1>1. Init => ClockInit
  BY DEF Init
<1> QED
  BY <1>1, StepOfClock, PTL DEF Spec, ClockSpec

\* So the estimate of the clock is bounded here too (TimeManager.cpp 58-73).
THEOREM LagsBehindHere == Spec => []ClockLagsBehind
BY ClockUnderneath, LagsBehind, PTL

\* As long as the estimate of the clock stays the same, the time a remote actor is
\* shown for goes back by the largest delay at most (MovementInterpolator.cpp
\* 11-23, 45-97).
THEOREM Backstep == Spec => BackstepBounded
<1>1. ViewInv /\ [Next]_vars =>
        [shown'.epoch = shown.epoch /\ Len(shown.basis) > 0 =>
           shown'.time >= shown.time - MaxDelay]_vars
  BY ViewStep
<1> QED
  BY ViewInvariant, <1>1, PTL DEF Spec, BackstepBounded

-------------------------------------------------------------------------------
\* The buffer is sorted, and a snapshot that is not in it any more is older than
\* another one by more than the window.
BufferInv ==
    /\ snapshots \in Seq(Int) /\ arrived \in SUBSET Int
    /\ \A i, k \in 1..Len(snapshots) : i <= k => snapshots[i] <= snapshots[k]
    /\ \A s \in arrived :
         \/ \E i \in 1..Len(snapshots) : snapshots[i] = s
         \/ \E u \in arrived : s < u - Window

\* What FirstOf finds.
LEMMA FirstOfIs ==
    ASSUME snapshots \in Seq(Int), NEW places \in SUBSET (1..Len(snapshots))
    PROVE  /\ FirstOf(places) \in 1..Len(snapshots) + 1
           /\ FirstOf(places) \in places \/ FirstOf(places) = Len(snapshots) + 1
           /\ \A k \in places : FirstOf(places) <= k
<1>1. CASE places = {}
  BY <1>1 DEF FirstOf
<1>2. CASE places # {}
  <2>1. \E i \in places : \A k \in places : i <= k
    BY <1>2, LeastNat
  <2> DEFINE first == CHOOSE i \in places : \A k \in places : i <= k
  <2>2. first \in places /\ \A k \in places : first <= k
    BY <2>1
  <2>3. FirstOf(places) = first
    BY <1>2 DEF FirstOf
  <2> HIDE DEF first
  <2> QED
    BY <2>2, <2>3
<1> QED
  BY <1>1, <1>2

\* What InsertAt makes of a sequence.
LEMMA InsertAtIs ==
    ASSUME NEW q \in Seq(Int), NEW e \in Int, NEW i \in 1..Len(q) + 1
    PROVE  /\ InsertAt(q, i, e) \in Seq(Int) /\ Len(InsertAt(q, i, e)) = Len(q) + 1
           /\ \A k \in 1..Len(q) + 1 :
                InsertAt(q, i, e)[k] = IF k < i THEN q[k] ELSE IF k = i THEN e ELSE q[k - 1]
<1> DEFINE front == SubSeq(q, 1, i - 1)
           back == SubSeq(q, i, Len(q))
<1>1. /\ front \in Seq(Int) /\ Len(front) = i - 1
      /\ \A k \in 1..i - 1 : front[k] = q[k]
  OBVIOUS
<1>2. /\ back \in Seq(Int) /\ Len(back) = Len(q) + 1 - i
      /\ \A k \in 1..Len(q) + 1 - i : back[k] = q[k + i - 1]
  OBVIOUS
<1>3. InsertAt(q, i, e) = front \o <<e>> \o back
  BY DEF InsertAt
<1> HIDE DEF front, back
<1> DEFINE start == front \o <<e>>
<1>4. /\ start \in Seq(Int) /\ Len(start) = i
      /\ \A k \in 1..i : start[k] = IF k < i THEN q[k] ELSE e
  BY <1>1
<1>5. InsertAt(q, i, e) = start \o back
  BY <1>3
<1> HIDE DEF start
<1>6. /\ InsertAt(q, i, e) \in Seq(Int) /\ Len(InsertAt(q, i, e)) = Len(q) + 1
  BY <1>2, <1>4, <1>5
<1>7. ASSUME NEW k \in 1..Len(q) + 1
      PROVE  InsertAt(q, i, e)[k] = IF k <= i THEN start[k] ELSE back[k - i]
  <2>1. \A j \in 1..Len(start) + Len(back) :
           (start \o back)[j] = IF j <= Len(start) THEN start[j] ELSE back[j - Len(start)]
    BY <1>2, <1>4, ConcatProperties
  <2>2. k \in 1..Len(start) + Len(back)
    BY <1>2, <1>4
  <2> QED
    BY <1>4, <1>5, <2>1, <2>2
<1>8. ASSUME NEW k \in 1..Len(q) + 1
      PROVE  InsertAt(q, i, e)[k] = IF k < i THEN q[k] ELSE IF k = i THEN e ELSE q[k - 1]
  <2>1. CASE k <= i
    BY <1>4, <1>7, <2>1
  <2>2. CASE i < k
    <3>1. k - i \in 1..Len(q) + 1 - i /\ (k - i) + i - 1 = k - 1
      BY <2>2
    <3> QED
      BY <1>2, <1>7, <2>2, <3>1
  <2> QED
    BY <2>1, <2>2
<1> QED
  BY <1>6, <1>8

\* AddSnapshot keeps the buffer sorted and drops by the window only.
LEMMA AddSnapshotKeepsBuffer ==
    ASSUME BufferInv, NEW s \in Int, AddSnapshot(s)
    PROVE  BufferInv'
<1> USE InterpolatorAssumption
<1> DEFINE n == Len(snapshots)
           u == UpperBound(s)
           ins == Inserted(s)
           keep == {i \in 1..n + 1 : ins[i] >= s - Window}
           m == CHOOSE i \in keep : \A k \in keep : i <= k
<1>1. snapshots \in Seq(Int) /\ arrived \in SUBSET Int /\ n \in Nat
  BY DEF BufferInv
<1>2. /\ u \in 1..n + 1
      /\ \A i \in 1..n : snapshots[i] > s => u <= i
      /\ u <= n => snapshots[u] > s
  <2> DEFINE P == {i \in 1..n : snapshots[i] > s}
  <2>1. P \in SUBSET (1..n) /\ u = FirstOf(P)
    BY DEF UpperBound
  <2>2. \A i \in 1..n : i \in P <=> snapshots[i] > s
    OBVIOUS
  <2> HIDE DEF u, P
  <2>3. u \in 1..n + 1 /\ (u \in P \/ u = n + 1) /\ \A i \in P : u <= i
    BY <1>1, <2>1, FirstOfIs
  <2> QED
    BY <1>1, <2>2, <2>3
<1>3. /\ ins \in Seq(Int) /\ Len(ins) = n + 1
      /\ \A k \in 1..n + 1 :
           ins[k] = IF k < u THEN snapshots[k] ELSE IF k = u THEN s ELSE snapshots[k - 1]
  BY <1>1, <1>2, InsertAtIs DEF Inserted
<1>4. \A i \in 1..n : (i < u => snapshots[i] <= s) /\ (u <= i => s <= snapshots[i])
  BY <1>1, <1>2 DEF BufferInv
<1>5. snapshots' = SubSeq(ins, m, n + 1) /\ arrived' = arrived \union {s}
  BY <1>3 DEF AddSnapshot
<1> HIDE DEF n, u, ins
<1>6. ASSUME NEW i \in 1..n + 1, NEW k \in 1..n + 1, i <= k PROVE ins[i] <= ins[k]
  <2>1. \A a, b \in 1..n : a <= b => snapshots[a] <= snapshots[b]
    BY DEF BufferInv, n
  <2>2. \A a \in 1..n : snapshots[a] \in Int
    BY <1>1 DEF n
  <2>3. CASE i < u /\ k < u
    <3>1. i \in 1..n /\ k \in 1..n
      BY <1>1, <1>2, <2>3
    <3>2. ins[i] = snapshots[i] /\ ins[k] = snapshots[k]
      BY <1>3, <2>3
    <3> QED
      BY <1>6, <2>1, <3>1, <3>2
  <2>4. CASE i < u /\ k = u
    BY <1>1, <1>2, <1>3, <1>4, <1>6, <2>4
  <2>5. CASE i < u /\ u < k
    <3>1. i \in 1..n /\ k - 1 \in 1..n /\ i <= k - 1
      BY <1>1, <1>2, <2>5
    <3>2. ins[i] = snapshots[i] /\ ins[k] = snapshots[k - 1]
      BY <1>1, <1>2, <1>3, <2>5, <3>1
    <3> QED
      BY <2>1, <3>1, <3>2
  <2>6. CASE i = u /\ k = u
    BY <1>1, <1>2, <1>3, <2>6
  <2>7. CASE i = u /\ u < k
    <3>1. k - 1 \in 1..n /\ u <= k - 1
      BY <1>1, <1>2, <2>7
    <3>2. ins[i] = s /\ ins[k] = snapshots[k - 1]
      BY <1>1, <1>2, <1>3, <2>7, <3>1
    <3> QED
      BY <1>4, <3>1, <3>2
  <2>8. CASE u < i
    <3>1. i - 1 \in 1..n /\ k - 1 \in 1..n /\ i - 1 <= k - 1 /\ u < k
      BY <1>1, <1>2, <1>6, <2>8
    <3>2. ins[i] = snapshots[i - 1] /\ ins[k] = snapshots[k - 1]
      BY <1>1, <1>2, <1>3, <2>8, <3>1
    <3> QED
      BY <2>1, <3>1, <3>2
  <2> QED
    BY <1>1, <1>2, <1>6, <2>3, <2>4, <2>5, <2>6, <2>7, <2>8
<1>7. /\ m \in 1..n + 1
      /\ \A i \in 1..n + 1 : ins[i] >= s - Window => m <= i
  <2>1. u \in keep
    BY <1>2, <1>3
  <2>2. \E i \in keep : \A k \in keep : i <= k
    <3>1. keep \in SUBSET Nat
      BY <1>1
    <3> HIDE DEF keep
    <3> QED
      BY <2>1, <3>1, LeastNat
  <2>3. m \in keep /\ \A k \in keep : m <= k
    BY <2>2
  <2> QED
    BY <2>3
<1> HIDE DEF m, keep
<1>8. /\ snapshots' \in Seq(Int) /\ Len(snapshots') = n + 2 - m
      /\ \A k \in 1..n + 2 - m : snapshots'[k] = ins[m + k - 1]
  BY <1>1, <1>3, <1>5, <1>7
<1>9. \A i, k \in 1..n + 2 - m : i <= k => snapshots'[i] <= snapshots'[k]
  BY <1>1, <1>6, <1>7, <1>8
<1>10. ASSUME NEW j \in 1..n + 1, NEW x \in Int, ins[j] = x
       PROVE  (\E i \in 1..Len(snapshots') : snapshots'[i] = x) \/ (\E v \in arrived' : x < v - Window)
  <2>1. CASE j < m
    BY <1>1, <1>3, <1>5, <1>7, <1>10, <2>1
  <2>2. CASE m <= j
    <3>1. j - m + 1 \in 1..n + 2 - m /\ m + (j - m + 1) - 1 = j
      BY <1>1, <1>7, <2>2
    <3> QED
      BY <1>8, <1>10, <3>1
  <2> QED
    BY <1>1, <1>7, <2>1, <2>2
<1>11. ASSUME NEW x \in arrived'
       PROVE  (\E i \in 1..Len(snapshots') : snapshots'[i] = x) \/ (\E v \in arrived' : x < v - Window)
  <2>1. CASE x = s
    BY <1>2, <1>3, <1>10, <2>1
  <2>2. CASE x \in arrived /\ \E v \in arrived : x < v - Window
    BY <1>5, <2>2
  <2>3. CASE \E i \in 1..n : snapshots[i] = x
    <3>1. PICK i \in 1..n : snapshots[i] = x
      BY <2>3
    <3>2. x \in Int
      BY <1>1, <3>1 DEF n
    <3>3. CASE i < u
      <4>1. i \in 1..n + 1
        BY <1>1, <3>1
      <4>2. ins[i] = x
        BY <1>3, <3>1, <3>3, <4>1
      <4> QED
        BY <1>10, <3>2, <4>1, <4>2
    <3>4. CASE u <= i
      <4>1. i + 1 \in 1..n + 1 /\ ins[i + 1] = x
        BY <1>1, <1>2, <1>3, <3>1, <3>4
      <4> QED
        BY <1>10, <3>2, <4>1
    <3> QED
      BY <1>1, <1>2, <3>3, <3>4
  <2> QED
    BY <1>5, <2>1, <2>2, <2>3 DEF BufferInv, n
<1> QED
  BY <1>1, <1>5, <1>8, <1>9, <1>11 DEF BufferInv

\* Every step does.
LEMMA BufferStep == ClockInv /\ BufferInv /\ [Next]_vars => BufferInv'
<1> SUFFICES ASSUME ClockInv, BufferInv, [Next]_vars PROVE BufferInv'
  OBVIOUS
<1>1. CASE UNCHANGED <<arrived, snapshots>>
  BY <1>1 DEF BufferInv
<1>2. ASSUME NEW s \in Sent, AddSnapshot(s) PROVE BufferInv'
  <2>1. s \in Int
    BY TimeAssumption DEF ClockInv, ClockTypeOK, Sent
  <2> QED
    BY <1>2, <2>1, AddSnapshotKeepsBuffer
<1> QED
  BY <1>1, <1>2 DEF Next, SetBasedOnServerTime, Interpolate, Extrapolate, vars

\* The buffer of snapshots stays sorted and loses only what is old.
LEMMA BufferInvariant == Spec => []BufferInv
<1>1. Init => BufferInv
  BY DEF Init, BufferInv
<1>2. ViewInv => ClockInv
  BY DEF ViewInv
<1> QED
  BY <1>1, <1>2, ViewInvariant, BufferStep, PTL DEF Spec

\* What is interpolated lies between two neighbours in the buffer, whatever came
\* in which order: for every window and number of snapshots
\* (MovementInterpolator.cpp 25-70).
THEOREM BetweenNeighbours == Spec => ShownBetweenNeighbours
<1> DEFINE Neighbours ==
      Len(shown'.basis) = 2 /\ shown' # shown =>
          LET prev == shown'.basis[1]
              next == shown'.basis[2]
          IN  /\ 2 * prev < shown'.time /\ shown'.time <= 2 * next
              /\ \A s \in arrived : prev < s /\ s < next => \E u \in arrived : s < u - Window
<1>1. ASSUME ViewInv, BufferInv, [Next]_vars, Len(shown'.basis) = 2, shown' # shown
      PROVE  Neighbours
  <2>1. Interpolate
    <3>1. ~Extrapolate
      <4> SUFFICES ASSUME Extrapolate PROVE FALSE
        OBVIOUS
      <4>1. shown' = [time |-> current.time, basis |-> <<Newest>>, epoch |-> current.epoch]
        BY <1>1 DEF Extrapolate
      <4>2. Len(<<Newest>>) = 1
        OBVIOUS
      <4> QED
        BY <1>1, <4>1, <4>2
    <3> QED
      BY <1>1, <3>1 DEF Next, SetBasedOnServerTime, AddSnapshot, vars
  <2> DEFINE t == ClientTime - delay
             i == LowerBound(t)
             after == {k \in 1..Len(snapshots) : 2 * snapshots[k] >= t}
  <2>2. /\ i > 1 /\ i <= Len(snapshots)
        /\ shown' = [time |-> t, basis |-> <<snapshots[i - 1], snapshots[i]>>, epoch |-> Epoch]
    BY <1>1, <2>1 DEF Interpolate
  <2>3. t \in Int
    BY <1>1, EpochTyped, InterpolatorAssumption DEF ViewInv, ViewTypeOK, ClockInv
  <2>4. snapshots \in Seq(Int) /\ \A k \in 1..Len(snapshots) : snapshots[k] \in Int
    BY <1>1 DEF BufferInv
  <2>5. i \in 1..Len(snapshots) + 1 /\ (i \in after \/ i = Len(snapshots) + 1) /\ \A k \in after : i <= k
    BY <2>4, FirstOfIs DEF LowerBound
  <2> HIDE DEF t, i
  <2>6. i \in 1..Len(snapshots) /\ i - 1 \in 1..Len(snapshots)
    BY <2>2, <2>4, <2>5
  <2>7. 2 * snapshots[i] >= t /\ ~(2 * snapshots[i - 1] >= t)
    BY <2>2, <2>4, <2>5, <2>6
  <2>8. shown'.time = t /\ shown'.basis[1] = snapshots[i - 1] /\ shown'.basis[2] = snapshots[i]
    BY <2>2
  <2>9. ASSUME NEW s \in arrived, snapshots[i - 1] < s, s < snapshots[i]
        PROVE  \E u \in arrived : s < u - Window
    <3>1. ASSUME NEW k \in 1..Len(snapshots), snapshots[k] = s PROVE FALSE
      <4>1. CASE k <= i - 1
        <5>1. snapshots[k] <= snapshots[i - 1]
          BY <1>1, <2>6, <4>1 DEF BufferInv
        <5> QED
          BY <2>4, <2>6, <2>9, <3>1, <5>1
      <4>2. CASE i <= k
        <5>1. snapshots[i] <= snapshots[k]
          BY <1>1, <2>6, <4>2 DEF BufferInv
        <5> QED
          BY <2>4, <2>6, <2>9, <3>1, <5>1
      <4> QED
        BY <2>6, <4>1, <4>2
    <3> QED
      BY <1>1, <3>1 DEF BufferInv
  <2>10. 2 * snapshots[i - 1] < t /\ t <= 2 * snapshots[i]
    BY <2>3, <2>4, <2>6, <2>7
  <2> QED
    BY <2>8, <2>9, <2>10
<1>2. ViewInv /\ BufferInv /\ [Next]_vars => [Neighbours]_vars
  BY <1>1
<1> QED
  BY <1>2, ViewInvariant, BufferInvariant, PTL DEF Spec, ShownBetweenNeighbours

-------------------------------------------------------------------------------
(* The player *)

\* The inputs and the corrections are records of numbers.
Inputs == [seq : Int, key : Keys, yaw : Headings]

\* The steps that Total can go by, and how far one input goes by them.
Tables == [Headings -> [Keys -> Int]]
Far(steps, i) == steps[i.yaw][i.key]

PlayerTypeOK ==
    /\ lives \in Nat /\ position \in Int /\ heading \in Headings
    /\ render \in Int /\ lastSeq \in Nat
    /\ pending \in Seq(Inputs)
    /\ at \in {"idle", "apply"} /\ (at = "apply" => cur \in Inputs)
    /\ recon \in {"no", "erase"} /\ ack \in Int /\ seen \in Nat
    /\ toServer \in SUBSET [seq : Nat, key : Keys, yaw : Headings]
    /\ server \in [pos : Int, last : Int]
    /\ syncs \in SUBSET [pos : Int, last : Int, heading : Headings]
    /\ synced \in BOOLEAN
    /\ troubles \subseteq {"respawned", "stale", "lost", "skipped"}

\* What smoothing leaves of the distance to the server's position.
Small(e) == 2 * Distance(e, 0) <= Threshold + 1

\* The input that is about to be applied, and what an input or none can come to,
\* at the heading of the player.
Due == IF at = "apply" THEN Step[heading][cur.key] ELSE 0
Strides == {Step[heading][k] : k \in Keys} \union {0}

\* Between corrections the displayed position is off by what smoothing has left,
\* by one input that was counted twice, and by the one not applied yet.
TrackInv ==
    /\ server.last >= 0 \/ syncs # {} \/ synced => Keys # {}
    /\ synced /\ recon = "no" =>
         \E e \in Int, x \in Strides : Small(e) /\ render = Predicted + e + x - Due

\* During one, the inputs that were there have been applied; one at most has come.
ErasingInv ==
    recon = "erase" =>
        /\ seen <= Len(pending) /\ synced
        /\ Len(pending) # seen =>
             Len(pending) = seen + 1 /\ pending[seen + 1] = cur /\ at = "apply"
        /\ \E e \in Int :
             /\ Small(e)
             /\ render = position + e + Total(Unacked(SubSeq(pending, 1, seen), ack), Steady(heading))

\* Two places of the player, each as of an input, foretell the same.
Agree(pos, last) ==
    pos + Total(Unacked(InOrder, last), Step)
      = server.pos + Total(Unacked(InOrder, server.last), Step)

\* What has been sent, while nothing has gone wrong, has the numbers 0, 1, 2, ...
SentInv ==
    /\ lives <= 1
    /\ \A i \in toServer : i.seq < lastSeq
    /\ \A n \in 1..lastSeq : \E i \in toServer : i.seq = n - 1
    /\ \A i, k \in toServer : i.seq = k.seq => i = k
    /\ server.last < lastSeq /\ ack < lastSeq /\ \A s \in syncs : s.last < lastSeq
    /\ lives = 0 => /\ lastSeq = 0 /\ recon = "no" /\ ack = -1 /\ syncs = {}
                    /\ server = [pos |-> SpawnPosition, last |-> -1]

\* And the corrections, the player and the server agree on where it leads.
AgreeInv ==
    /\ server.last >= -1 /\ \A s \in syncs : Agree(s.pos, s.last)
    /\ lives > 0 =>
         /\ Agree(position, ack)
         /\ recon = "no" => pending = Unacked(InOrder, ack)
         /\ recon = "erase" => \E a \in Int : a <= ack /\ pending = Unacked(InOrder, a)

OrderInv == troubles = {} => SentInv /\ AgreeInv

PlayerInv == PlayerTypeOK /\ TrackInv /\ ErasingInv /\ OrderInv

\* An input goes a number of units, by any steps.
LEMMA FarType ==
    ASSUME NEW d \in Tables, NEW i \in Inputs
    PROVE  Far(d, i) \in Int
<1>1. i.yaw \in Headings /\ i.key \in Keys
  BY DEF Inputs
<1>2. d[i.yaw] \in [Keys -> Int]
  BY <1>1 DEF Tables
<1> QED
  BY <1>1, <1>2 DEF Far

\* Those of the model are steps; those of a player go by its heading.
LEMMA StepsAre ==
    /\ Step \in Tables
    /\ \A h \in Headings : Steady(h) \in Tables
    /\ \A h \in Headings, i \in Inputs : Far(Steady(h), i) = Step[h][i.key]
    /\ \A h \in Headings, k \in Keys : Step[h][k] \in Int
BY PlayerAssumption DEF Tables, Steady, Far, Inputs

\* f is the function sum of Total by the steps d, as far as n.
Sums(f, s, d, n) ==
    /\ f \in [0..n -> Int]
    /\ f[0] = 0
    /\ \A i \in 1..n : f[i] = f[i - 1] + Far(d, s[i])

\* There is a function that Total can choose,
LEMMA TotalExists ==
    ASSUME NEW s \in Seq(Inputs), NEW d \in Tables
    PROVE  \E f : Sums(f, s, d, Len(s))
<1> DEFINE G == {n \in Nat : n <= Len(s) => \E f : Sums(f, s, d, n)}
<1>1. 0 \in G
  <2>1. Sums([i \in 0..0 |-> 0], s, d, 0)
    BY DEF Sums
  <2> QED
    BY <2>1
<1>2. ASSUME NEW n \in G PROVE n + 1 \in G
  <2> SUFFICES ASSUME n + 1 <= Len(s) PROVE \E f : Sums(f, s, d, n + 1)
    OBVIOUS
  <2>1. PICK f : Sums(f, s, d, n)
    OBVIOUS
  <2> DEFINE last1 == f[n] + Far(d, s[n + 1])
             g == [i \in 0..(n + 1) |-> IF i <= n THEN f[i] ELSE last1]
  <2>2. /\ f \in [0..n -> Int] /\ f[0] = 0
        /\ \A i \in 1..n : f[i] = f[i - 1] + Far(d, s[i])
    BY <2>1 DEF Sums
  <2>3. last1 \in Int
    <3>1. s[n + 1] \in Inputs
      OBVIOUS
    <3>2. Far(d, s[n + 1]) \in Int
      BY <3>1, FarType
    <3>3. f[n] \in Int
      BY <2>2
    <3> QED
      BY <3>2, <3>3
  <2>4. g \in [0..(n + 1) -> Int] /\ g[0] = 0
    BY <2>2, <2>3
  <2>5. ASSUME NEW i \in 1..(n + 1) PROVE g[i] = g[i - 1] + Far(d, s[i])
    <3>1. CASE i = n + 1
      <4>1. g[i] = last1 /\ g[i - 1] = f[n]
        BY <3>1
      <4> QED
        BY <3>1, <4>1
    <3>2. CASE i # n + 1
      <4>1. i \in 1..n /\ g[i] = f[i] /\ g[i - 1] = f[i - 1]
        BY <3>2
      <4> QED
        BY <2>2, <4>1
    <3> QED
      BY <3>1, <3>2
  <2>6. Sums(g, s, d, n + 1)
    <3> HIDE DEF g
    <3> QED
      BY <2>4, <2>5 DEF Sums
  <2> QED
    BY <2>6
<1>3. G = Nat
  <2> HIDE DEF G
  <2>1. G \in SUBSET Nat
    BY DEF G
  <2> QED
    BY <1>1, <1>2, <2>1, InductNat
<1>4. Len(s) \in G
  <2> HIDE DEF G
  <2> QED
    BY <1>3
<1>5. Len(s) <= Len(s) => \E f : Sums(f, s, d, Len(s))
  BY <1>4, Zenon
<1> QED
  BY <1>5

\* and only one,
LEMMA TotalUnique ==
    ASSUME NEW s, NEW t, NEW d, NEW m \in Nat, NEW n \in Nat, m <= n, NEW f, NEW g,
           Sums(f, s, d, n), Sums(g, t, d, m), \A i \in 1..m : s[i] = t[i]
    PROVE  f[m] = g[m]
<1> DEFINE G == {k \in Nat : k <= m => f[k] = g[k]}
<1>1. 0 \in G
  <2>1. f[0] = 0 /\ g[0] = 0
    BY DEF Sums
  <2> QED
    BY <2>1
<1>2. ASSUME NEW k \in G PROVE k + 1 \in G
  <2> SUFFICES ASSUME k + 1 <= m PROVE f[k + 1] = g[k + 1]
    OBVIOUS
  <2>1. k + 1 \in 1..m /\ k + 1 \in 1..n /\ f[k] = g[k] /\ (k + 1) - 1 = k
    OBVIOUS
  <2>2. /\ f[k + 1] = f[k] + Far(d, s[k + 1])
        /\ g[k + 1] = g[k] + Far(d, t[k + 1])
    BY <2>1 DEF Sums
  <2> QED
    BY <2>1, <2>2
<1>3. G = Nat
  <2> HIDE DEF G
  <2>1. G \in SUBSET Nat
    BY DEF G
  <2> QED
    BY <1>1, <1>2, <2>1, InductNat
<1> QED
  BY <1>3

\* so Total sums the inputs: nothing for no inputs, and one more for one more.
LEMMA TotalIs ==
    ASSUME NEW s \in Seq(Inputs), NEW d \in Tables, NEW f, Sums(f, s, d, Len(s))
    PROVE  Total(s, d) = f[Len(s)]
<1> DEFINE Body(k, n) == IF n = 0 THEN 0 ELSE k[n - 1] + Far(d, s[n])
           sum == CHOOSE k : k = [n \in 0..Len(s) |-> Body(k, n)]
<1>1. f = [n \in 0..Len(s) |-> Body(f, n)]
  <2>1. ASSUME NEW n \in 0..Len(s) PROVE f[n] = Body(f, n)
    <3>1. CASE n = 0
      BY <3>1 DEF Sums
    <3>2. CASE n \in 1..Len(s)
      BY <3>2 DEF Sums
    <3> QED
      BY <3>1, <3>2
  <2>2. f = [n \in 0..Len(s) |-> f[n]]
    BY DEF Sums
  <2> HIDE DEF Body
  <2> QED
    BY <2>1, <2>2
<1>2. sum = [n \in 0..Len(s) |-> Body(sum, n)]
  <2> HIDE DEF Body
  <2> QED
    BY <1>1
<1>3. Total(s, d) = sum[Len(s)]
  BY DEF Total, Far
<1> HIDE DEF sum
<1>4. Sums(f, s, d, Len(s)) => \A n \in 0..Len(s) : f[n] = sum[n]
  <2> DEFINE G == {k \in Nat : k <= Len(s) => f[k] = sum[k]}
  <2>1. ASSUME NEW n \in 0..Len(s) PROVE sum[n] = Body(sum, n) /\ f[n] = Body(f, n)
    <3> HIDE DEF Body
    <3> QED
      BY <1>1, <1>2
  <2>2. 0 \in G
    BY <2>1
  <2>3. ASSUME NEW k \in G PROVE k + 1 \in G
    BY <2>1
  <2>4. G = Nat
    <3> HIDE DEF G
    <3>1. G \in SUBSET Nat
      BY DEF G
    <3> QED
      BY <2>2, <2>3, <3>1, InductNat
  <2> QED
    BY <2>4
<1> QED
  BY <1>3, <1>4

\* Total from sequence to sequence: of the empty one, of one that is longer by one.
LEMMA TotalNil == ASSUME NEW d \in Tables PROVE Total(<<>>, d) = 0
<1>1. <<>> \in Seq(Inputs)
  OBVIOUS
<1>2. PICK f : Sums(f, <<>>, d, Len(<<>>))
  BY <1>1, TotalExists
<1>3. Total(<<>>, d) = f[Len(<<>>)]
  BY <1>1, <1>2, TotalIs
<1> QED
  BY <1>2, <1>3 DEF Sums

\* An input at the end adds how far it goes.
LEMMA TotalAppend ==
    ASSUME NEW s \in Seq(Inputs), NEW e \in Inputs, NEW d \in Tables
    PROVE  Total(Append(s, e), d) = Total(s, d) + Far(d, e)
<1>1. PICK f : Sums(f, s, d, Len(s))
  BY TotalExists
<1> DEFINE t == Append(s, e)
<1>2. /\ t \in Seq(Inputs) /\ Len(t) = Len(s) + 1 /\ t[Len(s) + 1] = e
      /\ Len(s) \in Nat /\ Len(s) <= Len(t) /\ \A i \in 1..Len(s) : t[i] = s[i]
  OBVIOUS
<1> HIDE DEF t
<1>3. PICK g : Sums(g, t, d, Len(t))
  BY <1>2, TotalExists
<1>4. \A i \in 1..Len(s) : s[i] = t[i]
  BY <1>2
<1>5. g[Len(s)] = f[Len(s)]
  BY <1>1, <1>2, <1>3, <1>4, TotalUnique
<1>6. Total(s, d) = f[Len(s)] /\ Total(t, d) = g[Len(t)]
  BY <1>1, <1>2, <1>3, TotalIs
<1>7. g[Len(s) + 1] = g[Len(s)] + Far(d, e)
  BY <1>2, <1>3 DEF Sums
<1> QED
  BY <1>2, <1>5, <1>6, <1>7 DEF t

\* The sum is a number.
LEMMA TotalType ==
    ASSUME NEW s \in Seq(Inputs), NEW d \in Tables
    PROVE  Total(s, d) \in Int
<1>1. PICK f : Sums(f, s, d, Len(s))
  BY TotalExists
<1> QED
  BY <1>1, TotalIs DEF Sums

\* Inputs that were all given with one heading go as far by the steps of a player
\* that has it.
LEMMA TotalSteady ==
    ASSUME NEW s \in Seq(Inputs), NEW h \in Headings, \A n \in 1..Len(s) : s[n].yaw = h
    PROVE  Total(s, Steady(h)) = Total(s, Step)
<1>1. PICK f : Sums(f, s, Step, Len(s))
  BY StepsAre, TotalExists
<1>2. \A n \in 1..Len(s) : Far(Steady(h), s[n]) = Far(Step, s[n])
  BY StepsAre DEF Far
<1>3. Sums(f, s, Steady(h), Len(s))
  BY <1>1, <1>2 DEF Sums
<1> QED
  BY <1>1, <1>3, StepsAre, TotalIs

\* f is the function kept of Unacked, as far as n.
Keeps(f, s, last, n) ==
    /\ f \in [0..n -> Seq(Inputs)]
    /\ f[0] = <<>>
    /\ \A i \in 1..n : f[i] = IF s[i].seq > last THEN Append(f[i - 1], s[i]) ELSE f[i - 1]

\* There is a function that Unacked can choose,
LEMMA UnackedExists ==
    ASSUME NEW s \in Seq(Inputs), NEW last
    PROVE  \E f : Keeps(f, s, last, Len(s))
<1> DEFINE G == {n \in Nat : n <= Len(s) => \E f : Keeps(f, s, last, n)}
<1>1. 0 \in G
  <2>1. Keeps([i \in 0..0 |-> <<>>], s, last, 0)
    BY DEF Keeps
  <2> QED
    BY <2>1
<1>2. ASSUME NEW n \in G PROVE n + 1 \in G
  <2> SUFFICES ASSUME n + 1 <= Len(s) PROVE \E f : Keeps(f, s, last, n + 1)
    OBVIOUS
  <2>1. PICK f : Keeps(f, s, last, n)
    OBVIOUS
  <2> DEFINE last1 == IF s[n + 1].seq > last THEN Append(f[n], s[n + 1]) ELSE f[n]
             g == [i \in 0..(n + 1) |-> IF i <= n THEN f[i] ELSE last1]
  <2>2. /\ f \in [0..n -> Seq(Inputs)] /\ f[0] = <<>>
        /\ \A i \in 1..n : f[i] = IF s[i].seq > last THEN Append(f[i - 1], s[i]) ELSE f[i - 1]
    BY <2>1 DEF Keeps
  <2>3. s[n + 1] \in Inputs /\ last1 \in Seq(Inputs)
    BY <2>2
  <2>4. g \in [0..(n + 1) -> Seq(Inputs)] /\ g[0] = <<>>
    BY <2>2, <2>3
  <2>5. ASSUME NEW i \in 1..(n + 1) PROVE g[i] = IF s[i].seq > last THEN Append(g[i - 1], s[i]) ELSE g[i - 1]
    <3>1. CASE i = n + 1
      <4>1. g[i] = last1 /\ g[i - 1] = f[n]
        BY <3>1
      <4> QED
        BY <3>1, <4>1
    <3>2. CASE i # n + 1
      <4>1. i \in 1..n /\ g[i] = f[i] /\ g[i - 1] = f[i - 1]
        BY <3>2
      <4> QED
        BY <2>2, <4>1
    <3> QED
      BY <3>1, <3>2
  <2>6. Keeps(g, s, last, n + 1)
    <3> HIDE DEF g
    <3> QED
      BY <2>4, <2>5 DEF Keeps
  <2> QED
    BY <2>6
<1>3. G = Nat
  <2> HIDE DEF G
  <2>1. G \in SUBSET Nat
    BY DEF G
  <2> QED
    BY <1>1, <1>2, <2>1, InductNat
<1>4. Len(s) \in G
  <2> HIDE DEF G
  <2> QED
    BY <1>3
<1>5. Len(s) <= Len(s) => \E f : Keeps(f, s, last, Len(s))
  BY <1>4, Zenon
<1> QED
  BY <1>5

\* and only one,
LEMMA UnackedUnique ==
    ASSUME NEW s, NEW t, NEW m \in Nat, NEW n \in Nat, m <= n, NEW f, NEW g, NEW last,
           Keeps(f, s, last, n), Keeps(g, t, last, m), \A i \in 1..m : s[i] = t[i]
    PROVE  f[m] = g[m]
<1> DEFINE G == {k \in Nat : k <= m => f[k] = g[k]}
<1>1. 0 \in G
  <2>1. f[0] = <<>> /\ g[0] = <<>>
    BY DEF Keeps
  <2> QED
    BY <2>1
<1>2. ASSUME NEW k \in G PROVE k + 1 \in G
  <2> SUFFICES ASSUME k + 1 <= m PROVE f[k + 1] = g[k + 1]
    OBVIOUS
  <2>1. k + 1 \in 1..m /\ k + 1 \in 1..n /\ f[k] = g[k] /\ (k + 1) - 1 = k
    OBVIOUS
  <2>2. /\ f[k + 1] = IF s[k + 1].seq > last THEN Append(f[k], s[k + 1]) ELSE f[k]
        /\ g[k + 1] = IF t[k + 1].seq > last THEN Append(g[k], t[k + 1]) ELSE g[k]
    BY <2>1 DEF Keeps
  <2> QED
    BY <2>1, <2>2
<1>3. G = Nat
  <2> HIDE DEF G
  <2>1. G \in SUBSET Nat
    BY DEF G
  <2> QED
    BY <1>1, <1>2, <2>1, InductNat
<1> QED
  BY <1>3

\* so Unacked keeps, in their order, the inputs with higher numbers.
LEMMA UnackedIs ==
    ASSUME NEW s \in Seq(Inputs), NEW f, NEW last, Keeps(f, s, last, Len(s))
    PROVE  Unacked(s, last) = f[Len(s)]
<1> DEFINE Body(k, n) == IF n = 0 THEN <<>> ELSE IF s[n].seq > last THEN Append(k[n - 1], s[n]) ELSE k[n - 1]
           kept == CHOOSE k : k = [n \in 0..Len(s) |-> Body(k, n)]
<1>1. f = [n \in 0..Len(s) |-> Body(f, n)]
  <2>1. ASSUME NEW n \in 0..Len(s) PROVE f[n] = Body(f, n)
    <3>1. CASE n = 0
      BY <3>1 DEF Keeps
    <3>2. CASE n \in 1..Len(s)
      BY <3>2 DEF Keeps
    <3> QED
      BY <3>1, <3>2
  <2>2. f = [n \in 0..Len(s) |-> f[n]]
    BY DEF Keeps
  <2> HIDE DEF Body
  <2> QED
    BY <2>1, <2>2
<1>2. kept = [n \in 0..Len(s) |-> Body(kept, n)]
  <2> HIDE DEF Body
  <2> QED
    BY <1>1
<1>3. Unacked(s, last) = kept[Len(s)]
  BY DEF Unacked
<1> HIDE DEF kept
<1>4. Keeps(f, s, last, Len(s)) => \A n \in 0..Len(s) : f[n] = kept[n]
  <2> DEFINE G == {k \in Nat : k <= Len(s) => f[k] = kept[k]}
  <2>1. ASSUME NEW n \in 0..Len(s) PROVE kept[n] = Body(kept, n) /\ f[n] = Body(f, n)
    <3> HIDE DEF Body
    <3> QED
      BY <1>1, <1>2
  <2>2. 0 \in G
    BY <2>1
  <2>3. ASSUME NEW k \in G PROVE k + 1 \in G
    BY <2>1
  <2>4. G = Nat
    <3> HIDE DEF G
    <3>1. G \in SUBSET Nat
      BY DEF G
    <3> QED
      BY <2>2, <2>3, <3>1, InductNat
  <2> QED
    BY <2>4
<1> QED
  BY <1>3, <1>4

\* Unacked from sequence to sequence: of the empty one, of one that is longer by one.
LEMMA UnackedNil == ASSUME NEW last PROVE Unacked(<<>>, last) = <<>>
<1>1. <<>> \in Seq(Inputs)
  OBVIOUS
<1>2. PICK f : Keeps(f, <<>>, last, Len(<<>>))
  BY <1>1, UnackedExists
<1>3. Unacked(<<>>, last) = f[Len(<<>>)]
  BY <1>1, <1>2, UnackedIs
<1> QED
  BY <1>2, <1>3 DEF Keeps

\* An input at the end is kept when its number is higher.
LEMMA UnackedAppend ==
    ASSUME NEW s \in Seq(Inputs), NEW e \in Inputs, NEW last
    PROVE  Unacked(Append(s, e), last) = IF e.seq > last THEN Append(Unacked(s, last), e) ELSE Unacked(s, last)
<1>1. PICK f : Keeps(f, s, last, Len(s))
  BY UnackedExists
<1> DEFINE t == Append(s, e)
<1>2. /\ t \in Seq(Inputs) /\ Len(t) = Len(s) + 1 /\ t[Len(s) + 1] = e
      /\ Len(s) \in Nat /\ Len(s) <= Len(t) /\ \A i \in 1..Len(s) : t[i] = s[i]
  OBVIOUS
<1> HIDE DEF t
<1>3. PICK g : Keeps(g, t, last, Len(t))
  BY <1>2, UnackedExists
<1>4. \A i \in 1..Len(s) : s[i] = t[i]
  BY <1>2
<1>5. g[Len(s)] = f[Len(s)]
  BY <1>1, <1>2, <1>3, <1>4, UnackedUnique
<1>6. Unacked(s, last) = f[Len(s)] /\ Unacked(t, last) = g[Len(t)]
  <2>1. Unacked(s, last) = f[Len(s)]
    BY <1>1, UnackedIs
  <2>2. Unacked(t, last) = g[Len(t)]
    BY <1>2, <1>3, UnackedIs
  <2> QED
    BY <2>1, <2>2
<1>7. g[Len(s) + 1] = IF e.seq > last THEN Append(g[Len(s)], e) ELSE g[Len(s)]
  <2>1. \A i \in 1..Len(t) : g[i] = IF t[i].seq > last THEN Append(g[i - 1], t[i]) ELSE g[i - 1]
    BY <1>3 DEF Keeps
  <2> DEFINE n == Len(s) + 1
  <2>2. n \in 1..Len(t) /\ n - 1 = Len(s) /\ t[n] = e
    BY <1>2
  <2>3. g[n] = IF t[n].seq > last THEN Append(g[n - 1], t[n]) ELSE g[n - 1]
    BY <2>1, <2>2
  <2> QED
    BY <2>2, <2>3
<1>8. Unacked(t, last) = IF e.seq > last THEN Append(Unacked(s, last), e) ELSE Unacked(s, last)
  <2>1. Unacked(t, last) = g[Len(s) + 1] /\ g[Len(s)] = Unacked(s, last)
    BY <1>2, <1>5, <1>6
  <2> QED
    BY <1>7, <2>1
<1> QED
  BY <1>8 DEF t

\* What is kept is a list of inputs.
LEMMA UnackedType ==
    ASSUME NEW s \in Seq(Inputs), NEW last
    PROVE  Unacked(s, last) \in Seq(Inputs)
<1>1. PICK f : Keeps(f, s, last, Len(s))
  BY UnackedExists
<1> QED
  BY <1>1, UnackedIs DEF Keeps

\* What holds of the empty sequence, and of one longer by one, holds of every one.
LEMMA InductSeq ==
    ASSUME NEW T \in SUBSET Seq(Inputs), <<>> \in T,
           \A s \in T, e \in Inputs : Append(s, e) \in T
    PROVE  T = Seq(Inputs)
<1> DEFINE G == {n \in Nat : \A s \in Seq(Inputs) : Len(s) = n => s \in T}
<1>1. 0 \in G
  OBVIOUS
<1>2. ASSUME NEW n \in G PROVE n + 1 \in G
  <2> SUFFICES ASSUME NEW s \in Seq(Inputs), Len(s) = n + 1 PROVE s \in T
    OBVIOUS
  <2> DEFINE front == SubSeq(s, 1, n)
  <2>1. front \in Seq(Inputs) /\ Len(front) = n /\ s[n + 1] \in Inputs
    OBVIOUS
  <2>2. s = Append(front, s[n + 1])
    <3>1. Append(front, s[n + 1]) \in Seq(Inputs) /\ Len(Append(front, s[n + 1])) = Len(s)
      BY <2>1
    <3>2. ASSUME NEW i \in 1..Len(s) PROVE Append(front, s[n + 1])[i] = s[i]
      <4>1. CASE i = n + 1
        BY <2>1, <4>1
      <4>2. CASE i \in 1..n
        BY <2>1, <4>2
      <4> QED
        BY <4>1, <4>2
    <3> QED
      BY <3>1, <3>2, SeqEqual
  <2>3. front \in T
    BY <2>1
  <2> HIDE DEF front
  <2> QED
    BY <2>1, <2>2, <2>3
<1>3. G = Nat
  <2> HIDE DEF G
  <2>1. G \in SUBSET Nat
    BY DEF G
  <2> QED
    BY <1>1, <1>2, <2>1, InductNat
<1>4. ASSUME NEW s \in Seq(Inputs) PROVE s \in T
  <2>1. Len(s) \in G
    <3> HIDE DEF G
    <3> QED
      BY <1>3
  <2> QED
    BY <2>1
<1> QED
  BY <1>4

\* To drop what was acknowledged first, and then what was acknowledged later, is
\* to drop the latter.
LEMMA UnackedTwice ==
    ASSUME NEW s \in Seq(Inputs), NEW a \in Int, NEW b \in Int, a <= b
    PROVE  Unacked(Unacked(s, a), b) = Unacked(s, b)
<1> DEFINE T == {t \in Seq(Inputs) : Unacked(Unacked(t, a), b) = Unacked(t, b)}
<1>1. <<>> \in T
  <2>1. Unacked(<<>>, a) = <<>> /\ Unacked(<<>>, b) = <<>>
    BY UnackedNil
  <2> QED
    BY <2>1
<1>2. ASSUME NEW t \in T, NEW e \in Inputs PROVE Append(t, e) \in T
  <2>1. /\ t \in Seq(Inputs) /\ Append(t, e) \in Seq(Inputs) /\ e.seq \in Int
        /\ Unacked(Unacked(t, a), b) = Unacked(t, b)
    BY DEF Inputs
  <2>2. Unacked(t, a) \in Seq(Inputs)
    BY <2>1, UnackedType
  <2>3. Unacked(Append(Unacked(t, a), e), b)
          = IF e.seq > b THEN Append(Unacked(Unacked(t, a), b), e) ELSE Unacked(Unacked(t, a), b)
    BY <2>2, UnackedAppend
  <2>4. /\ Unacked(Append(t, e), a) = IF e.seq > a THEN Append(Unacked(t, a), e) ELSE Unacked(t, a)
        /\ Unacked(Append(t, e), b) = IF e.seq > b THEN Append(Unacked(t, b), e) ELSE Unacked(t, b)
    BY <2>1, UnackedAppend
  <2>5. Unacked(Unacked(Append(t, e), a), b) = Unacked(Append(t, e), b)
    <3>1. CASE e.seq > a
      BY <2>1, <2>3, <2>4, <3>1
    <3>2. CASE ~(e.seq > a)
      <4>1. ~(e.seq > b)
        BY <2>1, <3>2
      <4> QED
        BY <2>1, <2>4, <3>2, <4>1
    <3> QED
      BY <3>1, <3>2
  <2> QED
    BY <2>1, <2>5
<1>3. T = Seq(Inputs)
  <2> HIDE DEF T
  <2>1. T \in SUBSET Seq(Inputs)
    BY DEF T
  <2> QED
    BY <1>1, <1>2, <2>1, InductSeq
<1> QED
  BY <1>3

\* Nothing is left when the last input is acknowledged.
LEMMA UnackedNone ==
    ASSUME NEW s \in Seq(Inputs), NEW last \in Int, \A n \in 1..Len(s) : s[n].seq <= last
    PROVE  Unacked(s, last) = <<>>
<1> DEFINE T == {t \in Seq(Inputs) :
                   (\A n \in 1..Len(t) : t[n].seq <= last) => Unacked(t, last) = <<>>}
<1>1. <<>> \in T
  BY UnackedNil
<1>2. ASSUME NEW t \in T, NEW e \in Inputs PROVE Append(t, e) \in T
  <2> DEFINE u == Append(t, e)
  <2>1. /\ t \in Seq(Inputs) /\ u \in Seq(Inputs) /\ e.seq \in Int
        /\ Len(u) = Len(t) + 1 /\ u[Len(t) + 1] = e /\ \A n \in 1..Len(t) : u[n] = t[n]
    BY DEF Inputs
  <2>2. Unacked(u, last) = IF e.seq > last THEN Append(Unacked(t, last), e) ELSE Unacked(t, last)
    BY <2>1, UnackedAppend
  <2> HIDE DEF u
  <2>3. ASSUME \A n \in 1..Len(u) : u[n].seq <= last PROVE Unacked(u, last) = <<>>
    <3>1. Len(t) + 1 \in 1..Len(u) /\ \A n \in 1..Len(t) : n \in 1..Len(u)
      BY <2>1
    <3>2. e.seq <= last /\ \A n \in 1..Len(t) : t[n].seq <= last
      BY <2>1, <2>3, <3>1
    <3>3. Unacked(t, last) = <<>>
      BY <3>2
    <3> QED
      BY <2>1, <2>2, <3>2, <3>3
  <2> QED
    BY <2>1, <2>3 DEF u
<1>3. T = Seq(Inputs)
  <2> HIDE DEF T
  <2>1. T \in SUBSET Seq(Inputs)
    BY DEF T
  <2> QED
    BY <1>1, <1>2, <2>1, InductSeq
<1> QED
  BY <1>3

\* s has the inputs numbered 0, 1, 2, ...
Numbered(s) == \A n \in 1..Len(s) : s[n].seq = n - 1

\* What one more acknowledgement takes from the inputs is the next one.
LEMMA NextUnacked ==
    ASSUME NEW s \in Seq(Inputs), Numbered(s), NEW k \in Int, -1 <= k, k + 2 <= Len(s)
    PROVE  Total(Unacked(s, k), Step) = Total(Unacked(s, k + 1), Step) + Far(Step, s[k + 2])
<1> DEFINE Fits(t) ==
             Numbered(t) /\ k + 2 <= Len(t) =>
               Total(Unacked(t, k), Step) = Total(Unacked(t, k + 1), Step) + Far(Step, t[k + 2])
           T == {t \in Seq(Inputs) : Fits(t)}
<1>1. <<>> \in T
  OBVIOUS
<1>2. ASSUME NEW t \in T, NEW e \in Inputs PROVE Append(t, e) \in T
  <2> DEFINE u == Append(t, e)
  <2>1. /\ t \in Seq(Inputs) /\ u \in Seq(Inputs) /\ e.seq \in Int /\ Far(Step, e) \in Int /\ Len(t) \in Nat
        /\ Len(u) = Len(t) + 1 /\ u[Len(t) + 1] = e /\ \A n \in 1..Len(t) : u[n] = t[n]
    BY StepsAre, FarType DEF Inputs
  <2>2. /\ Unacked(u, k) = IF e.seq > k THEN Append(Unacked(t, k), e) ELSE Unacked(t, k)
        /\ Unacked(u, k + 1) = IF e.seq > k + 1 THEN Append(Unacked(t, k + 1), e)
                                                ELSE Unacked(t, k + 1)
    BY <2>1, UnackedAppend
  <2>3. /\ Unacked(t, k) \in Seq(Inputs) /\ Unacked(t, k + 1) \in Seq(Inputs)
    BY <2>1, UnackedType
  <2>4. /\ Total(Append(Unacked(t, k), e), Step) = Total(Unacked(t, k), Step) + Far(Step, e)
        /\ Total(Append(Unacked(t, k + 1), e), Step) = Total(Unacked(t, k + 1), Step) + Far(Step, e)
        /\ Total(Unacked(t, k), Step) \in Int /\ Total(Unacked(t, k + 1), Step) \in Int
    BY <2>3, StepsAre, TotalAppend, TotalType
  <2> HIDE DEF u
  <2>5. ASSUME Numbered(u), k + 2 <= Len(u)
        PROVE  Total(Unacked(u, k), Step) = Total(Unacked(u, k + 1), Step) + Far(Step, u[k + 2])
    <3>1. Len(t) + 1 \in 1..Len(u) /\ \A n \in 1..Len(t) : n \in 1..Len(u)
      BY <2>1
    <3>2. e.seq = Len(t) /\ Numbered(t)
      <4>1. u[Len(t) + 1].seq = (Len(t) + 1) - 1
        BY <2>5, <3>1 DEF Numbered
      <4>2. ASSUME NEW n \in 1..Len(t) PROVE t[n].seq = n - 1
        BY <2>1, <2>5, <3>1 DEF Numbered
      <4> QED
        BY <2>1, <4>1, <4>2 DEF Numbered
    <3>3. CASE k + 2 <= Len(t)
      <4>1. Fits(t)
        OBVIOUS
      <4>2. Total(Unacked(t, k), Step) = Total(Unacked(t, k + 1), Step) + Far(Step, t[k + 2])
        BY <3>2, <3>3, <4>1
      <4>3. e.seq > k /\ e.seq > k + 1 /\ k + 2 \in 1..Len(t)
        BY <2>1, <3>2, <3>3
      <4>4. u[k + 2] = t[k + 2] /\ t[k + 2] \in Inputs
        BY <2>1, <4>3
      <4>5. Far(Step, t[k + 2]) \in Int
        BY <4>4, StepsAre, FarType
      <4>6. /\ Total(Unacked(u, k), Step) = Total(Unacked(t, k), Step) + Far(Step, e)
            /\ Total(Unacked(u, k + 1), Step) = Total(Unacked(t, k + 1), Step) + Far(Step, e)
        BY <2>2, <2>4, <4>3
      <4> DEFINE a == Total(Unacked(t, k), Step)
                 b == Total(Unacked(t, k + 1), Step)
                 m == Far(Step, t[k + 2])
      <4>7. a \in Int /\ b \in Int /\ m \in Int /\ Far(Step, e) \in Int /\ a = b + m
        BY <2>1, <2>4, <4>2, <4>5
      <4>8. Total(Unacked(u, k), Step) = a + Far(Step, e) /\ Total(Unacked(u, k + 1), Step) = b + Far(Step, e)
            /\ Far(Step, u[k + 2]) = m
        BY <4>4, <4>6
      <4> HIDE DEF a, b, m
      <4>9. a + Far(Step, e) = (b + Far(Step, e)) + m
        BY <4>7
      <4> QED
        BY <4>8, <4>9
    <3>4. CASE k + 2 = Len(t) + 1
      <4>1. e.seq > k /\ ~(e.seq > k + 1) /\ u[k + 2] = e
        BY <2>1, <3>2, <3>4
      <4>2. /\ \A n \in 1..Len(t) : t[n].seq <= k
            /\ \A n \in 1..Len(t) : t[n].seq <= k + 1
        BY <2>1, <3>2, <3>4 DEF Numbered
      <4>3. Unacked(t, k) = <<>> /\ Unacked(t, k + 1) = <<>>
        <5>1. k + 1 \in Int
          OBVIOUS
        <5> QED
          BY <2>1, <4>2, <5>1, UnackedNone
      <4>4. Total(Unacked(u, k), Step) = Total(Unacked(t, k), Step) + Far(Step, e)
        BY <2>2, <2>4, <4>1
      <4>5. Unacked(u, k + 1) = Unacked(t, k)
        BY <2>2, <4>1, <4>3
      <4> QED
        BY <4>1, <4>4, <4>5
    <3> QED
      BY <2>1, <2>5, <3>3, <3>4
  <2>6. Fits(u)
    BY <2>5
  <2> QED
    BY <2>1, <2>6 DEF u
<1>3. T = Seq(Inputs)
  <2> HIDE DEF T
  <2>1. T \in SUBSET Seq(Inputs)
    BY DEF T
  <2> QED
    BY <1>1, <1>2, <2>1, InductSeq
<1>4. s \in T
  <2> HIDE DEF T
  <2> QED
    BY <1>3
<1>5. Fits(s)
  BY <1>4
<1> QED
  BY <1>5

\* Every step of the player's system keeps the types.
LEMMA PlayerTypeStep == PlayerTypeOK /\ [PlayerNext]_allVars => PlayerTypeOK'
<1> SUFFICES ASSUME PlayerTypeOK, [PlayerNext]_allVars PROVE PlayerTypeOK'
  OBVIOUS
<1> USE PlayerAssumption DEF PlayerTypeOK
<1>1. ASSUME NEW key \in Keys, NEW yaw \in Headings, CaptureInput(key, yaw) PROVE PlayerTypeOK'
  <2>1. cur' \in Inputs /\ cur' \in [seq : Nat, key : Keys, yaw : Headings]
    BY <1>1 DEF CaptureInput, Inputs
  <2>2. pending' \in Seq(Inputs) /\ toServer' \in SUBSET [seq : Nat, key : Keys, yaw : Headings]
    BY <1>1, <2>1 DEF CaptureInput
  <2> QED
    BY <1>1, <2>1, <2>2 DEF CaptureInput
<1>2. CASE ApplyInput
  <2>1. cur.key \in Keys
    BY <1>2 DEF ApplyInput, Inputs
  <2>2. render + Step[heading][cur.key] \in Int
    BY <2>1, StepsAre
  <2>3. render' \in Int /\ at' = "idle"
    BY <1>2, <2>2 DEF ApplyInput
  <2> QED
    BY <1>2, <2>3 DEF ApplyInput, netVars
<1>3. ASSUME NEW h \in Headings, SpawnPlayer(h) PROVE PlayerTypeOK'
  <2>1. pending' \in Seq(Inputs) /\ lives' \in Nat /\ position' \in Int /\ heading' \in Headings
    BY <1>3 DEF SpawnPlayer
  <2>2. troubles' \subseteq {"respawned", "stale", "lost", "skipped"}
    BY <1>3 DEF SpawnPlayer
  <2>3. at' = "idle" /\ render' = 0 /\ lastSeq' = 0
    BY <1>3 DEF SpawnPlayer
  <2>4. /\ recon' = recon /\ ack' = ack /\ seen' = seen
        /\ toServer' = toServer /\ server' = server /\ syncs' = syncs
    BY <1>3 DEF SpawnPlayer, netVars
  <2>5. synced' \in BOOLEAN
    BY <1>3, Zenon DEF SpawnPlayer
  <2> QED
    BY <2>1, <2>2, <2>3, <2>4, <2>5
<1>4. ASSUME NEW s \in syncs, Reconcile(s) PROVE PlayerTypeOK'
  <2>1. s.pos \in Int /\ s.last \in Int /\ s.heading \in Headings
    OBVIOUS
  <2>2. Total(Unacked(pending, s.last), Steady(s.heading)) \in Int
    BY <2>1, StepsAre, UnackedType, TotalType
  <2>3. Smooth(render, s.pos) \in Int
    BY <2>1 DEF Smooth
  <2>4. Len(pending) \in Nat
    OBVIOUS
  <2>5. render' \in Int
    BY <1>4, <2>2, <2>3 DEF Reconcile
  <2> QED
    BY <1>4, <2>1, <2>4, <2>5 DEF Reconcile, netVars
<1>5. CASE EraseAcked
  <2>1. Unacked(pending, ack) \in Seq(Inputs)
    BY UnackedType
  <2>2. Len(pending) > seen => Unacked(SubSeq(pending, 1, seen), ack) \in Seq(Inputs)
    <3>1. Len(pending) > seen => SubSeq(pending, 1, seen) \in Seq(Inputs)
      OBVIOUS
    <3> QED
      BY <3>1, UnackedType
  <2>3. pending' \in Seq(Inputs)
    BY <1>5, <2>1, <2>2 DEF EraseAcked
  <2> QED
    BY <1>5, <2>3 DEF EraseAcked, netVars
<1>6. ASSUME NEW i \in toServer, ServerMove(i) PROVE PlayerTypeOK'
  <2>1. i.seq \in Nat /\ Step[i.yaw][i.key] \in Int
    BY StepsAre
  <2>2. server' \in [pos : Int, last : Int]
    BY <1>6, <2>1 DEF ServerMove
  <2> QED
    BY <1>6, <2>2 DEF ServerMove, playerVars, threadVars
<1>7. ASSUME NEW h \in Headings, ServerSync(h) PROVE PlayerTypeOK'
  <2>1. [pos |-> server.pos, last |-> server.last, heading |-> h]
          \in [pos : Int, last : Int, heading : Headings]
    OBVIOUS
  <2> QED
    BY <1>7, <2>1 DEF ServerSync, playerVars, threadVars
<1>8. CASE UNCHANGED allVars
  BY <1>8 DEF allVars, playerVars, threadVars, netVars
<1> QED
  BY <1>1, <1>2, <1>3, <1>4, <1>5, <1>6, <1>7, <1>8 DEF PlayerNext

\* Smoothing leaves half of the distance, or half of one unit more, or nothing.
LEMMA SmoothIsSmall ==
    ASSUME NEW from \in Int, NEW to \in Int
    PROVE  Smooth(from, to) \in Int /\ Smooth(from, to) - to \in Int /\ Small(Smooth(from, to) - to)
<1> DEFINE half == (from + to) \div 2
<1>1. half \in Int /\ 2 * half <= from + to /\ from + to < 2 * half + 2
  OBVIOUS
<1> HIDE DEF half
<1>2. CASE Distance(from, to) > Threshold
  <2>1. Smooth(from, to) = to /\ to - to = 0
    BY <1>2 DEF Smooth
  <2> QED
    BY <2>1, PlayerAssumption DEF Small, Distance
<1>3. CASE ~(Distance(from, to) > Threshold)
  <2>1. Smooth(from, to) = half
    BY <1>3 DEF Smooth, half
  <2>2. 2 * Distance(half - to, 0) <= Threshold + 1
    BY <1>1, <1>3, PlayerAssumption DEF Distance
  <2> QED
    BY <1>1, <2>1, <2>2 DEF Small
<1> QED
  BY <1>2, <1>3

\* An input that is the first to come while Reconcile holds the lock.
LEMMA LastOfPending ==
    ASSUME PlayerTypeOK, ErasingInv, recon = "erase"
    PROVE  LET known == SubSeq(pending, 1, seen)
           IN  /\ known \in Seq(Inputs) /\ Unacked(known, ack) \in Seq(Inputs)
               /\ pending = known \/ (pending = Append(known, cur) /\ at = "apply" /\ cur \in Inputs)
<1> DEFINE known == SubSeq(pending, 1, seen)
<1>1. pending \in Seq(Inputs) /\ seen \in Nat /\ (at = "apply" => cur \in Inputs)
  BY DEF PlayerTypeOK
<1>2. /\ seen <= Len(pending)
      /\ Len(pending) # seen =>
           Len(pending) = seen + 1 /\ pending[seen + 1] = cur /\ at = "apply"
  BY DEF ErasingInv
<1>3. known \in Seq(Inputs) /\ Len(known) = seen /\ \A i \in 1..seen : known[i] = pending[i]
  BY <1>1, <1>2
<1> HIDE DEF known
<1>4. CASE Len(pending) = seen
  BY <1>1, <1>3, <1>4, SeqEqual, UnackedType DEF known
<1>5. CASE Len(pending) # seen
  <2> DEFINE longer == Append(known, cur)
  <2>1. /\ longer \in Seq(Inputs) /\ Len(longer) = seen + 1 /\ longer[seen + 1] = cur
        /\ \A i \in 1..seen : longer[i] = pending[i]
    BY <1>1, <1>2, <1>3, <1>5
  <2> HIDE DEF longer
  <2>2. ASSUME NEW i \in 1..Len(pending) PROVE pending[i] = longer[i]
    <3>1. i = seen + 1 \/ i \in 1..seen
      BY <1>1, <1>2, <1>5
    <3> QED
      BY <1>2, <1>5, <2>1, <3>1
  <2>3. pending = longer
    BY <1>1, <1>2, <1>5, <2>1, <2>2, SeqEqual
  <2> QED
    BY <1>1, <1>2, <1>3, <1>5, <2>3, UnackedType DEF known, longer
<1> QED
  BY <1>4, <1>5

\* Every step keeps the displayed position where TrackInv says.
LEMMA TrackStep ==
    PlayerTypeOK /\ TrackInv /\ ErasingInv /\ [PlayerNext]_allVars => TrackInv'
<1> SUFFICES ASSUME PlayerTypeOK, TrackInv, ErasingInv, [PlayerNext]_allVars PROVE TrackInv'
  OBVIOUS
<1>1. /\ position \in Int /\ render \in Int /\ pending \in Seq(Inputs) /\ heading \in Headings
      /\ Steady(heading) \in Tables /\ Total(pending, Steady(heading)) \in Int
      /\ Strides \subseteq Int
  BY StepsAre, TotalType DEF PlayerTypeOK, Strides
<1>2. Due \in Strides /\ Due \in Int
  <2>1. at = "apply" => cur.key \in Keys
    BY DEF PlayerTypeOK, Inputs
  <2> QED
    BY <1>1, <2>1 DEF Due, Strides
<1>3. ASSUME NEW key \in Keys, NEW yaw \in Headings, CaptureInput(key, yaw) PROVE TrackInv'
  <2>1. Keys # {}
    OBVIOUS
  <2>2. ASSUME synced, recon = "no"
        PROVE  \E e \in Int, x \in Strides : Small(e) /\ render' = Predicted' + e + x - Due'
    <3>1. PICK e \in Int, x \in Strides : Small(e) /\ render = Predicted + e + x - Due
      BY <2>2 DEF TrackInv
    <3>2. Due = 0
      BY <1>3 DEF CaptureInput, Due
    <3>3. cur' \in Inputs /\ cur'.key = key
      BY <1>3 DEF CaptureInput, PlayerTypeOK, Inputs
    <3>4. Due' = Step[heading][key] /\ Due' = Far(Steady(heading), cur') /\ Due' \in Int
      BY <1>1, <1>3, <3>3, StepsAre DEF CaptureInput, Due
    <3>5. Total(pending', Steady(heading)) = Total(pending, Steady(heading)) + Due'
      BY <1>1, <1>3, <3>3, <3>4, TotalAppend DEF CaptureInput
    <3>6. position' = position /\ render' = render /\ heading' = heading
      BY <1>3 DEF CaptureInput
    <3>7. Predicted' = position + Total(pending', Steady(heading))
      BY <3>6 DEF Predicted
    <3>8. render' = Predicted' + e + x - Due'
      <4> DEFINE far == Total(pending, Steady(heading))
                 owing == Due'
      <4>1. render = position + far + e + x - 0 /\ far \in Int /\ owing \in Int /\ x \in Int
        BY <1>1, <3>1, <3>2, <3>4 DEF Predicted
      <4>2. Predicted' = position + (far + owing)
        BY <3>5, <3>7
      <4> HIDE DEF far, owing
      <4>3. render = position + (far + owing) + e + x - owing
        BY <1>1, <4>1
      <4> QED
        BY <3>6, <4>2, <4>3 DEF owing
    <3> QED
      BY <3>1, <3>8
  <2>3. synced' = synced /\ recon' = recon /\ Strides' = Strides
    BY <1>3 DEF CaptureInput, Strides
  <2> QED
    BY <2>1, <2>2, <2>3 DEF TrackInv
<1>4. CASE ApplyInput
  <2>1. server' = server /\ syncs' = syncs /\ synced' = synced /\ Strides' = Strides
    BY <1>4 DEF ApplyInput, netVars, Strides
  <2>2. ASSUME synced
        PROVE  \E e \in Int, x \in Strides : Small(e) /\ render' = Predicted' + e + x - Due'
    <3>1. PICK e \in Int, x \in Strides : Small(e) /\ render = Predicted + e + x - Due
      BY <1>4, <2>2 DEF TrackInv, ApplyInput
    <3>2. Due' = 0 /\ render' = render + Due /\ Predicted' = Predicted
      BY <1>4 DEF ApplyInput, Predicted, Due
    <3>3. x \in Int /\ Predicted \in Int
      BY <1>1 DEF Predicted
    <3>4. render' = Predicted' + e + x - Due'
      BY <1>1, <1>2, <3>1, <3>2, <3>3
    <3> QED
      BY <3>1, <3>4
  <2> QED
    BY <2>1, <2>2 DEF TrackInv
<1>5. ASSUME NEW h \in Headings, SpawnPlayer(h) PROVE TrackInv'
  BY <1>5 DEF SpawnPlayer, netVars, TrackInv
<1>6. ASSUME NEW s \in syncs, Reconcile(s) PROVE TrackInv'
  BY <1>6 DEF Reconcile, netVars, TrackInv
<1>7. CASE EraseAcked
  <2> DEFINE left == Unacked(SubSeq(pending, 1, seen), ack)
  <2>1. PICK e \in Int : Small(e) /\ render = position + e + Total(left, Steady(heading))
    BY <1>7 DEF EraseAcked, ErasingInv
  <2>2. left \in Seq(Inputs) /\ Total(left, Steady(heading)) \in Int
    BY <1>1, <1>7, LastOfPending, TotalType DEF EraseAcked
  <2>3. pending' = left \/ (pending' = Append(left, cur) /\ at = "apply" /\ cur \in Inputs)
    <3>1. pending' = Unacked(pending, ack) \/ pending' = left
      BY <1>7 DEF EraseAcked
    <3>2. \/ pending = SubSeq(pending, 1, seen)
          \/ pending = Append(SubSeq(pending, 1, seen), cur) /\ at = "apply" /\ cur \in Inputs
      BY <1>7, LastOfPending DEF EraseAcked
    <3>3. cur \in Inputs => Unacked(Append(SubSeq(pending, 1, seen), cur), ack) \in {left, Append(left, cur)}
      <4>1. SubSeq(pending, 1, seen) \in Seq(Inputs)
        BY <1>7, LastOfPending DEF EraseAcked
      <4> QED
        BY <4>1, UnackedAppend
    <3> HIDE DEF left
    <3>4. CASE pending = SubSeq(pending, 1, seen)
      BY <3>1, <3>4 DEF left
    <3>5. CASE pending = Append(SubSeq(pending, 1, seen), cur) /\ at = "apply" /\ cur \in Inputs
      BY <3>1, <3>3, <3>5
    <3> QED
      BY <3>2, <3>4, <3>5
  <2> HIDE DEF left
  <2>4. /\ position' = position /\ render' = render /\ cur' = cur /\ at' = at /\ heading' = heading
        /\ server' = server /\ syncs' = syncs /\ synced' = synced
    BY <1>7 DEF EraseAcked, netVars
  <2>5. synced
    BY <1>7 DEF EraseAcked, ErasingInv
  <2>6. \E x \in Strides : render' = Predicted' + e + x - Due'
    <3>1. Due' = Due /\ 0 \in Strides
      BY <2>4 DEF Due, Strides
    <3>2. CASE pending' = left
      <4>1. Predicted' = position + Total(left, Steady(heading))
        BY <2>4, <3>2 DEF Predicted
      <4> DEFINE far == Total(left, Steady(heading))
      <4>2. far \in Int /\ render = position + e + far
        BY <2>1, <2>2
      <4> HIDE DEF far
      <4>3. render = position + far + e + Due - Due
        BY <1>1, <1>2, <4>2
      <4>4. render' = Predicted' + e + Due - Due'
        BY <2>4, <3>1, <4>1, <4>3 DEF far
      <4> QED
        BY <1>2, <4>4
    <3>3. CASE pending' = Append(left, cur) /\ at = "apply" /\ cur \in Inputs
      <4>1. Due = Far(Steady(heading), cur)
        BY <1>1, <3>3, StepsAre DEF Due
      <4>2. Total(pending', Steady(heading)) = Total(left, Steady(heading)) + Due
        BY <1>1, <2>2, <3>3, <4>1, TotalAppend
      <4>3. Predicted' = position + Total(pending', Steady(heading))
        BY <2>4 DEF Predicted
      <4> DEFINE far == Total(left, Steady(heading))
      <4>4. far \in Int /\ render = position + e + far /\ Predicted' = position + (far + Due)
        BY <2>1, <2>2, <4>2, <4>3
      <4> HIDE DEF far
      <4>5. render = position + (far + Due) + e + 0 - Due
        BY <1>1, <1>2, <4>4
      <4>6. render' = Predicted' + e + 0 - Due'
        BY <2>4, <3>1, <4>4, <4>5
      <4> QED
        BY <3>1, <4>6
    <3> QED
      BY <2>3, <3>2, <3>3
  <2>7. server.last >= 0 \/ syncs # {} \/ synced => Keys # {}
    BY DEF TrackInv
  <2>8. Strides' = Strides
    BY <2>4 DEF Strides
  <2> QED
    BY <2>1, <2>4, <2>5, <2>6, <2>7, <2>8 DEF TrackInv
<1>8. ASSUME NEW i \in toServer, ServerMove(i) PROVE TrackInv'
  <2>1. Keys # {}
    BY DEF PlayerTypeOK
  <2>2. /\ position' = position /\ render' = render /\ cur' = cur /\ pending' = pending
        /\ recon' = recon /\ synced' = synced /\ heading' = heading /\ at' = at
    BY <1>8 DEF ServerMove, playerVars, threadVars
  <2> QED
    BY <2>1, <2>2 DEF TrackInv, Predicted, Due, Strides
<1>9. ASSUME NEW h \in Headings, ServerSync(h) PROVE TrackInv'
  <2>1. Keys # {}
    BY <1>9 DEF ServerSync, TrackInv
  <2>2. /\ position' = position /\ render' = render /\ cur' = cur /\ pending' = pending
        /\ recon' = recon /\ synced' = synced /\ heading' = heading /\ at' = at
    BY <1>9 DEF ServerSync, playerVars, threadVars
  <2> QED
    BY <2>1, <2>2 DEF TrackInv, Predicted, Due, Strides
<1>10. CASE UNCHANGED allVars
  BY <1>10 DEF allVars, playerVars, threadVars, netVars, TrackInv, Predicted, Due, Strides
<1> QED
  BY <1>3, <1>4, <1>5, <1>6, <1>7, <1>8, <1>9, <1>10 DEF PlayerNext

\* Every step keeps what is known while Reconcile holds the lock.
LEMMA ErasingStep ==
    PlayerTypeOK /\ ErasingInv /\ [PlayerNext]_allVars => ErasingInv'
<1> SUFFICES ASSUME PlayerTypeOK, ErasingInv, [PlayerNext]_allVars, recon' = "erase"
             PROVE  ErasingInv'
  BY DEF ErasingInv
<1>1. pending \in Seq(Inputs) /\ Len(pending) \in Nat /\ seen \in Nat
  BY DEF PlayerTypeOK
<1>2. ASSUME NEW key \in Keys, NEW yaw \in Headings, CaptureInput(key, yaw) PROVE ErasingInv'
  <2>1. cur' \in Inputs
    BY <1>2, PlayerAssumption DEF CaptureInput, PlayerTypeOK, Inputs
  <2>2. /\ recon = "erase" /\ at = "idle" /\ pending' = Append(pending, cur') /\ at' = "apply"
        /\ seen' = seen /\ ack' = ack /\ position' = position /\ render' = render
        /\ synced' = synced /\ heading' = heading
    BY <1>2 DEF CaptureInput
  <2>3. Len(pending) = seen /\ synced
    BY <2>2 DEF ErasingInv
  <2>4. Len(pending') = seen + 1 /\ pending'[seen + 1] = cur'
    BY <1>1, <2>1, <2>2, <2>3
  <2>5. SubSeq(pending', 1, seen) = SubSeq(pending, 1, seen)
    BY <1>1, <2>1, <2>2, <2>3
  <2>6. \E e \in Int :
          /\ Small(e)
          /\ render = position + e + Total(Unacked(SubSeq(pending, 1, seen), ack), Steady(heading))
    BY <2>2 DEF ErasingInv
  <2>7. SubSeq(pending', 1, seen') = SubSeq(pending, 1, seen)
    BY <2>2, <2>5
  <2>8. \E e \in Int :
          /\ Small(e)
          /\ render' = position' + e
                         + Total(Unacked(SubSeq(pending', 1, seen'), ack'), Steady(heading'))
    BY <2>2, <2>6, <2>7
  <2>9. Len(pending') = seen' + 1 /\ pending'[seen' + 1] = cur' /\ seen' <= Len(pending')
    BY <1>1, <2>2, <2>4
  <2> QED
    BY <2>2, <2>3, <2>8, <2>9 DEF ErasingInv
<1>3. CASE ApplyInput
  BY <1>3 DEF ApplyInput
<1>4. ASSUME NEW h \in Headings, SpawnPlayer(h) PROVE ErasingInv'
  BY <1>4 DEF SpawnPlayer
<1>5. ASSUME NEW s \in syncs, Reconcile(s) PROVE ErasingInv'
  <2>1. s.pos \in Int /\ s.last \in Int /\ s.heading \in Headings /\ render \in Int
    BY DEF PlayerTypeOK
  <2> DEFINE e == Smooth(render, s.pos) - s.pos
  <2>2. e \in Int /\ Small(e) /\ Smooth(render, s.pos) \in Int
    BY <2>1, SmoothIsSmall
  <2>3. /\ position' = s.pos /\ ack' = s.last /\ seen' = Len(pending) /\ pending' = pending
        /\ synced' /\ heading' = s.heading
        /\ render' = Smooth(render, s.pos) + Total(Unacked(pending, s.last), Steady(s.heading))
    BY <1>5 DEF Reconcile
  <2>4. Total(Unacked(pending, s.last), Steady(s.heading)) \in Int
    BY <1>1, <2>1, StepsAre, UnackedType, TotalType
  <2>5. SubSeq(pending', 1, seen') = pending
    BY <1>1, <2>3
  <2>6. render' = position' + e
                   + Total(Unacked(SubSeq(pending', 1, seen'), ack'), Steady(heading'))
    <3>1. Unacked(SubSeq(pending', 1, seen'), ack') = Unacked(pending, s.last)
      BY <2>3, <2>5
    <3>2. s.pos + e = Smooth(render, s.pos)
      BY <2>1, <2>2
    <3> HIDE DEF e
    <3> QED
      BY <2>2, <2>3, <2>4, <3>1, <3>2
  <2> HIDE DEF e
  <2> QED
    BY <1>1, <2>2, <2>3, <2>6 DEF ErasingInv
<1>6. CASE EraseAcked
  BY <1>6 DEF EraseAcked
<1>7. ASSUME NEW i \in toServer, ServerMove(i) PROVE ErasingInv'
  BY <1>7 DEF ServerMove, playerVars, threadVars, ErasingInv
<1>8. ASSUME NEW h \in Headings, ServerSync(h) PROVE ErasingInv'
  BY <1>8 DEF ServerSync, playerVars, threadVars, ErasingInv
<1>9. CASE UNCHANGED allVars
  BY <1>9 DEF allVars, playerVars, threadVars, netVars, ErasingInv
<1> QED
  BY <1>2, <1>3, <1>4, <1>5, <1>6, <1>7, <1>8, <1>9 DEF PlayerNext

\* Nothing that has gone wrong is forgotten.
LEMMA TroublesStay == [PlayerNext]_allVars => troubles \subseteq troubles'
BY DEF PlayerNext, CaptureInput, ApplyInput, SpawnPlayer, Reconcile, EraseAcked, ServerMove,
       ServerSync, allVars, netVars

\* InOrder is the sequence of the inputs that were sent, each in its place.
InPlace ==
    /\ InOrder \in Seq(Inputs) /\ Len(InOrder) = lastSeq /\ Numbered(InOrder)
    /\ \A i \in toServer : i.seq + 1 \in 1..lastSeq /\ InOrder[i.seq + 1] = i

\* It is, as long as nothing has gone wrong.
LEMMA InOrderIs == PlayerTypeOK /\ SentInv => InPlace
<1> SUFFICES ASSUME PlayerTypeOK, SentInv PROVE InPlace
  OBVIOUS
<1>1. lastSeq \in Nat /\ toServer \subseteq Inputs /\ \A i \in toServer : i.seq \in Nat
  <2>1. ASSUME NEW i \in [seq : Nat, key : Keys, yaw : Headings] PROVE i \in Inputs /\ i.seq \in Nat
    BY DEF Inputs
  <2> QED
    BY <2>1 DEF PlayerTypeOK
<1>2. ASSUME NEW n \in 1..lastSeq
      PROVE  InOrder[n] \in toServer /\ InOrder[n].seq = n - 1
  <2>1. \E i \in toServer : i.seq = n - 1
    BY <1>2 DEF SentInv
  <2>2. InOrder[n] = CHOOSE i \in toServer : i.seq = n - 1
    BY <1>2 DEF InOrder
  <2> QED
    BY <2>1, <2>2
<1>3. InOrder = [n \in 1..lastSeq |-> InOrder[n]]
  BY DEF InOrder
<1>4. InOrder \in [1..lastSeq -> Inputs]
  BY <1>1, <1>2, <1>3
<1>5. InOrder \in Seq(Inputs) /\ Len(InOrder) = lastSeq
  BY <1>1, <1>4
<1>6. ASSUME NEW i \in toServer PROVE i.seq + 1 \in 1..lastSeq /\ InOrder[i.seq + 1] = i
  <2>1. i.seq \in Nat /\ i.seq < lastSeq
    BY <1>1 DEF SentInv
  <2>2. i.seq + 1 \in 1..lastSeq
    BY <1>1, <2>1
  <2>3. InOrder[i.seq + 1] \in toServer /\ InOrder[i.seq + 1].seq = i.seq
    BY <1>2, <2>1, <2>2
  <2> QED
    BY <2>2, <2>3 DEF SentInv
<1> QED
  BY <1>2, <1>5, <1>6 DEF Numbered, InPlace

\* A captured input comes last, whichever of the others are left.
LEMMA CaptureInOrder ==
    ASSUME PlayerTypeOK, SentInv, NEW key \in Keys, NEW yaw \in Headings, CaptureInput(key, yaw)
    PROVE  /\ SentInv'
           /\ \A last \in Int :
                last < lastSeq => Unacked(InOrder', last) = Append(Unacked(InOrder, last), cur')
<1>1. /\ cur' = [seq |-> lastSeq, key |-> key, yaw |-> yaw] /\ lastSeq' = lastSeq + 1
      /\ toServer' = toServer \union {cur'}
      /\ lives > 0 /\ lives' = lives /\ server' = server /\ syncs' = syncs /\ ack' = ack
  BY DEF CaptureInput
<1>2. /\ lastSeq \in Nat /\ cur' \in Inputs /\ cur'.seq = lastSeq /\ lives \in Nat
      /\ \A i \in toServer : i.seq \in Nat
      /\ server.last \in Int /\ ack \in Int /\ \A s \in syncs : s.last \in Int
  BY <1>1, PlayerAssumption DEF PlayerTypeOK, Inputs
<1>3. SentInv'
  <2>1. \A i \in toServer : i.seq < lastSeq
    BY DEF SentInv
  <2>2. \A i \in toServer' : i.seq < lastSeq'
    BY <1>1, <1>2, <2>1
  <2>3. ASSUME NEW n \in 1..lastSeq' PROVE \E i \in toServer' : i.seq = n - 1
    <3>1. CASE n = lastSeq + 1
      BY <1>1, <1>2, <3>1
    <3>2. CASE n \in 1..lastSeq
      <4>1. \E i \in toServer : i.seq = n - 1
        BY <3>2 DEF SentInv
      <4> QED
        BY <1>1, <4>1
    <3> QED
      BY <1>1, <1>2, <3>1, <3>2
  <2>4. ASSUME NEW i \in toServer', NEW k \in toServer', i.seq = k.seq PROVE i = k
    <3>1. CASE i \in toServer /\ k \in toServer
      BY <2>4, <3>1 DEF SentInv
    <3>2. CASE i \notin toServer /\ k \notin toServer
      BY <1>1, <3>2
    <3>3. CASE i \in toServer /\ k \notin toServer
      BY <1>1, <1>2, <2>1, <2>4, <3>3
    <3>4. CASE i \notin toServer /\ k \in toServer
      BY <1>1, <1>2, <2>1, <2>4, <3>4
    <3> QED
      BY <3>1, <3>2, <3>3, <3>4
  <2>5. server'.last < lastSeq' /\ ack' < lastSeq' /\ \A s \in syncs' : s.last < lastSeq'
    <3>1. server.last < lastSeq /\ ack < lastSeq /\ \A s \in syncs : s.last < lastSeq
      BY DEF SentInv
    <3> QED
      BY <1>1, <1>2, <3>1
  <2>6. lives' <= 1 /\ ~(lives' = 0)
    BY <1>1, <1>2 DEF SentInv
  <2> QED
    BY <2>2, <2>3, <2>4, <2>5, <2>6 DEF SentInv
<1>4. PlayerTypeOK'
  BY PlayerTypeStep DEF PlayerNext
<1> DEFINE longer == Append(InOrder, cur')
<1>5. /\ InOrder \in Seq(Inputs) /\ Len(InOrder) = lastSeq
      /\ \A i \in toServer : i.seq + 1 \in 1..lastSeq /\ InOrder[i.seq + 1] = i
      /\ Numbered(InOrder)
  BY InOrderIs DEF InPlace
<1>6. /\ InOrder' \in Seq(Inputs) /\ Len(InOrder') = lastSeq'
      /\ \A i \in toServer' : InOrder'[i.seq + 1] = i
  <2>1. InPlace'
    BY <1>3, <1>4, InOrderIs, PTL
  <2> QED
    BY <2>1 DEF InPlace
<1>7. /\ longer \in Seq(Inputs) /\ Len(longer) = lastSeq + 1 /\ longer[lastSeq + 1] = cur'
      /\ \A n \in 1..lastSeq : longer[n] = InOrder[n]
  BY <1>2, <1>5
<1>8. ASSUME NEW n \in 1..Len(InOrder') PROVE InOrder'[n] = longer[n]
  <2>1. n = lastSeq + 1 \/ n \in 1..lastSeq
    BY <1>1, <1>2, <1>6
  <2>2. CASE n = lastSeq + 1
    <3>1. InOrder'[cur'.seq + 1] = cur'
      BY <1>1, <1>6
    <3> QED
      BY <1>2, <1>7, <2>2, <3>1
  <2>3. CASE n \in 1..lastSeq
    <3>1. PICK i \in toServer : i.seq = n - 1
      BY <2>3 DEF SentInv
    <3>2. i.seq + 1 = n
      BY <1>2, <3>1, <2>3
    <3>3. InOrder[n] = i /\ InOrder'[n] = i
      BY <1>1, <1>5, <1>6, <3>2
    <3> QED
      BY <1>7, <2>3, <3>3
  <2> QED
    BY <2>1, <2>2, <2>3
<1>9. InOrder' = longer
  <2> HIDE DEF longer
  <2>1. Len(InOrder') = Len(longer)
    BY <1>1, <1>6, <1>7
  <2> QED
    BY <1>6, <1>7, <1>8, <2>1, SeqEqual
<1>10. ASSUME NEW last \in Int, last < lastSeq
       PROVE  Unacked(InOrder', last) = Append(Unacked(InOrder, last), cur')
  <2>1. Unacked(longer, last) = IF cur'.seq > last THEN Append(Unacked(InOrder, last), cur')
                                                   ELSE Unacked(InOrder, last)
    BY <1>2, <1>5, UnackedAppend
  <2> QED
    BY <1>2, <1>9, <1>10, <2>1
<1> QED
  BY <1>3, <1>10

\* As long as nothing goes wrong, every step keeps that the corrections, the player
\* and the server agree.
LEMMA OrderStep ==
    PlayerTypeOK /\ OrderInv /\ [PlayerNext]_allVars => OrderInv'
<1> SUFFICES ASSUME PlayerTypeOK, OrderInv, [PlayerNext]_allVars, troubles' = {}
             PROVE  SentInv' /\ AgreeInv'
  BY DEF OrderInv
<1>1. troubles = {} /\ SentInv /\ AgreeInv
  <2>1. troubles = {}
    BY TroublesStay
  <2> QED
    BY <2>1 DEF OrderInv
<1>2. /\ InOrder \in Seq(Inputs) /\ Len(InOrder) = lastSeq /\ Numbered(InOrder)
      /\ \A i \in toServer : i.seq + 1 \in 1..lastSeq /\ InOrder[i.seq + 1] = i
  BY <1>1, InOrderIs DEF InPlace
<1>3. /\ lives \in Nat /\ lastSeq \in Nat /\ position \in Int /\ pending \in Seq(Inputs)
      /\ ack \in Int /\ server.pos \in Int /\ server.last \in Int
      /\ \A s \in syncs : s.pos \in Int /\ s.last \in Int
  BY DEF PlayerTypeOK
<1>4. ASSUME NEW last \in Int
      PROVE  Unacked(InOrder, last) \in Seq(Inputs) /\ Total(Unacked(InOrder, last), Step) \in Int
  BY <1>2, StepsAre, UnackedType, TotalType
<1>5. ASSUME NEW key \in Keys, NEW yaw \in Headings, CaptureInput(key, yaw) PROVE SentInv' /\ AgreeInv'
  <2>1. /\ SentInv'
        /\ \A last \in Int :
             last < lastSeq => Unacked(InOrder', last) = Append(Unacked(InOrder, last), cur')
    BY <1>1, <1>5, CaptureInOrder
  <2>2. /\ pending' = Append(pending, cur') /\ cur' = [seq |-> lastSeq, key |-> key, yaw |-> yaw]
        /\ lives' = lives /\ server' = server /\ syncs' = syncs /\ ack' = ack
        /\ position' = position /\ recon' = recon
    BY <1>5 DEF CaptureInput
  <2>3. cur' \in Inputs /\ Far(Step, cur') \in Int
    BY <1>3, <2>2, StepsAre, FarType DEF Inputs
  <2>4. ASSUME NEW last \in Int, last < lastSeq
        PROVE  Total(Unacked(InOrder', last), Step) = Total(Unacked(InOrder, last), Step) + Far(Step, cur')
    BY <1>4, <2>1, <2>3, <2>4, StepsAre, TotalAppend
  <2>5. server.last < lastSeq /\ ack < lastSeq /\ \A s \in syncs : s.last < lastSeq
    BY <1>1 DEF SentInv
  <2>6. ASSUME NEW pos \in Int, NEW last \in Int, last < lastSeq, Agree(pos, last)
        PROVE  pos + Total(Unacked(InOrder', last), Step) = server'.pos + Total(Unacked(InOrder', server'.last), Step)
    <3>1. pos + Total(Unacked(InOrder, last), Step)
            = server.pos + Total(Unacked(InOrder, server.last), Step)
      BY <2>6 DEF Agree
    <3>2. /\ Total(Unacked(InOrder', last), Step) = Total(Unacked(InOrder, last), Step) + Far(Step, cur')
          /\ Total(Unacked(InOrder', server.last), Step)
               = Total(Unacked(InOrder, server.last), Step) + Far(Step, cur')
      BY <1>3, <2>4, <2>5, <2>6
    <3>3. /\ Total(Unacked(InOrder, last), Step) \in Int
          /\ Total(Unacked(InOrder, server.last), Step) \in Int
      BY <1>3, <1>4
    <3>4. server.pos \in Int /\ Far(Step, cur') \in Int /\ pos \in Int
      BY <1>3, <2>3
    <3>5. pos + Total(Unacked(InOrder', last), Step)
            = server.pos + Total(Unacked(InOrder', server.last), Step)
      BY <3>1, <3>2, <3>3, <3>4
    <3> QED
      BY <2>2, <3>5
  <2>7. \A s \in syncs' : Agree(s.pos, s.last)'
    BY <1>1, <1>3, <2>2, <2>5, <2>6 DEF AgreeInv, Agree
  <2>8. lives > 0 => Agree(position, ack)'
    BY <1>1, <1>3, <2>2, <2>5, <2>6 DEF AgreeInv, Agree
  <2>9. ASSUME lives > 0, recon = "no" PROVE pending' = Unacked(InOrder', ack')
    <3>1. pending = Unacked(InOrder, ack)
      BY <1>1, <2>9 DEF AgreeInv
    <3> QED
      BY <1>3, <2>1, <2>2, <2>5, <3>1
  <2>10. ASSUME lives > 0, recon = "erase"
         PROVE  \E a \in Int : a <= ack' /\ pending' = Unacked(InOrder', a)
    <3>1. PICK a \in Int : a <= ack /\ pending = Unacked(InOrder, a)
      BY <1>1, <2>10 DEF AgreeInv
    <3>2. a < lastSeq
      BY <1>3, <2>5, <3>1
    <3> QED
      BY <2>1, <2>2, <3>1, <3>2
  <2>11. server'.last >= -1
    BY <1>1, <2>2 DEF AgreeInv
  <2> QED
    BY <2>1, <2>2, <2>7, <2>8, <2>9, <2>10, <2>11 DEF AgreeInv
<1>6. ASSUME lives' = lives, lastSeq' = lastSeq, toServer' = toServer, server' = server,
             syncs' = syncs, position' = position, pending' = pending, ack' = ack, recon' = recon
      PROVE  SentInv' /\ AgreeInv'
  BY <1>1, <1>6 DEF SentInv, AgreeInv, Agree, InOrder
<1>7. CASE ApplyInput
  BY <1>6, <1>7 DEF ApplyInput, netVars
<1>8. ASSUME NEW h \in Headings, SpawnPlayer(h) PROVE SentInv' /\ AgreeInv'
  <2>1. /\ lives = 0 /\ lives' = 1 /\ lastSeq' = 0 /\ pending' = <<>> /\ position' = SpawnPosition
        /\ toServer' = toServer /\ server' = server /\ syncs' = syncs /\ recon' = recon
        /\ ack' = ack /\ recon = "no"
    <3>1. lives = 0
      <4>1. ~(lives > 0)
        BY <1>1, <1>8 DEF SpawnPlayer
      <4> QED
        BY <1>3, <4>1
    <3>2. lives' = lives + 1
      BY <1>8 DEF SpawnPlayer
    <3> QED
      BY <1>8, <3>1, <3>2 DEF SpawnPlayer, netVars
  <2>2. /\ lastSeq = 0 /\ ack = -1 /\ syncs = {} /\ server = [pos |-> SpawnPosition, last |-> -1]
    BY <1>1, <2>1 DEF SentInv
  <2>3. toServer = {}
    BY <1>2, <2>2
  <2>4. SentInv'
    BY <2>1, <2>2, <2>3 DEF SentInv
  <2>5. InOrder' = <<>>
    BY <2>1 DEF InOrder
  <2>6. Unacked(InOrder', ack') = <<>>
    BY <2>5, UnackedNil
  <2>7. Agree(position, ack)'
    BY <2>1, <2>2 DEF Agree
  <2>8. server'.last >= -1 /\ syncs' = {}
    BY <2>1, <2>2
  <2> QED
    BY <2>1, <2>4, <2>6, <2>7, <2>8 DEF AgreeInv
<1>9. ASSUME NEW s \in syncs, Reconcile(s) PROVE SentInv' /\ AgreeInv'
  <2>1. /\ lives > 0 /\ lives' = lives /\ lastSeq' = lastSeq /\ pending' = pending
        /\ toServer' = toServer /\ server' = server /\ syncs' = syncs
        /\ position' = s.pos /\ ack' = s.last /\ recon = "no" /\ recon' = "erase"
    BY <1>9 DEF Reconcile, netVars
  <2>2. ack <= s.last
    <3>1. s.last < ack => "stale" \in troubles'
      BY <1>9 DEF Reconcile
    <3> QED
      BY <1>3, <3>1
  <2>3. SentInv'
    BY <1>1, <1>3, <2>1 DEF SentInv
  <2>4. InOrder' = InOrder
    BY <2>1 DEF InOrder
  <2>5. Agree(s.pos, s.last) /\ pending = Unacked(InOrder, ack)
    BY <1>1, <2>1 DEF AgreeInv
  <2>6. Agree(position, ack)' /\ \A t \in syncs' : Agree(t.pos, t.last)'
    BY <1>1, <2>1, <2>4, <2>5 DEF Agree, AgreeInv
  <2>7. \E a \in Int : a <= ack' /\ pending' = Unacked(InOrder', a)
    BY <1>3, <2>1, <2>2, <2>4, <2>5
  <2>8. server'.last >= -1 /\ recon' # "no"
    BY <1>1, <2>1 DEF AgreeInv
  <2> QED
    BY <2>3, <2>6, <2>7, <2>8 DEF AgreeInv
<1>10. CASE EraseAcked
  <2>1. /\ recon = "erase" /\ recon' = "no" /\ ack' = ack /\ lives' = lives /\ lastSeq' = lastSeq
        /\ position' = position /\ toServer' = toServer /\ server' = server /\ syncs' = syncs
        /\ pending' = Unacked(pending, ack)
    BY <1>10 DEF EraseAcked, netVars
  <2>2. SentInv' /\ InOrder' = InOrder
    BY <1>1, <2>1 DEF SentInv, InOrder
  <2>3. lives > 0
    BY <1>1, <1>3, <2>1 DEF SentInv
  <2>4. PICK a \in Int : a <= ack /\ pending = Unacked(InOrder, a)
    BY <1>1, <2>1, <2>3 DEF AgreeInv
  <2>5. pending' = Unacked(InOrder', ack')
    BY <1>2, <1>3, <2>1, <2>2, <2>4, UnackedTwice
  <2>6. /\ Agree(position, ack) /\ server.last >= -1
        /\ \A s \in syncs : Agree(s.pos, s.last)
    BY <1>1, <2>3 DEF AgreeInv
  <2>7. /\ Agree(position, ack)' /\ server'.last >= -1
        /\ \A s \in syncs' : Agree(s.pos, s.last)'
    BY <2>1, <2>2, <2>6 DEF Agree
  <2> QED
    BY <2>1, <2>2, <2>5, <2>7 DEF AgreeInv
<1>11. ASSUME NEW i \in toServer, ServerMove(i) PROVE SentInv' /\ AgreeInv'
  <2>1. /\ lives' = lives /\ lastSeq' = lastSeq /\ pending' = pending /\ position' = position
        /\ toServer' = toServer /\ syncs' = syncs /\ recon' = recon /\ ack' = ack
        /\ server' = [pos |-> server.pos + Far(Step, i), last |-> i.seq]
    BY <1>11 DEF ServerMove, playerVars, threadVars, Far
  <2>2. i.seq \in Nat /\ Far(Step, i) \in Int
    BY StepsAre DEF PlayerTypeOK, Far
  <2>3. i.seq = server.last + 1
    <3>1. i.seq > server.last
      BY <1>11 DEF ServerMove
    <3>2. i.seq > server.last + 1 => "skipped" \in troubles'
      BY <1>11 DEF ServerMove
    <3>3. ~(i.seq > server.last + 1)
      BY <3>2
    <3> QED
      BY <1>3, <2>2, <3>1, <3>3
  <2>4. i.seq + 1 \in 1..lastSeq /\ InOrder[i.seq + 1] = i
    BY <1>2
  <2>5. server.last >= -1 /\ server.last + 2 <= Len(InOrder) /\ server.last + 2 = i.seq + 1
    BY <1>1, <1>2, <1>3, <2>2, <2>3, <2>4 DEF AgreeInv
  <2>6. Total(Unacked(InOrder, server.last), Step)
          = Total(Unacked(InOrder, server.last + 1), Step) + Far(Step, InOrder[server.last + 2])
    BY <1>2, <1>3, <2>5, NextUnacked
  <2>7. Total(Unacked(InOrder, server.last), Step) = Total(Unacked(InOrder, i.seq), Step) + Far(Step, i)
    BY <2>3, <2>4, <2>5, <2>6
  <2>8. server'.pos + Total(Unacked(InOrder, server'.last), Step)
          = server.pos + Total(Unacked(InOrder, server.last), Step)
    <3>1. /\ Total(Unacked(InOrder, i.seq), Step) \in Int
          /\ Total(Unacked(InOrder, server.last), Step) \in Int
      <4>1. i.seq \in Int
        BY <2>2
      <4> QED
        BY <1>3, <1>4, <4>1
    <3>2. server'.pos = server.pos + Far(Step, i) /\ server'.last = i.seq
      BY <2>1
    <3> QED
      BY <1>3, <2>2, <2>7, <3>1, <3>2
  <2>9. InOrder' = InOrder
    BY <2>1 DEF InOrder
  <2>10. lives # 0
    BY <1>1, <1>3, <2>4 DEF SentInv
  <2>11. SentInv'
    BY <1>1, <1>3, <2>1, <2>2, <2>4, <2>10 DEF SentInv
  <2>12. /\ \A s \in syncs : Agree(s.pos, s.last)
         /\ lives > 0 => Agree(position, ack)
    BY <1>1 DEF AgreeInv
  <2>13. /\ \A s \in syncs' : Agree(s.pos, s.last)'
         /\ lives' > 0 => Agree(position, ack)'
    BY <2>1, <2>8, <2>9, <2>12 DEF Agree
  <2>14. server'.last >= -1
    BY <2>1, <2>2
  <2> QED
    BY <1>1, <2>1, <2>9, <2>11, <2>13, <2>14 DEF AgreeInv
<1>12. ASSUME NEW h \in Headings, ServerSync(h) PROVE SentInv' /\ AgreeInv'
  <2> DEFINE sync == [pos |-> server.pos, last |-> server.last, heading |-> h]
  <2>1. /\ lives' = lives /\ lastSeq' = lastSeq /\ pending' = pending /\ position' = position
        /\ toServer' = toServer /\ server' = server /\ recon' = recon /\ ack' = ack
        /\ syncs' = syncs \union {sync} /\ server.last >= 0
    BY <1>12 DEF ServerSync, playerVars, threadVars
  <2>2. lives # 0
    BY <1>1, <2>1 DEF SentInv
  <2>3. SentInv'
    BY <1>1, <2>1, <2>2 DEF SentInv
  <2>4. InOrder' = InOrder
    BY <2>1 DEF InOrder
  <2>5. Agree(sync.pos, sync.last) /\ sync.last = server.last
    BY DEF Agree
  <2> HIDE DEF sync
  <2>6. \A s \in syncs' : Agree(s.pos, s.last)'
    BY <1>1, <2>1, <2>4, <2>5 DEF Agree, AgreeInv
  <2>7. lives' > 0 => Agree(position, ack)'
    BY <1>1, <2>1, <2>4 DEF Agree, AgreeInv
  <2> QED
    BY <1>1, <2>1, <2>3, <2>4, <2>6, <2>7 DEF AgreeInv
<1>13. CASE UNCHANGED allVars
  BY <1>6, <1>13 DEF allVars, playerVars, threadVars, netVars
<1> QED
  BY <1>5, <1>7, <1>8, <1>9, <1>10, <1>11, <1>12, <1>13 DEF PlayerNext

\* The inductive invariant of the player's system.
THEOREM PlayerInvariant == PlayerSpec => []PlayerInv
<1>1. PlayerInit => PlayerInv
  <2> SUFFICES ASSUME PlayerInit PROVE PlayerInv
    OBVIOUS
  <2> USE PlayerAssumption DEF PlayerInit
  <2>1. PlayerTypeOK
    <3>1. synced \in BOOLEAN
      BY Zenon
    <3> QED
      BY <3>1 DEF PlayerTypeOK
  <2>2. TrackInv /\ ErasingInv
    BY DEF TrackInv, ErasingInv
  <2>3. SentInv
    BY DEF SentInv
  <2>4. AgreeInv
    BY DEF AgreeInv
  <2> QED
    BY <2>1, <2>2, <2>3, <2>4 DEF PlayerInv, OrderInv
<1>2. PlayerInv /\ [PlayerNext]_allVars => PlayerInv'
  BY PlayerTypeStep, TrackStep, ErasingStep, OrderStep DEF PlayerInv
<1> QED
  BY <1>1, <1>2, PTL DEF PlayerSpec

\* The displayed position stays with the predicted one, whatever the interleaving
\* of Update and Reconcile, whatever heading a correction brings and whatever
\* becomes of the datagrams, for every table of steps, threshold and number of
\* inputs (Player.cpp 18-31, 62-97, 99-145).
THEOREM TracksPrediction == PlayerSpec => []DisplayTracksPrediction
<1>1. PlayerInv => DisplayTracksPrediction
  <2> SUFFICES ASSUME PlayerInv, synced, recon = "no"
               PROVE  \E m, n \in Keys :
                        2 * Distance(render, Predicted) <=
                          Threshold + 1 + 2 * (Distance(Step[heading][m], 0) + Distance(Step[heading][n], 0))
    BY DEF DisplayTracksPrediction
  <2>1. PICK e \in Int, x \in Strides : Small(e) /\ render = Predicted + e + x - Due
    BY DEF PlayerInv, TrackInv
  <2>2. PICK any \in Keys : TRUE
    BY DEF PlayerInv, TrackInv
  <2>3. heading \in Headings /\ position \in Int /\ Total(pending, Steady(heading)) \in Int
    BY StepsAre, TotalType DEF PlayerInv, PlayerTypeOK
  <2>4. PICK m \in Keys : x = Step[heading][m] \/ x = 0
    BY <2>1, <2>2 DEF Strides
  <2>5. PICK n \in Keys : Due = Step[heading][n] \/ Due = 0
    <3>1. at = "apply" => cur.key \in Keys
      BY DEF PlayerInv, PlayerTypeOK, Inputs
    <3> QED
      BY <2>2, <3>1 DEF Due
  <2> DEFINE c == Due
             p == Predicted
             k == Step[heading][m]
             l == Step[heading][n]
  <2>6. k \in Int /\ l \in Int /\ Threshold \in Nat /\ p \in Int
    BY <2>3, StepsAre, PlayerAssumption DEF Predicted
  <2>7. /\ 2 * Distance(e, 0) <= Threshold + 1 /\ render = p + e + x - c
        /\ (x = k \/ x = 0) /\ (c = l \/ c = 0)
    BY <2>1, <2>4, <2>5 DEF Small
  <2> HIDE DEF c, p, k, l
  <2>8. 2 * Distance(render, p) <= Threshold + 1 + 2 * (Distance(k, 0) + Distance(l, 0))
    BY <2>6, <2>7 DEF Distance
  <2> QED
    BY <2>8 DEF p, k, l
<1> QED
  BY <1>1, PlayerInvariant, PTL

\* The predicted position is where the server will put the player, if the inputs
\* still unacknowledged were given with the heading of the last correction, and as
\* long as no correction comes late, no input is lost and the player is spawned
\* once, for every table of steps and number of inputs (Player.cpp 22-29, 62-97,
\* 103-105, 138-144).
THEOREM PredictsTheServer == PlayerSpec => []PredictionIsServers
<1>1. PlayerInv => PredictionIsServers
  <2> SUFFICES ASSUME PlayerInv, lives > 0, recon = "no", troubles = {},
                      \A n \in 1..Len(pending) : pending[n].yaw = heading
               PROVE  Predicted = server.pos + Total(Unacked(InOrder, server.last), Step)
    BY DEF PredictionIsServers
  <2>1. Agree(position, ack) /\ pending = Unacked(InOrder, ack)
    BY DEF PlayerInv, OrderInv, AgreeInv
  <2>2. pending \in Seq(Inputs) /\ heading \in Headings
    BY DEF PlayerInv, PlayerTypeOK
  <2>3. Total(pending, Steady(heading)) = Total(pending, Step)
    BY <2>2, TotalSteady
  <2> QED
    BY <2>1, <2>3 DEF Predicted, Agree
<1> QED
  BY <1>1, PlayerInvariant, PTL

===============================================================================
