------------------------------- MODULE Player -------------------------------
(***************************************************************************)
(* The player's movement: the main thread predicts it from the input       *)
(* (Player::Update), the I/O thread corrects it by what the server says    *)
(* (Player::Reconcile).  Both change the displayed position under the      *)
(* player's lock; the list of unacknowledged inputs is appended to without *)
(* the lock.  Movement is along one line, in whole units.                  *)
(*                                                                         *)
(* How far a key takes the player in one logic tick depends on the way it  *)
(* looks and on its speed, its heading.  An input is sent with the yaw of  *)
(* the camera, and the server moves the player by that; the client goes by *)
(* the rotation and speed that the last correction brought, for the input  *)
(* it applies and for those it replays, and never looks at their yaw.      *)
(*                                                                         *)
(* Inputs and corrections travel as datagrams: they stay in a set and are  *)
(* received never, once or often.  The server takes an input that is newer *)
(* than those it has, moves the player by it, and reports the position and *)
(* the last input in it.                                                   *)
(***************************************************************************)
EXTENDS Integers, Sequences

CONSTANTS
    Keys,          \* the keys an input can have down
    Headings,      \* the rotations and speeds: _rotation.y with _moveSpeed
    Step,          \* the distance a key takes a player with a heading
    SpawnPosition, \* where the server puts the player
    Threshold,     \* SMOOTH_THRESHOLD
    MaxInputs,     \* bound: inputs of a Player
    MaxLives       \* bound: S_SPAWN_ACTORs that are handled

ASSUME PlayerAssumption ==
    /\ Step \in [Headings -> [Keys -> Int]] /\ SpawnPosition \in Int
    /\ Threshold \in Nat /\ MaxInputs \in Nat /\ MaxLives \in Nat

VARIABLES
    lives,     \* how many Players there have been: SetPlayer replaces the last
    position,  \* _position
    heading,   \* _rotation.y and _moveSpeed
    render,    \* _renderPosition
    pending,   \* _pendingInputs
    lastSeq,   \* _lastSequenceNumber
    at,        \* the main thread: "idle", or about to "apply" its input
    cur,       \* that input
    recon,     \* the I/O thread: "no", or at "erase" in Reconcile
    ack,       \* Reconcile's ackSequence
    seen,      \* the length of _pendingInputs that Reconcile goes by
    toServer,  \* the inputs sent
    server,    \* the server's position of the player and the last input in it
    syncs,     \* the S_SYNC_ACTORs sent: [pos, last, heading]
    synced,    \* history: this Player has been corrected once
    troubles   \* history: what has gone wrong

playerVars == <<lives, position, heading, render, pending, lastSeq>>
threadVars == <<at, cur, recon, ack, seen>>
netVars == <<toServer, server, syncs>>
allVars == <<playerVars, threadVars, netVars, synced, troubles>>

NoInput == [seq |-> -1]

\* The steps of a player that has heading h, whatever yaw an input was given with.
Steady(h) == [yaw \in Headings |-> Step[h]]

\* How far inputs go by steps, which take them by their yaw and their key.
Total(inputs, steps) ==
    LET sum[n \in 0..Len(inputs)] ==
            IF n = 0 THEN 0 ELSE sum[n - 1] + steps[inputs[n].yaw][inputs[n].key]
    IN  sum[Len(inputs)]

Distance(a, b) == IF a < b THEN b - a ELSE a - b

-------------------------------------------------------------------------------
(* The main thread: Player::Update *)

\* An input is numbered, appended to _pendingInputs and sent.
CaptureInput(key, yaw) ==
    /\ lives > 0
    /\ at = "idle"
    /\ lastSeq < MaxInputs
    /\ cur' = [seq |-> lastSeq, key |-> key, yaw |-> yaw]
    /\ lastSeq' = lastSeq + 1
    /\ pending' = Append(pending, cur')
    /\ toServer' = toServer \union {cur'}
    /\ at' = "apply"
    /\ UNCHANGED <<lives, position, heading, render, recon, ack, seen, server, syncs>>
    /\ UNCHANGED <<synced, troubles>>

\* ApplyInput, under the lock: the input's key, by the heading the player has now.
ApplyInput ==
    /\ at = "apply"
    /\ recon = "no"
    /\ render' = render + Step[heading][cur.key]
    /\ at' = "idle"
    /\ cur' = NoInput
    /\ UNCHANGED <<lives, position, heading, pending, lastSeq, recon, ack, seen, netVars>>
    /\ UNCHANGED <<synced, troubles>>

-------------------------------------------------------------------------------
(* The I/O thread *)

\* Handle_S_SPAWN_ACTOR: SetPlayer puts a new Player in place of the one there
\* may be.  What the main thread is doing to the old one comes to nothing.
SpawnPlayer(h) ==
    /\ recon = "no"
    /\ lives < MaxLives
    /\ lives' = lives + 1
    /\ position' = SpawnPosition /\ heading' = h
    /\ render' = 0
    /\ pending' = << >>
    /\ lastSeq' = 0
    /\ at' = "idle" /\ cur' = NoInput
    /\ synced' = FALSE
    /\ troubles' = IF lives > 0 THEN troubles \union {"respawned"} ELSE troubles
    /\ UNCHANGED <<recon, ack, seen, netVars>>

\* Mutant of Smooth: never snaps.
SmoothAlways(from, to) == (from + to) \div 2

Smooth(from, to) == IF Distance(from, to) > Threshold THEN to ELSE (from + to) \div 2

Unacked(inputs, last) ==
    LET kept[n \in 0..Len(inputs)] ==
            IF n = 0 THEN <<>>
            ELSE IF inputs[n].seq > last THEN Append(kept[n - 1], inputs[n]) ELSE kept[n - 1]
    IN  kept[Len(inputs)]

\* Reconcile takes the lock, moves the displayed position towards the server's,
\* and applies the inputs the server does not know yet by the heading it brings.
Reconcile(sync) ==
    /\ lives > 0
    /\ recon = "no"
    /\ position' = sync.pos /\ heading' = sync.heading
    /\ render' = Smooth(render, sync.pos) + Total(Unacked(pending, sync.last), Steady(sync.heading))
    /\ recon' = "erase"
    /\ ack' = sync.last
    /\ seen' = Len(pending)
    /\ synced' = TRUE
    /\ troubles' = IF sync.last < ack THEN troubles \union {"stale"} ELSE troubles
    /\ UNCHANGED <<lives, pending, lastSeq, at, cur, netVars>>

\* Mutant of EraseAcked: the list is cleared.
EraseAckedAll ==
    /\ recon = "erase"
    /\ pending' = << >>
    /\ recon' = "no"
    /\ UNCHANGED <<lives, position, heading, render, lastSeq, at, cur, ack, seen, netVars>>
    /\ UNCHANGED <<synced, troubles>>

\* It erases the acknowledged inputs and lets go of the lock.  An input that was
\* appended meanwhile survives, or is cut off with the end erase_if knew of.
EraseAcked ==
    /\ recon = "erase"
    /\ \/ /\ pending' = Unacked(pending, ack)
          /\ UNCHANGED troubles
       \/ /\ Len(pending) > seen
          /\ pending' = Unacked(SubSeq(pending, 1, seen), ack)
          /\ troubles' = troubles \union {"lost"}
    /\ recon' = "no"
    /\ UNCHANGED <<lives, position, heading, render, lastSeq, at, cur, ack, seen, netVars, synced>>

-------------------------------------------------------------------------------
(* The server *)

\* It takes an input, and moves the player by the yaw the input was given with;
\* the speed it has for it is part of what yaw stands for.
ServerMove(i) ==
    /\ i.seq > server.last
    /\ server' = [pos |-> server.pos + Step[i.yaw][i.key], last |-> i.seq]
    /\ troubles' = IF i.seq > server.last + 1 THEN troubles \union {"skipped"} ELSE troubles
    /\ UNCHANGED <<playerVars, threadVars, toServer, syncs, synced>>

\* It tells the last input once it has one, and the heading it has for the player,
\* which may be any.
ServerSync(h) ==
    /\ server.last >= 0
    /\ syncs' = syncs \union {[pos |-> server.pos, last |-> server.last, heading |-> h]}
    /\ UNCHANGED <<playerVars, threadVars, toServer, server, synced, troubles>>

-------------------------------------------------------------------------------
PlayerInit ==
    /\ lives = 0
    /\ position = 0 /\ heading \in Headings
    /\ render = 0 /\ pending = << >> /\ lastSeq = 0
    /\ at = "idle" /\ cur = NoInput
    /\ recon = "no" /\ ack = -1 /\ seen = 0
    /\ toServer = {} /\ syncs = {}
    /\ server = [pos |-> SpawnPosition, last |-> -1]
    /\ synced = FALSE /\ troubles = {}

PlayerNext ==
    \/ \E key \in Keys, yaw \in Headings : CaptureInput(key, yaw)
    \/ ApplyInput
    \/ \E h \in Headings : SpawnPlayer(h)
    \/ \E s \in syncs : Reconcile(s)
    \/ EraseAcked
    \/ \E i \in toServer : ServerMove(i)
    \/ \E h \in Headings : ServerSync(h)

PlayerSpec == PlayerInit /\ [][PlayerNext]_allVars

-------------------------------------------------------------------------------
(* Properties *)

\* Where the inputs the server is not known to have take the player, by what the
\* client knows of its heading.
Predicted == position + Total(pending, Steady(heading))

\* The inputs that have been sent, by their numbers, when there was one Player.
InOrder == [n \in 1..lastSeq |-> CHOOSE i \in toServer : i.seq = n - 1]

\* Once corrected, the displayed position is never further from the predicted one
\* than half the smoothing threshold and two inputs at the present heading:
\* whatever the interleaving of Update and Reconcile, and however a correction
\* turns the player, one input may be counted twice and the last one may still be
\* missing, and the next correction makes up for it (Player.cpp 18-31, 62-97,
\* 99-145).
DisplayTracksPrediction ==
    synced /\ recon = "no" =>
        \E m, n \in Keys :
            2 * Distance(render, Predicted) <=
                Threshold + 1 + 2 * (Distance(Step[heading][m], 0) + Distance(Step[heading][n], 0))

\* The predicted position is where the server will put the player when it has the
\* inputs that are on their way, if the inputs that are still unacknowledged were
\* all given with the heading that the last correction brought: the client replays
\* by that one and not by theirs.  A turn is made up for when the inputs before it
\* have been acknowledged.  A correction out of order, an input that was lost on
\* the way or from the list, or a second spawn puts the prediction wrong
\* (Player.cpp 22-29, 62-97, 103-105, 138-144).
PredictionIsServers ==
    /\ lives > 0 /\ recon = "no" /\ troubles = {}
    /\ \A n \in 1..Len(pending) : pending[n].yaw = heading
    => Predicted = server.pos + Total(Unacked(InOrder, server.last), Step)

===============================================================================
