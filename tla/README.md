# Verification of the Jam client

The repository is a game client in C++: a network library
(`ClientNetworkCore`) with locks, job queues, buffers, TCP sessions and
reliable UDP sessions, and a client (`DummyClient`) with packet handlers, a
scene, player prediction, remote actors and a renderer. This directory holds a
TLA+ model of its concurrent core, the TLC configurations that check it and TLAPS
proofs of what matters most.

## 1. Inventory

### How the parts interact

`Service::Start` runs one `io_context` on four threads (Service.cpp 17-40), so
that completion handlers of different operations run at the same time. The main
thread runs the game loop (DummyClient.cpp 8-28): it polls input, sends packets
and draws. The main thread and the handlers meet in the sessions (`Send`), in
the buffers (`SendBufferManager`), in the managers of the game and in the locks.

| Part | State | Operations | Meets |
|---|---|---|---|
| `Lock` | `_lockFlag` (writer id, read count), `_writeCount` | `WriteLock`, `WriteUnlock`, `ReadLock`, `ReadUnlock` through guards | everything under `WRITE_LOCK` |
| `DeadLockProfiler` | names, recorded orders, lock stack of each thread | `PushLock`, `PopLock`, `CheckCycle` | `Lock`, in debug builds |
| `JobQueue`, `GlobalQueue`, `ThreadManager` | `_jobs`, `_jobCount`, `LCurrentJobQueue`, the queue of queues | `Push`, `Execute`, `ClearJobs`, `DoGlobalQueueWork` | any thread |
| `JobTimer` | reserved jobs by tick, `_distributing` | `Reserve`, `Distribute`, `Clear` | `JobQueue` |
| `RecvBuffer` | bytes, read and write cursor | `OnWrite`, `OnRead`, `Clean` | TCP and UDP receive handlers |
| `SendBuffer`, `SendBufferChunk`, `SendBufferManager` | chunks with cursor and open flag, the pool | `Open`, `Close`, `Pop`, `Push` | all senders, the handlers that drop sent buffers |
| `TcpSession` | connected flag, socket, send queue, `_sendRegistered`, buffers of the current write | `Connect`, `Send`, `RegisterSend`, `ProcessSend`, `ProcessRecv`, `Disconnect` | `Service`, game callbacks |
| `ReliableUdpSession` | next sequence, pending packets, receive history | `SendReliable`, `HandleAck`, `CheckAndRecordReceiveHistory`, `GenerateAckBitfield`, `Update` | packet handlers, the peer |
| `UdpReceiver` | one buffer, one endpoint | `RegisterRecv`, `ProcessRecv` | `Service`, sessions |
| `Service` | sets of TCP, UDP and handshaking sessions | add, release, find or create, complete handshake | sessions |
| `ServerPacketHandler` | handler tables | `HandlePacket`, `MakeSendBuffer*`, one handler for each packet | sessions, scene, managers |
| `SessionManager`, `SceneManager` | current sessions, the scene, `_isInGame` | set and read by handlers and the game loop | each other |
| `Player` | position, rotation and speed, displayed position, inputs not yet acknowledged | `Update`, `SendInputToServer`, `Reconcile` | main thread and I/O thread |
| `TimeManager` | base of the estimate of the server's clock, round trip | `Update`, `OnServerTimeReceived` | main thread and I/O thread |
| `MovementInterpolator` | snapshots, delay | `AddSnapshot`, `Process`, `SetBasedOnServerTime` | main thread and I/O thread |
| `TransformCompressor`, memory pools | none, free lists | pure packing, allocation | packets, all allocations |
| Renderer, input, generated protocol code | OpenGL, GLFW, ImGui, protobuf | I/O | |

### What is hard

* Interleavings of single atomic accesses: the lock (Lock.cpp 13-97) and the
  job queues (JobQueue.cpp 6-60), which pass responsibility for a queue by
  comparing counters; the timer, which pushes what is due outside its lock
  (JobTimer.cpp 15-47).
* Handlers against senders: `_sendRegistered`, `_sendQueue` and
  `_currentSendBuffers` of a TCP session, with writes that fail and disconnects
  from several sides (Session.cpp 28-215).
* Reassembly of packets from a byte stream in any segmentation, in a buffer
  that is compacted only at times (RecvBuffer.cpp 19-38, Session.cpp 217-266);
  the same buffer under datagrams (UdpReceiver.cpp 34-101).
* Lifetimes: handlers that capture a bare `this`, chunks that return to a pool
  with their last reference, in any thread (SendBuffer.cpp 92-115).
* A lossy, duplicating, reordering network under a window of sequence numbers
  that wraps (Session.cpp 314-379), and under sessions that a datagram brings about
  (Service.cpp 96-134).
* State the main thread and an I/O thread share without a lock, or with one on one side
  only: the inputs of the player (Player.cpp 22-29, 138-145), the next sequence of a UDP session
  (Session.cpp 316), the two numbers of the clock (TimeManager.cpp 66-72), the time shown of a remote actor.

`PROJECT.json` lists the hazards that bite in this client at their lines, with the
properties aimed at them.

### What makes each part correct

A lock excludes and lets in; the profiler crashes on a cycle and on nothing
else; a job queue runs every job once, in order and never two at a time, those
of the timer in the order of their ticks; the packets given to the game are the frames of the stream; a session has one write
in flight, in the order of `Send`, from memory that is owned until the session is cleared; a packet's
bytes belong to that packet alone until it is sent; an acknowledgement speaks
only of packets that were received; an endpoint has one session; no packet is put
together from two undamaged datagrams; the player is displayed near where it is predicted;
the estimate of the clock is behind the server's by what was measured; remote actors
are shown between neighbouring snapshots.

## 2. Modules

| Module | Code | State and actions |
|---|---|---|
| `RWLockSpec` | (abstract) | The guards each thread holds. |
| `RWSpinLock` | Lock.cpp, Lock.h | One action per atomic access to `_lockFlag` or `_writeCount`; `held` are the guards in scope. The flag is a record of its halves; the write count has 16 bits. Crashes are states. |
| `SerialExecutor` | (abstract) | Queued and running jobs of each queue, and the record of those dropped without running. |
| `JobQueue` | JobQueue.cpp/.h, GlobalQueue, LockQueue.h, `DoGlobalQueueWork` | `push[t]` and `at[t]` place a thread in `Push` and `Execute`; a job that runs may push again. A `LockQueue` operation is one action, which `RWSpinLock` justifies. The comparisons with `LEndTickCount` may come out either way (`TimeLeft`). `forgotten` records the jobs `ClearJobs` throws away. |
| `JobTimer` | JobTimer.cpp/.h, `DoTimer` | Extends `JobQueue`. The items, the flag, the threads that distribute; a push of a due job is the `Push` of `JobQueue`. `Distribute` and `DoGlobalQueueWork` are calls a thread is free to make. Items keep their owner weakly: a queue may be gone unless a job holds it. |
| `DeadLockProfiler` | DeadLockProfiler.cpp, Lock.cpp | `PushLock`, taking the lock, `PopLock`, giving it up; `Dfs` as a function from searches to searches, recursive on how deep its calls are nested. |
| `TcpReceive` | RecvBuffer.cpp, Session.cpp 156-266 | The bytes of the peer's stream in the buffer, the cursors, and `ProcessRecv` with one step per packet handed to `OnRecv`; a receive into a full buffer brings nothing and closes. |
| `TcpSession` | Session.cpp 15-242, Service.cpp 68-80, GameTcpSession.cpp | Activities: the connect handler, the chain of receives, writes with their handlers, callers of `Send`. An action is one access to shared state; a region under `WRITE_LOCK` is one action, except `ProcessSend`, which calls `RegisterSend` with the lock held. An access to `_currentSendBuffers` that no lock orders against another one is a race and may end the process. |
| `SendBuffer` | SendBuffer.cpp/.h, `MakeSendBufferImpl` | Chunks of each thread, the references to them, the pool; `PushGlobal` is the deleter that runs inside whichever action drops the last reference. |
| `ReliableUdp` | Session.cpp 314-379, ServerPacketHandler.h 95-122 | One direction between two sessions of the same class; `_sendSeq++` is a load and a store. Datagrams are never taken off the network, so each is received never, once or often, in any order. |
| `UdpClient` | UdpReceiver.cpp, Service.cpp 96-134, the handlers of entering the game, `HandlePacket`, `SendInputToServer` | Sessions, the registry and the receiver together. `_sendSeq++` is a read (`DrawSeq`) and a write (`SendReliable`) of a number that wraps, by the TCP handler, the receive handler and the game loop. An empty datagram ends reception. The buffer holds halves of datagrams; a damaged datagram claims another size than it has; a packet inside the buffer is a step of its own. The server and the second endpoint are external. |
| `Player` | Player.cpp 15-145, the spawn in ServerPacketHandler.cpp 184-222 | The main thread between noting and applying an input, the I/O thread between going over the inputs and erasing. Rotation and speed are one `heading`, which spawn and corrections set; an input has a key and a yaw; the client moves by key and heading, the server by key and yaw. The race on `_pendingInputs` is a choice: an input appended meanwhile is kept or cut off. |
| `TimeManager` | TimeManager.cpp 19-80 | Sending, noting the time of sending, and the two stores of an answer are steps of their own. |
| `MovementInterpolator` | MovementInterpolator.cpp, RemoteActor | Extends `TimeManager`. A snapshot is its timestamp; what is shown is the time it is shown for and the snapshots it is computed from. |
| `MC...` | | Constants for TLC. |
| `..._proofs` | | Inductive invariants and theorems: a module of them for each module above, but that `JobQueue_proofs` is about `JobQueue` and `JobTimer`, and `Actors_proofs` about `TimeManager`, `MovementInterpolator` and `Player`. |

`PROJECT.json` maps every definition to the lines it models. `TcpSession` and
`TcpReceive` share `ProcessRecv`: the first keeps whether a receive succeeds, the
second what it does with the bytes. `ReliableUdp` has two sessions and draws that may overlap;
`UdpClient` has many sessions, on which the client's three threads draw.

What the models abstract: payloads and wording are tokens; jobs are tokens that
may push more jobs; sizes are small numbers; names of locks are strings; movement is along
one line, on which a heading decides how far and which way a key goes; round trip and jitter enter as a delay anywhere in the range they are clamped
to. `MovementInterpolator` stores base and delay of an answer in one step, where the code stores the
base first and the delay of each actor a little later (ServerPacketHandler.cpp 176-179): a frame in between
uses the old delay, which is in the same range, and the bounds stated depend on the range alone. Variables marked `history` in their declaration, and `accepted`, `wire`, `failed` and
`delivered`, record the past for the properties and constrain no action.

External: the game server (its answers, its receive history, its clock and its movement
of the player), the network, other endpoints. They are modelled by what the handlers
in `src/` expect of them, and are marked so in the map.

## 3. Runs

| Run | Instance | Shows |
|---|---|---|
| `spin_lock` | 3 threads, nesting 3, upgrades, timeout, fair | Mutual exclusion, an exact read count, progress, the refinement of `RWLockSpec`; a write guard asked for inside a read guard never comes; the only release that crashes is that of W in R in W |
| `job_timer` | 3 threads, 2 queues, 2 jobs, one of which holds its queue, 2 ticks, `ClearJobs`, fair | Exactly one keeper for a queue with jobs; implements `SerialExecutor`, where only `ClearJobs` drops; jobs that wait side by side run in the order of their ticks; a job on its way starts, is cleared or gets as far as the global queue; `Distribute` gives its flag back |
| `profiler` | 3 threads, 4 locks of 3 classes, nesting 2 | The program is ended exactly when the recorded orders have a cycle; deadlocks are announced except between locks of one name; what the properties call a cycle agrees with the transitive closure on every graph of three locks |
| `tcp_receive` | packets of 2-4 bytes, buffer 3x4, segments up to 4 or up to 12, ill-formed headers too, fair | Nothing lost, repeated or overwritten; frames as sent; small segments always find room and the whole stream is delivered |
| `tcp_receive_full` | packets of 2-4 bytes, buffer 3x4, segments up to 12 | The second finding below |
| `tcp_session` | 2 senders, 3 writes, 4 buffers, one of them empty, fair | One write at a time, its memory owned until the session is cleared, session alive, only a disconnect races with the unlocked clear, order kept, nobody stranded, registries consistent; what is queued is sent, unless the connection ends or a write fails |
| `tcp_session_retry` | 1 sender, 3 buffers, fair | The first finding below |
| `send_buffer` | 2 threads, 3 chunks of 3 bytes, packets of 1, 2, 4 | Bytes belong to one packet; chunks are accounted for; only oversize fails |
| `reliable_udp` | 2 senders, 5 packets, window 3, 2 ack bits, 18 sequences | Acknowledgements sound and complete in the first window, pending until acknowledged, at most a window of acknowledgements |
| `udp_client` | 2 endpoints, 3 sessions, 1 input, 3 sequences, damaged datagrams of two kinds, empty ones, buffer 3x2, fair | One session for an endpoint, so no sequence twice but by a handshake or on a session whose draws overlapped; acknowledgements as honest as sequences allow; undamaged datagrams stand alone; every completion that has bytes posts the next receive |
| `player` | 2 inputs, 2 keys, 2 headings (2 units one way, 1 the other), threshold 3, 2 spawns | Display and prediction stay within half a threshold and two inputs; without loss and disorder the prediction is what the server computes if the unacknowledged inputs were given with the heading of the last correction |
| `remote_motion` | 5 units of time, 1 exchange, 3 snapshots, delays 2-3 | The bounds of the clock; what is interpolated lies between neighbours; what is shown goes back by a delay at most |

The type invariants are proved (section 4) and not repeated in the runs.

### Why the bounds are enough

Three threads are the fewest with which two can compete for what a third
holds or hands over; nesting three holds W in R in W. Two jobs let a queue be pushed to while its first job
runs, and be handed to the global queue by its executor, by a push from inside a job of the other queue, or by `pushOnly`; two
threads distribute while jobs of two ticks wait, and the third runs a queue. The streams of
three or four packets exceed the buffer, so cursors wrap, fill up and are
compacted. Three writes let two overlap, if the code let them, while the handler of a third runs.
Three chunks let one be current, one wait with a packet in it and one be in the pool;
five packets on a window of three use the history up; a stale sequence
of 2 meets a fresh one and one already drawn. The sequence space of 18 keeps
the proportions of the code (more than four windows, a multiple of the window).
In `udp_client` the three sessions are that of the handshake, the one its answer creates and
that of a stray endpoint; `MaxPackets` stops answers to the handshake after three reliable packets, or the
client would send C_SPAWN_ACTOR without end; the threads that draw overlap within that, and with three sequences the
numbers wrap to 0, while that a session comes round altogether needs more packets and is covered by the proofs only; a buffer of six units is filled by three datagrams, or by what
damaged ones leave behind. In `player` two inputs let one be acknowledged or pending while
the other races with the correction, and the player turn between them; the second spawn is a repeated datagram. In `remote_motion` three snapshots are a
pair and one that comes late between or behind them; the time followed is long enough for
an exchange, and for the pair to be passed and extrapolated from.
`ReadCountMask` is only as large as the guards need. Where a property is proved (section 4) it does not
rest on these bounds.

`CHECK_DEADLOCK FALSE` stands where the system may stop: after a crash
(`spin_lock`, `send_buffer`) or with an upgrade that never comes, with no more jobs to push, at the end of a stream or with
a full buffer, after a disconnect, at a bound of `player`, `remote_motion` and `udp_client`, and in a real deadlock, which `profiler` is about.

### Fairness

* `RWSpinLock`: a thread in a lock operation or inside its guards goes on; nobody must ask for the
  lock. Progress is claimed for some waiting thread, never for each: the lock
  makes no such promise.
* `JobTimer`: a thread goes on with the `Push`, `Execute`, `Reserve` or `Distribute` it is in, and jobs return.
  Nothing makes a thread call `Distribute` or take a queue from the global queue: `DoGlobalQueueWork` and
  `DistributeReservedJob` have no caller, the I/O threads only run the `io_context`, and `LEndTickCount` stays 0, so
  that `DoGlobalQueueWork` would stop before its first `Pop` (ThreadManager.cpp 60-62). So `EveryJobRuns` follows a job to
  the global queue and no further, and nothing is claimed of a job that waits in the timer.
* `TcpReceive`: the kernel hands over what has arrived; handlers run to their end.
* `TcpSession`: asio completes operations and handlers go on. Nothing is assumed
  of packets that arrive or of callers of `Send`.
* `UdpClient`: an I/O thread goes on with the completion it runs. Nothing is assumed of the network.

### Findings

* Session.cpp:143 says `// retry send` of a failed write. The buffers go back to the queue,
  `_sendRegistered` stays set, and nobody calls `RegisterSend` again
  (`tcp_session_retry`).
* RecvBuffer.cpp:30 says that data is pulled to the front when less than one buffer is free. Line 31 tests
  `FreeSize() > _bufferSize`, the contrary: with the write cursor at the end and an unfinished packet in the buffer,
  the data stays, the next receive has no room, completes with nothing and closes the session (`tcp_receive_full`).

Behaviours of the code the properties are stated around, and that no document contradicts or that no run
singles out:

* `RoomForPacket` and `StreamIsDelivered` state when the second finding is harmless: while a segment, a packet and a buffer
  fit together. Nothing in the code bounds a segment so.
* `ProcessDisconnect` clears `_currentSendBuffers` while the handler of an aborted write is still to come, and
  races with the clear of `RegisterSend`, which takes no lock (Session.cpp 111, 195). `NothingDangles` holds up to that clear, and
  `OnlyDisconnectRaces` says that it is the only one to race.
* A session whose close reports an error stays in both registries, which then agree on a session nothing disconnects
  (Session.cpp 93).
* Two threads may draw one sequence on one session, since `_sendSeq++` is not atomic (Session.cpp 316), and after 65536 draws
  sequences come round: the exceptions `Repeats` in `SequencesDistinct` and `AckMeansReceived`, and outside `SentIsPending`.
* An empty datagram from anywhere ends UDP reception, as an error does (UdpReceiver.cpp 43-50). `ReceiverRearms` says
  that nothing else does.
* `ClearJobs` leaves `_jobCount`, so an `Execute` after it never finds its queue done: it goes round while it has time and
  hands the queue over when it has none (JobQueue.h 36, JobQueue.cpp 46-58; the exception in `FlagComesBack`).
* Deadlocks between locks of one name are not announced (DeadLockProfiler.cpp 32; the exception in `DeadlockIsAnnounced`).
* The client applies and replays an input by the rotation and speed of the last correction and ignores the yaw it was given
  and sent with, by which the server goes (Player.cpp 71-105): after a turn the prediction is wrong until the inputs given before
  are acknowledged (the condition in `PredictionIsServers`).
* `_receiveHistory` is never cleared: after a window of sequences nothing is acknowledged (`AcksRunOut`).
* The handshake and the first packet of the session that follows it both have sequence 1, so an
  acknowledgement of one takes the other off its map (the exception in `AckMeansReceived`), and a handshake is
  the exception in `SequencesDistinct`.
* A datagram of any endpoint makes a session that takes the place of the server's in
  `SessionManager` (Service.cpp 96-134, GameUdpSession.cpp 12-16).
* Damaged datagrams leave bytes in the buffer of `UdpReceiver` that are read as the head of later ones
  (`DatagramsStandAlone` holds until the first).
* An input may be counted twice when `Reconcile` comes between noting and applying it, or be cut from the list by the race;
  the next correction makes up for it (`DisplayTracksPrediction`).

## 4. Proofs

Each is for every value of the constants the assumptions of the module allow.

* **Lock_proofs**, the spin lock: `TypeCorrect`, `Exclusion`, `ReadCount`, `UnlockCrash`,
  `UpgradeStuck`, `Implements` (the refinement of `RWLockSpec`). Mutual exclusion is not inductive: a
  thread that has passed its load acts on it later. The invariant `IInv` adds
  that the owner's half names exactly the thread with write guards (`OwnerInv`),
  what a thread knows from where it is (`PcInv`), `_writeCount` up to the two
  moments at which it lags (`WriteCountInv`), the nesting bound and the cause of
  a crash. Assumed: ids start at 1, and all guards together fit the lower half.
* **Lock_proofs**, the profiler: `ProfilerTypeCorrect`, `CheckCycleIsRight`, `CycleFound`, `DeadlockAnnounced`. First what `Dfs`
  does, for any recorded orders of any number of ids: as long as a search has found nothing, what follows a finished
  id is finished and the finished ones are on no cycle (`GoodSearch`); the calls that have not returned
  are a path that ends in the innermost (`Innermost`), so an id met again while its call is open is on a cycle
  (`OpenMeansCycle`); a call that returns leaves the open calls as they were and its own id finished (`Returned`). That carries over
  from calls nested m deep to m + 1 (`DfsOverSearches`), and no call is nested deeper than there are ids not yet
  discovered. So `CheckCycle` crashes exactly on a cycle. Then the inductive invariant `ProfilerInv`: ids and names
  correspond (`NamesInv`); the lock stack of a thread has the ids of the locks it holds and of the one it asks for,
  without the one it gives up (`StackInv`), which is why `PopLock` never crashes; neighbours on a stack are recorded
  (`RecordedInv`); a lock has one holder (`ExclusiveInv`); and the recorded orders have no cycle while
  the program runs. Deadlocked threads whose locks have names of their own have stacks
  that close a cycle (`DeadlockIsCycle`), so the program ends at the `PushLock` that would complete the deadlock.
  Assumed (`LocksAssumption`): finitely many locks, `NoLock` not among them.
* **JobQueue_proofs**, the queues: `TypeCorrect`, `AtMostOneDuty`, `NeverStranded`. The
  invariant: every job is counted from before it is queued until after it has
  run (`CountInv`), and a queue has exactly one keeper while its count is
  positive and none otherwise (`UniqueInv`, `KeptInv`). The two properties fall out of it.
  `ImplementsExecutors` is the refinement of `SerialExecutor`: with one executor for a queue, what the abstract
  executor sees of it is the rest of that thread's batch and then `_jobs` (`Seen`). `PushJob` is then `Submit`,
  `ExecJobStart` is `Start`, `ExecJobEnd` is `Finish`, and `ClearJobs` is `Drop`: the record of dropped jobs is `forgotten`, to which
  only `ClearJobs` adds, so no other step can lose a job and still refine. Taking all jobs out
  moves the border between the two parts, and every other step is nothing.
  Assumed: finitely many threads.
* **JobQueue_proofs**, the timer: `TimerTypeCorrect`, `TimedOrder`, `TimerImplementsExecutors`. `QueuesUnderneath`: the timer
  calls the queues in ways that keep their invariant. A job is
  in one place between `DoTimer` and its queue (`OnceInv`) and always there for the same queue (`Home`), one
  thread at a time has jobs to hand over (`DistInv`), and of two that waited side by side the one with
  the earlier tick is ahead of the other at each of the stations: items, local vector, `Push`, `_jobs`, batch (`Before`,
  `PairInv`), until it has started or was dropped by either `Clear` or `ClearJobs`. Each action has a lemma that moves a pair from
  one station to the next. Assumed: nothing but the types of the constants.
* **TcpSession_proofs**: `TypeCorrect`, `OneWriteAtATime`, `WhatCallbacksUseIsThere`, `ClearMeetsOnlyDisconnect`, `QueueHasAnOwner`,
  `WireIsInOrder`, `RegistriesDoAgree`. The invariant says which activity holds the registration at each of its steps, and that there is
  one at most; what that activity has in its hands together with the wire and the queue is what `Send` accepted, in order;
  the buffers of a write in flight are `_currentSendBuffers` until `ProcessDisconnect` has cleared them (`MemoryInv`), and as one
  activity alone is on the way through `RegisterSend`, a second access to them is that of a disconnect;
  a session that an operation uses is referred to; the socket, the flag and the registries agree on what the
  steps of connecting and disconnecting have done so far. Assumed (`ActivitiesAssumption`): connector, receiver,
  writes and senders are different activities.
* **SendBuffer_proofs**: `TypeCorrect`, `Disjoint`, `Accounted`, `FailsOversize`.
  The invariant: one thread at most cuts a chunk (`OwnInv`), closed packets lie
  below the cursor and apart (`LiveInv`), the open one begins at the cursor (`OpenedInv`), and a
  chunk is new, in the pool once, or referred to (`ChunkInv`), so that a popped chunk has no packet.
* **ReliableUdp_proofs**: `TypeCorrect`, `AckSound`, `AckComplete`,
  `KeptUntilAcked`, `HistoryFillsUp`. While draws do not overlap, threads draw 1, 2, 3, ...
  (`DrawInv`), a sequence names one packet (`DataInv`), and in the first window a
  position of the history stands for one sequence (`RecvInv`); without any such
  condition every acknowledgement took a position of the history (`AckInv`).
  Assumed: the acknowledgement bits fit the window, the sequence space is even,
  a multiple of the window and larger than four of them; 65536, 1024 and 32 satisfy this.
* **TcpReceive_proofs**: `TypeCorrect`, `StreamKept`, `NothingWaits`, `Room`. The invariant: the
  cursors say how much of the stream is unread (`CursorInv`), the unread bytes are the next of it
  (`UnreadIsNextInStream`), and the packets handed out end where they begin (`FramesInv`); in a
  well-formed stream a packet begins there (`StartsInv`). So the parser leaves less than a packet, and
  `RoomInv` counts what the cursor has moved by: Clean then finds a buffer free and compacts.
  Assumed: a header fits a packet and a packet fits one buffer (Session.h, 65535 and 65536).
* **UdpClient_proofs**: `Distinct`, `AckHonest`, `StandAlone`. A packet whose sequence has been drawn belongs to a
  registered session, unless it is a handshake, and goes to its endpoint (`PacketInv`); session and draw name it
  (`OnceInv`); on a session that has not repeated itself the n-th draw gave n modulo the number of sequences, and one call at most is
  between its read and its write (`TurnInv`, `SeqInv`), which `DrawKeeps` and `SendKeeps` show for the two halves of `_sendSeq++`. An
  endpoint has one registered session (`RegistryInv`); what the server acknowledges it has received
  (`ServerInv`). For datagrams: until a damaged one comes in, the buffer is the one datagram being
  parsed, from its start. Assumed: at least two sequences, and a damaged datagram claims another size than it has.
* **Actors_proofs**, the clock: `ClockTypeCorrect`, `LagsBehind`. An answer carries a time of the server that has passed
  (`PastInv`), the round trip was measured from a time noted before the answer was given, unless it was
  noted late (`MeasuredInv`), and the two stores put into the numbers what was computed (`StoredInv`).
* **Actors_proofs**, the remote actors: `ClockUnderneath` (their behaviours are behaviours of `TimeManager`), `LagsBehindHere`,
  `Backstep`, `BetweenNeighbours`. The time shown, and the time a frame goes by, are not ahead of the client's unless the
  estimate has been stored anew since (`PastTimesInv`), and a frame about to extrapolate is not behind what is shown
  (`ForwardInv`). The buffer is sorted, and what has arrived and is not in it is older than the window (`AddSnapshot` puts a
  snapshot in its place and drops from the front).
* **Actors_proofs**, the player: `TracksPrediction`, `PredictsTheServer`. A correction turns the player and the prediction alike, so that
  between corrections the display is off by what smoothing has left, one input that was counted twice and one not applied yet (`TrackInv`); while `Reconcile` is between going over
  the inputs and erasing, it stands where the inputs that were there lead, but for what smoothing has left
  (`ErasingInv`). While nothing has gone wrong the inputs sent are numbered 0, 1, 2, ... (`SentInv`), and the player, the
  server and every correction on its way agree on where they lead (`AgreeInv`): taking out what a later
  correction acknowledges is the same whether an earlier one was applied or not (`UnackedTwice`). That agreement is in steps
  by each input's own yaw; where all pending inputs have the present heading, the steps by the heading are the same
  (`TotalSteady`). Nothing is assumed of keys, headings, steps, threshold and spawns but their types.

Sums over lists, selections from queues and the like are recursive functions, and induction over them is taken
from the least element of a set of natural numbers (`LeastNat`, `InductNat`), since the library's induction rules take
an operator as a parameter.

Only model-checked:

* Liveness under fairness: `LockMakesProgress`, `EveryJobRuns`, `FlagComesBack`, `StreamIsDelivered`, `AcceptedIsSent`,
  `ReceiverRearms`. The provers do not go beyond safety here.

Every other property of the passing runs is a theorem. `NothingReadyWaits` (no complete packet is left in the buffer while a receive
is outstanding) is proved and has no run of its own: a stream it failed on would not be delivered.

## 5. Not modelled, and why

* Generated protocol code (Protocol.pb.*, Struct.pb.*, Enum.pb.*) and `PacketGenerator`: by far the most lines
  of the repository, and none of the client's own logic.
* Renderer, input, OpenGL objects, drawing of scenes: I/O. The steps of the game loop that touch the player, remote
  actors and the clock are actions of their modules. The list of actors, which the main thread walks while an I/O
  thread inserts, is a race inside a container: it has no outcomes to enumerate.
* `ReliableUdpSession::Update`, `Disconnect` and `ProcessDisconnect`, `ReleaseUdpSession`: nothing calls them, so nothing
  is ever sent again and no UDP session ever leaves the registry.
* `TransformCompressor` and other floating-point arithmetic (angles, velocity, linear interpolation): no
  floating-point numbers in TLC or in the provers. The other modules take coordinates that are packed without loss.
* Memory pools: CoreTypes.h:43 defines `_STOMP` in every build, so allocations go to pages of the
  operating system and size classes and free lists are never reached.
* `RefCounting`, `BufferReader`, `BufferWriter`: not used by the client. `TypeCast`: compile-time.
* Launch and numbering of threads, start of the `io_context`: asio.
* The handlers of login, rooms, chat and hits: they hand data to the user interface or draw.

## 6. Plan

Built, in the order of importance: lock, job queues, TCP receive, TCP session, profiler, send buffers,
reliable UDP, UDP client, timer, clock and remote actors, player; proofs of all safety properties. Left:

1. Header memory: `SendBuffer` composed with `ReliableUdp`, which sequence an
   unreliable packet carries out of a recycled chunk (ServerPacketHandler.h 171-176).
2. The login and room flow (ServerPacketHandler.cpp 30-95, Renderer.cpp 323-406), once the
   user interface is separated from it.
3. A rational version of `TransformCompressor` against its inverse, with the range of `y` as the first case.
