------------------------------ MODULE SendBuffer ------------------------------
(***************************************************************************)
(* The memory of outgoing packets (SendBuffer.cpp): every thread cuts      *)
(* buffers from a chunk of its own, LSendBufferChunk; a chunk goes back to *)
(* the pool of SendBufferManager when its last reference, the thread's or  *)
(* a SendBuffer's, is gone, in whichever thread that is, and is cut anew.  *)
(* Pop and Push hold the manager's lock and are one action each.           *)
(***************************************************************************)
EXTENDS Integers, FiniteSets

CONSTANTS
    Threads,
    Chunks,     \* the SendBufferChunk objects; bound: the heap has no more
    NoChunk,    \* nullptr
    ChunkSize,  \* SEND_BUFFER_CHUNK_SIZE
    Sizes       \* the packet sizes MakeSendBufferImpl asks for

ASSUME SendBufferAssumption ==
    NoChunk \notin Chunks /\ ChunkSize \in Nat /\ Sizes \subseteq Nat \ {0}

VARIABLES
    fresh,    \* the chunks xnew has not made yet
    pool,     \* pool[c]: how many entries of _sendBufferChunks refer to c
    used,     \* used[c]: _usedSize
    open,     \* open[c]: _open
    pc,       \* pc[t]: where t is in MakeSendBufferImpl and what it calls
    request,  \* request[t]: the size it asks for
    current,  \* current[t]: LSendBufferChunk
    popped,   \* popped[t]: what Pop returned, until it is assigned
    opened,   \* opened[t]: the SendBuffer between Open and Close
    live,     \* the closed SendBuffers that something still refers to
    crash     \* the assertion that failed, or the use of a null buffer

vars == <<fresh, pool, used, open, pc, request, current, popped, opened, live, crash>>

Buffers == [chunk : Chunks, from : Nat, size : Nat]
NoBuffer == [chunk |-> NoChunk, from |-> 0, size |-> 0]

TypeOK ==
    /\ fresh \subseteq Chunks
    /\ pool \in [Chunks -> Nat]
    /\ used \in [Chunks -> 0..ChunkSize]
    /\ open \in [Chunks -> BOOLEAN]
    /\ pc \in [Threads -> {"idle", "null", "full", "get", "write"}]
    /\ request \in [Threads -> Sizes \union {0}]
    /\ current \in [Threads -> Chunks \union {NoChunk}]
    /\ popped \in [Threads -> Chunks \union {NoChunk}]
    /\ opened \in [Threads -> Buffers \union {NoBuffer}]
    /\ live \subseteq Buffers
    /\ crash \in {"no", "oversize", "already open", "not open", "null buffer"}

FreeSize(c) == ChunkSize - used[c]

\* The chunks a shared_ptr outside the pool refers to, when threads have chunks
\* cs and ps and there are the SendBuffers os and bs.
References(cs, ps, os, bs) ==
    {cs[t] : t \in Threads} \union {ps[t] : t \in Threads}
    \union {os[t].chunk : t \in Threads} \union {b.chunk : b \in bs}

Referenced(c) == c \in References(current, popped, opened, live)

\* Mutant of PushGlobal: the chunk goes back with any reference to it.
PushGlobalEarly(c, refs) ==
    pool' = IF c \in Chunks THEN [pool EXCEPT ![c] = @ + 1] ELSE pool

\* The deleter of chunk c, run when the references left do not include c.
PushGlobal(c, refs) ==
    pool' = IF c \in Chunks \ refs THEN [pool EXCEPT ![c] = @ + 1] ELSE pool

-------------------------------------------------------------------------------
\* MakeSendBufferImpl calls SendBufferManager::Open.
Open(t, size) ==
    /\ crash = "no" /\ pc[t] = "idle"
    /\ request' = [request EXCEPT ![t] = size]
    /\ pc' = [pc EXCEPT ![t] = IF current[t] = NoChunk THEN "null" ELSE "full"]
    /\ UNCHANGED <<fresh, pool, used, open, current, popped, opened, live, crash>>

\* A thread without a chunk, or with too little left in it, takes one from the
\* pool, or a new one when the pool is empty.
Pop(t) ==
    /\ crash = "no" /\ popped[t] = NoChunk
    /\ \/ pc[t] = "null"
       \/ pc[t] = "full" /\ FreeSize(current[t]) < request[t]
    /\ \E c \in Chunks :
          /\ \/ pool[c] > 0 /\ pool' = [pool EXCEPT ![c] = @ - 1] /\ UNCHANGED fresh
             \/ /\ \A d \in Chunks : pool[d] = 0
                /\ c \in fresh /\ fresh' = fresh \ {c} /\ UNCHANGED pool
          /\ popped' = [popped EXCEPT ![t] = c]
    /\ UNCHANGED <<used, open, pc, request, current, opened, live, crash>>

\* Mutant of Assign: the chunk is not reset.
AssignAsItIs(t) ==
    /\ crash = "no" /\ popped[t] # NoChunk
    /\ current' = [current EXCEPT ![t] = popped[t]]
    /\ popped' = [popped EXCEPT ![t] = NoChunk]
    /\ pc' = [pc EXCEPT ![t] = IF pc[t] = "null" THEN "full" ELSE "get"]
    /\ UNCHANGED <<used, open, fresh, request, opened, live, crash>>
    /\ PushGlobal(current[t], References(current', popped', opened, live))

\* LSendBufferChunk = Pop() lets go of the old chunk; the new one is reset.
Assign(t) ==
    /\ crash = "no" /\ popped[t] # NoChunk
    /\ current' = [current EXCEPT ![t] = popped[t]]
    /\ popped' = [popped EXCEPT ![t] = NoChunk]
    /\ used' = [used EXCEPT ![popped[t]] = 0]
    /\ open' = [open EXCEPT ![popped[t]] = FALSE]
    /\ pc' = [pc EXCEPT ![t] = IF pc[t] = "null" THEN "full" ELSE "get"]
    /\ UNCHANGED <<fresh, request, opened, live, crash>>
    /\ PushGlobal(current[t], References(current', popped', opened, live))

\* SendBufferChunk::Open with its assertions; a buffer that does not fit is
\* null, and MakeSendBufferImpl writes its header there.
OpenFails(t) ==
    IF request[t] > ChunkSize THEN "oversize"
    ELSE IF open[current[t]] THEN "already open"
    ELSE IF request[t] > FreeSize(current[t]) THEN "null buffer"
    ELSE "no"

OpenChunk(t) ==
    LET c == current[t]
    IN  /\ crash = "no" /\ popped[t] = NoChunk
        /\ \/ pc[t] = "full" /\ FreeSize(c) >= request[t]
           \/ pc[t] = "get"
        /\ crash' = OpenFails(t)
        /\ IF OpenFails(t) = "no"
           THEN /\ open' = [open EXCEPT ![c] = TRUE]
                /\ opened' = [opened EXCEPT ![t] =
                     [chunk |-> c, from |-> used[c], size |-> request[t]]]
                /\ pc' = [pc EXCEPT ![t] = "write"]
           ELSE UNCHANGED <<open, opened, pc>>
        /\ UNCHANGED <<fresh, pool, used, request, current, popped, live>>

\* Mutant of Close: what was written is not added up,
CloseForgets(t) ==
    /\ crash = "no" /\ pc[t] = "write"
    /\ open' = [open EXCEPT ![opened[t].chunk] = FALSE]
    /\ opened' = [opened EXCEPT ![t] = NoBuffer]
    /\ live' = live \union {opened[t]}
    /\ request' = [request EXCEPT ![t] = 0]
    /\ pc' = [pc EXCEPT ![t] = "idle"]
    /\ UNCHANGED <<fresh, pool, used, current, popped, crash>>

\* The packet is serialised and its buffer closed; it wrote what it asked for.
Close(t) ==
    LET c == opened[t].chunk
    IN  /\ crash = "no" /\ pc[t] = "write"
        /\ crash' = IF open[c] THEN "no" ELSE "not open"
        /\ used' = [used EXCEPT ![c] = @ + opened[t].size]
        /\ open' = [open EXCEPT ![c] = FALSE]
        /\ live' = live \union {opened[t]}
        /\ opened' = [opened EXCEPT ![t] = NoBuffer]
        /\ request' = [request EXCEPT ![t] = 0]
        /\ pc' = [pc EXCEPT ![t] = "idle"]
        /\ UNCHANGED <<fresh, pool, current, popped>>

\* The last reference to a sent SendBuffer goes, in any thread.
Release(b) ==
    /\ crash = "no"
    /\ live' = live \ {b}
    /\ UNCHANGED <<fresh, used, open, pc, request, current, popped, opened, crash>>
    /\ PushGlobal(b.chunk, References(current, popped, opened, live'))

Init ==
    /\ fresh = Chunks
    /\ pool = [c \in Chunks |-> 0]
    /\ used = [c \in Chunks |-> 0]
    /\ open = [c \in Chunks |-> FALSE]
    /\ pc = [t \in Threads |-> "idle"]
    /\ request = [t \in Threads |-> 0]
    /\ current = [t \in Threads |-> NoChunk]
    /\ popped = [t \in Threads |-> NoChunk]
    /\ opened = [t \in Threads |-> NoBuffer]
    /\ live = {}
    /\ crash = "no"

Next ==
    \/ \E t \in Threads :
          \/ \E size \in Sizes : Open(t, size)
          \/ Pop(t) \/ Assign(t) \/ OpenChunk(t) \/ Close(t)
    \/ \E b \in live : Release(b)

Spec == Init /\ [][Next]_vars

-------------------------------------------------------------------------------
(* Properties *)

\* No byte belongs to two packets, written or being written: a chunk is neither
\* cut by two threads nor cut anew while a packet in it waits to be sent
\* (SendBuffer.cpp 47-66, 83-87, 112-115).
AllBuffers == live \union ({opened[t] : t \in Threads} \ {NoBuffer})
BuffersDisjoint ==
    \A a, b \in AllBuffers : a # b /\ a.chunk = b.chunk =>
        a.from + a.size <= b.from \/ b.from + b.size <= a.from

\* Every chunk that was made is either in the pool, once, or referred to: none is
\* lost, none is given back twice (SendBuffer.cpp 92-115).
ChunksAccountedFor ==
    \A c \in Chunks \ fresh : pool[c] = IF Referenced(c) THEN 0 ELSE 1

\* Only a packet larger than a chunk makes an assertion fail; the chunk Open
\* uses is never too full for the request, so no null buffer is returned
\* (SendBuffer.cpp 49-53, 62, 81-89).
OnlyOversizeFails ==
    crash \in {"no", "oversize"}
    /\ (crash = "oversize" => \E t \in Threads : request[t] > ChunkSize)

===============================================================================
