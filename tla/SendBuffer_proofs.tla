--------------------------- MODULE SendBuffer_proofs ---------------------------
(***************************************************************************)
(* The inductive invariant of SendBuffer: a chunk is the current or the    *)
(* popped chunk of one thread at most, a popped chunk holds no packet, and *)
(* packets end at or below _usedSize, where the next one is cut.           *)
(***************************************************************************)
EXTENDS SendBuffer, TLAPS

\* A chunk is cut by one thread at most.
OwnInv ==
    /\ \A t, u \in Threads : t # u /\ current[t] # NoChunk => current[t] # current[u]
    /\ \A t, u \in Threads : t # u /\ popped[t] # NoChunk => popped[t] # popped[u]
    /\ \A t, u \in Threads : popped[t] # NoChunk => popped[t] # current[u]

\* What a thread's position says about its chunk.
PcInv ==
    \A t \in Threads :
        /\ popped[t] # NoChunk => pc[t] \in {"null", "full"}
        /\ pc[t] = "null" => current[t] = NoChunk
        /\ pc[t] \in {"full", "get", "write"} => current[t] \in Chunks
        /\ pc[t] = "get" => used[current[t]] = 0
        /\ pc[t] # "idle" => request[t] \in Sizes

\* The buffer being written begins where the chunk's packets end.
OpenedInv ==
    \A t \in Threads :
        IF pc[t] = "write"
        THEN /\ opened[t] = [chunk |-> current[t], from |-> used[current[t]], size |-> request[t]]
             /\ used[current[t]] + request[t] <= ChunkSize
             /\ open[current[t]]
        ELSE opened[t] = NoBuffer /\ (current[t] # NoChunk => ~open[current[t]])

\* Closed packets lie below _usedSize and apart; a popped chunk has none.
LiveInv ==
    /\ \A b \in live : b.from + b.size <= used[b.chunk]
    /\ \A a, b \in live : a # b /\ a.chunk = b.chunk =>
          a.from + a.size <= b.from \/ b.from + b.size <= a.from
    /\ \A t \in Threads, b \in live : b.chunk # popped[t]

\* Chunks are new, in the pool once, or referred to.
ChunkInv ==
    \A c \in Chunks :
        /\ c \in fresh => pool[c] = 0 /\ ~Referenced(c)
        /\ c \notin fresh => pool[c] = IF Referenced(c) THEN 0 ELSE 1

IInv == TypeOK /\ OwnInv /\ PcInv /\ OpenedInv /\ LiveInv /\ ChunkInv /\ OnlyOversizeFails

-------------------------------------------------------------------------------
(* Facts the steps share. *)

\* Where a reference to a chunk can be.
LEMMA ReferencedIff ==
    ASSUME NEW c
    PROVE  Referenced(c) <=> \/ \E t \in Threads : current[t] = c \/ popped[t] = c \/ opened[t].chunk = c
                             \/ \E b \in live : b.chunk = c
  BY DEF Referenced, References

\* NoBuffer is in no chunk and is not a buffer.
LEMMA NoBufferFacts ==
    NoBuffer.chunk = NoChunk /\ NoBuffer \notin Buffers
  BY SendBufferAssumption DEF NoBuffer, Buffers

-------------------------------------------------------------------------------
LEMMA InitIInv == Init => IInv
<1>. SUFFICES ASSUME Init PROVE IInv
  OBVIOUS
<1>. USE SendBufferAssumption, NoBufferFacts DEF Init
<1>1. TypeOK
  BY DEF TypeOK
<1>2. OwnInv /\ PcInv /\ LiveInv /\ OnlyOversizeFails
  BY DEF OwnInv, PcInv, LiveInv, OnlyOversizeFails
<1>3. OpenedInv
  BY DEF OpenedInv
<1>4. \A c \in Chunks : ~Referenced(c)
  BY ReferencedIff
<1>5. ChunkInv
  BY <1>4 DEF ChunkInv
<1>. QED  BY <1>1, <1>2, <1>3, <1>5 DEF IInv

LEMMA OpenIInv ==
    ASSUME IInv, NEW t \in Threads, NEW size \in Sizes, Open(t, size)
    PROVE  IInv'
<1>. USE SendBufferAssumption
<1>. USE DEF Open
<1>1. TypeOK'
  BY DEF IInv, TypeOK
<1>2. OwnInv' /\ LiveInv'
  BY DEF IInv, OwnInv, LiveInv
<1>3. PcInv'
  BY DEF IInv, TypeOK, PcInv
<1>4. OpenedInv'
  BY DEF IInv, TypeOK, OpenedInv
<1>5. ChunkInv'
  BY DEF IInv, ChunkInv, Referenced, References
<1>6. OnlyOversizeFails'
  BY DEF IInv, OnlyOversizeFails
<1>. QED  BY <1>1, <1>2, <1>3, <1>4, <1>5, <1>6 DEF IInv

LEMMA PopIInv ==
    ASSUME IInv, NEW t \in Threads, Pop(t)
    PROVE  IInv'
<1>. USE SendBufferAssumption
<1>1. PICK c \in Chunks :
         /\ \/ pool[c] > 0 /\ pool' = [pool EXCEPT ![c] = @ - 1] /\ fresh' = fresh
            \/ /\ \A d \in Chunks : pool[d] = 0
               /\ c \in fresh /\ fresh' = fresh \ {c} /\ pool' = pool
         /\ popped' = [popped EXCEPT ![t] = c]
  BY DEF Pop
<1>2. /\ crash = "no" /\ popped[t] = NoChunk /\ pc[t] \in {"null", "full"}
      /\ UNCHANGED <<used, open, pc, request, current, opened, live, crash>>
  BY DEF Pop
<1>3. pool \in [Chunks -> Nat] /\ popped \in [Threads -> Chunks \union {NoChunk}]
  BY DEF IInv, TypeOK
<1>4. ~Referenced(c)
  BY <1>1, <1>3 DEF IInv, ChunkInv
<1>5. /\ \A u \in Threads : current[u] # c /\ popped[u] # c /\ opened[u].chunk # c
      /\ \A b \in live : b.chunk # c
  BY <1>4, ReferencedIff
<1>6. TypeOK'
  <2>1. pool' \in [Chunks -> Nat]
    <3>1. CASE pool[c] > 0 /\ pool' = [pool EXCEPT ![c] = @ - 1]
      <4>1. pool[c] - 1 \in Nat
        BY <1>3, <3>1
      <4>. QED  BY <1>3, <3>1, <4>1
    <3>. QED  BY <1>1, <1>3, <3>1
  <2>3. fresh' \subseteq Chunks
    BY <1>1 DEF IInv, TypeOK
  <2>2. popped' \in [Threads -> Chunks \union {NoChunk}]
    BY <1>1, <1>3
  <2>. QED  BY <1>2, <2>1, <2>2, <2>3 DEF IInv, TypeOK
<1>7. OwnInv'
  BY <1>1, <1>2, <1>3, <1>5 DEF IInv, OwnInv
<1>8. PcInv'
  BY <1>1, <1>2, <1>3 DEF IInv, PcInv
<1>9. OpenedInv'
  BY <1>2 DEF IInv, OpenedInv
<1>10. LiveInv'
  BY <1>1, <1>2, <1>3, <1>5 DEF IInv, LiveInv
<1>11. ChunkInv'
  <2>1. \A d \in Chunks : Referenced(d)' <=> d = c \/ Referenced(d)
    BY <1>1, <1>2, <1>3 DEF Referenced, References
  <2>2. pool'[c] = 0 /\ c \notin fresh'
    BY <1>1, <1>3, <1>4 DEF IInv, ChunkInv
  <2>3. \A d \in Chunks : d # c => pool'[d] = pool[d] /\ (d \in fresh' <=> d \in fresh)
    BY <1>1, <1>3
  <2>. QED  BY <2>1, <2>2, <2>3 DEF IInv, ChunkInv
<1>12. OnlyOversizeFails'
  BY <1>2 DEF IInv, OnlyOversizeFails
<1>. QED  BY <1>6, <1>7, <1>8, <1>9, <1>10, <1>11, <1>12 DEF IInv

LEMMA AssignIInv ==
    ASSUME IInv, NEW t \in Threads, Assign(t)
    PROVE  IInv'
<1>. USE SendBufferAssumption
<1>. PICK c \in Chunks \union {NoChunk}, o \in Chunks \union {NoChunk} :
        c = popped[t] /\ o = current[t]
  BY DEF IInv, TypeOK
<1>1. /\ crash = "no" /\ c \in Chunks
      /\ current' = [current EXCEPT ![t] = c]
      /\ popped' = [popped EXCEPT ![t] = NoChunk]
      /\ used' = [used EXCEPT ![c] = 0]
      /\ open' = [open EXCEPT ![c] = FALSE]
      /\ pc' = [pc EXCEPT ![t] = IF pc[t] = "null" THEN "full" ELSE "get"]
      /\ UNCHANGED <<fresh, request, opened, live, crash>>
  BY DEF Assign, IInv, TypeOK
<1>2. pool' = IF o \in Chunks \ References(current', popped', opened, live)
              THEN [pool EXCEPT ![o] = @ + 1] ELSE pool
  BY DEF Assign, PushGlobal
<1>3. TypeOK
  BY DEF IInv
<1>4. \A u \in Threads : current[u] # c
  BY <1>1 DEF IInv, OwnInv
<1>5. TypeOK'
  <2>1. pool' \in [Chunks -> Nat]
    <3>0. pool \in [Chunks -> Nat]
      BY <1>3 DEF TypeOK
    <3>1. o \in Chunks => pool[o] + 1 \in Nat
      BY <3>0
    <3>2. CASE o \in Chunks
      <4>1. [pool EXCEPT ![o] = @ + 1] \in [Chunks -> Nat]
        BY <3>0, <3>1, <3>2
      <4>. QED  BY <1>2, <3>0, <4>1
    <3>. QED  BY <1>2, <3>0, <3>2
  <2>2. used' \in [Chunks -> 0..ChunkSize] /\ open' \in [Chunks -> BOOLEAN]
    BY <1>1, <1>3 DEF TypeOK
  <2>3. /\ current' \in [Threads -> Chunks \union {NoChunk}]
        /\ popped' \in [Threads -> Chunks \union {NoChunk}]
    BY <1>1, <1>3 DEF TypeOK
  <2>4. pc' \in [Threads -> {"idle", "null", "full", "get", "write"}]
    BY <1>1, <1>3 DEF TypeOK
  <2>. QED  BY <1>1, <1>3, <2>1, <2>2, <2>3, <2>4 DEF TypeOK
<1>6. OwnInv'
  BY <1>1, <1>3, <1>4 DEF IInv, OwnInv, TypeOK
<1>7. PcInv'
  <2>. SUFFICES ASSUME NEW u \in Threads
                PROVE  /\ popped'[u] # NoChunk => pc'[u] \in {"null", "full"}
                       /\ pc'[u] = "null" => current'[u] = NoChunk
                       /\ pc'[u] \in {"full", "get", "write"} => current'[u] \in Chunks
                       /\ pc'[u] = "get" => used'[current'[u]] = 0
                       /\ pc'[u] # "idle" => request'[u] \in Sizes
    BY DEF PcInv
  <2>1. CASE u = t
    BY <1>1, <1>3, <2>1 DEF IInv, PcInv, TypeOK
  <2>2. CASE u # t
    BY <1>1, <1>3, <1>4, <2>2 DEF IInv, PcInv, TypeOK
  <2>. QED  BY <2>1, <2>2
<1>8. OpenedInv'
  <2>. SUFFICES ASSUME NEW u \in Threads
                PROVE  IF pc'[u] = "write"
                       THEN /\ opened'[u] = [chunk |-> current'[u], from |-> used'[current'[u]], size |-> request'[u]]
                            /\ used'[current'[u]] + request'[u] <= ChunkSize
                            /\ open'[current'[u]]
                       ELSE opened'[u] = NoBuffer /\ (current'[u] # NoChunk => ~open'[current'[u]])
    BY DEF OpenedInv
  <2>1. CASE u = t
    <3>1. pc[t] # "write" /\ pc'[t] # "write" /\ current'[t] = c /\ ~open'[c]
      BY <1>1, <1>3 DEF IInv, PcInv, TypeOK
    <3>2. opened'[t] = NoBuffer
      BY <1>1, <3>1 DEF IInv, OpenedInv
    <3>. QED  BY <2>1, <3>1, <3>2
  <2>2. CASE u # t
    <3>1. pc'[u] = pc[u] /\ current'[u] = current[u] /\ opened'[u] = opened[u] /\ request'[u] = request[u]
      BY <1>1, <1>3, <2>2 DEF TypeOK
    <3>2. current[u] \in Chunks => used'[current[u]] = used[current[u]] /\ open'[current[u]] = open[current[u]]
      BY <1>1, <1>3, <1>4 DEF TypeOK
    <3>3. current[u] \in Chunks \/ current[u] = NoChunk
      BY <1>3 DEF TypeOK
    <3>4. CASE pc[u] = "write"
      BY <3>1, <3>2, <3>4 DEF IInv, OpenedInv, PcInv
    <3>5. CASE pc[u] # "write"
      BY <3>1, <3>2, <3>3, <3>5 DEF IInv, OpenedInv
    <3>. QED  BY <3>4, <3>5
  <2>. QED  BY <2>1, <2>2
<1>9. LiveInv'
  <2>1. \A b \in live : b.chunk \in Chunks /\ b.chunk # c /\ used'[b.chunk] = used[b.chunk]
    BY <1>1, <1>3 DEF IInv, LiveInv, TypeOK, Buffers
  <2>2. \A u \in Threads, b \in live : b.chunk # popped'[u]
    BY <1>1, <1>3, <2>1 DEF IInv, LiveInv, TypeOK
  <2>. QED  BY <1>1, <2>1, <2>2 DEF IInv, LiveInv
<1>10. ChunkInv'
  <2>1. ASSUME NEW d \in Chunks, d # o
        PROVE  Referenced(d)' <=> Referenced(d)
    <3>1. \A u \in Threads : u # t => current'[u] = current[u] /\ popped'[u] = popped[u]
      BY <1>1, <1>3 DEF TypeOK
    <3>2. current'[t] = popped[t] /\ popped'[t] = NoChunk /\ d # NoChunk
      BY <1>1, <1>3, <2>1 DEF TypeOK
    <3>. QED  BY <1>1, <2>1, <3>1, <3>2 DEF Referenced, References
  <2>3. CASE o \in Chunks
    <3>1. Referenced(o) /\ o \notin fresh /\ pool[o] = 0
      BY <2>3 DEF IInv, ChunkInv, Referenced, References
    <3>2. pool'[o] = IF Referenced(o)' THEN 0 ELSE 1
      <4>1. Referenced(o)' <=> o \in References(current', popped', opened, live)
        BY <1>1 DEF Referenced, References
      <4>2. pool \in [Chunks -> Nat]
        BY <1>3 DEF TypeOK
      <4>3. [pool EXCEPT ![o] = @ + 1][o] = 1
        BY <2>3, <3>1, <4>2
      <4>. QED  BY <1>2, <2>3, <3>1, <4>1, <4>3
    <3>3. \A d \in Chunks : d # o => pool'[d] = pool[d]
      BY <1>2, <1>3 DEF TypeOK
    <3>. QED  BY <1>1, <2>1, <3>1, <3>2, <3>3 DEF IInv, ChunkInv
  <2>4. CASE o \notin Chunks
    BY <1>1, <1>2, <2>1, <2>4 DEF IInv, ChunkInv
  <2>. QED  BY <2>3, <2>4
<1>11. OnlyOversizeFails'
  BY <1>1 DEF IInv, OnlyOversizeFails
<1>. QED  BY <1>5, <1>6, <1>7, <1>8, <1>9, <1>10, <1>11 DEF IInv

LEMMA OpenChunkIInv ==
    ASSUME IInv, NEW t \in Threads, OpenChunk(t)
    PROVE  IInv'
<1>. USE SendBufferAssumption
<1>. PICK c \in Chunks \union {NoChunk} : c = current[t]
  BY DEF IInv, TypeOK
<1>1. /\ crash = "no" /\ popped[t] = NoChunk /\ pc[t] \in {"full", "get"}
      /\ pc[t] = "full" => FreeSize(c) >= request[t]
      /\ crash' = OpenFails(t)
      /\ UNCHANGED <<fresh, pool, used, request, current, popped, live>>
  BY DEF OpenChunk
<1>2. TypeOK /\ c \in Chunks /\ request[t] \in Sizes /\ request[t] \in Nat
  BY <1>1 DEF IInv, PcInv
<1>3. used[c] \in 0..ChunkSize /\ ~open[c]
  <2>1. used[c] \in 0..ChunkSize
    BY <1>2 DEF TypeOK
  <2>2. ~open[c]
    BY <1>1, <1>2 DEF IInv, OpenedInv
  <2>. QED  BY <2>1, <2>2
<1>4. OpenFails(t) = IF request[t] > ChunkSize THEN "oversize" ELSE "no"
  <2>1. pc[t] = "get" => used[c] = 0
    BY DEF IInv, PcInv
  <2>2. ~(request[t] > ChunkSize) => ~(request[t] > FreeSize(c))
    <3>1. CASE pc[t] = "get"
      BY <1>2, <1>3, <2>1, <3>1 DEF FreeSize
    <3>2. CASE pc[t] = "full"
      <4>1. FreeSize(c) \in Int
        BY <1>3 DEF FreeSize
      <4>. QED  BY <1>1, <1>2, <3>2, <4>1
    <3>. QED  BY <1>1, <3>1, <3>2
  <2>. QED  BY <1>3, <2>2 DEF OpenFails
<1>5. OnlyOversizeFails' /\ crash' \in {"no", "oversize"}
  BY <1>1, <1>4 DEF OnlyOversizeFails
<1>6. CASE OpenFails(t) # "no"
  <2>1. UNCHANGED <<open, opened, pc>>
    BY <1>6 DEF OpenChunk
  <2>2. TypeOK'
    BY <1>1, <1>2, <1>5, <2>1 DEF TypeOK
  <2>3. OwnInv' /\ PcInv' /\ LiveInv'
    BY <1>1, <2>1 DEF IInv, OwnInv, PcInv, LiveInv
  <2>4. OpenedInv'
    BY <1>1, <2>1 DEF IInv, OpenedInv
  <2>5. ChunkInv'
    BY <1>1, <2>1 DEF IInv, ChunkInv, Referenced, References
  <2>. QED  BY <1>5, <2>2, <2>3, <2>4, <2>5 DEF IInv
<1>7. CASE OpenFails(t) = "no"
  <2>. DEFINE b == [chunk |-> c, from |-> used[c], size |-> request[t]]
  <2>1. /\ open' = [open EXCEPT ![c] = TRUE]
        /\ opened' = [opened EXCEPT ![t] = b]
        /\ pc' = [pc EXCEPT ![t] = "write"]
    BY <1>7 DEF OpenChunk
  <2>2. used[c] + request[t] <= ChunkSize
    <3>1. ~(request[t] > FreeSize(c))
      BY <1>3, <1>7 DEF OpenFails
    <3>. QED  BY <1>2, <1>3, <3>1 DEF FreeSize
  <2>3. b \in Buffers /\ b.chunk = c
    BY <1>2, <1>3 DEF Buffers
  <2>4. TypeOK'
    <3>1. opened' \in [Threads -> Buffers \union {NoBuffer}]
      BY <1>2, <2>1, <2>3 DEF TypeOK
    <3>2. open' \in [Chunks -> BOOLEAN] /\ pc' \in [Threads -> {"idle", "null", "full", "get", "write"}]
      BY <1>2, <2>1 DEF TypeOK
    <3>. QED  BY <1>1, <1>2, <1>5, <3>1, <3>2 DEF TypeOK
  <2>5. OwnInv' /\ LiveInv'
    BY <1>1 DEF IInv, OwnInv, LiveInv
  <2>6. PcInv'
    BY <1>1, <1>2, <2>1 DEF IInv, PcInv, TypeOK
  <2>7. OpenedInv'
    <3>. SUFFICES ASSUME NEW u \in Threads
                  PROVE  IF pc'[u] = "write"
                         THEN /\ opened'[u] = [chunk |-> current'[u], from |-> used'[current'[u]], size |-> request'[u]]
                              /\ used'[current'[u]] + request'[u] <= ChunkSize
                              /\ open'[current'[u]]
                         ELSE opened'[u] = NoBuffer /\ (current'[u] # NoChunk => ~open'[current'[u]])
      BY DEF OpenedInv
    <3>1. CASE u = t
      <4>1. pc'[t] = "write" /\ opened'[t] = b /\ open'[c]
        BY <1>2, <2>1 DEF TypeOK
      <4>. QED  BY <1>1, <2>2, <3>1, <4>1
    <3>2. CASE u # t
      <4>1. pc'[u] = pc[u] /\ opened'[u] = opened[u]
        BY <1>2, <2>1, <3>2 DEF TypeOK
      <4>2. current[u] # NoChunk => current[u] # c /\ open'[current[u]] = open[current[u]]
        BY <1>2, <2>1, <3>2 DEF IInv, OwnInv, TypeOK
      <4>3. pc[u] = "write" => current[u] # NoChunk
        BY DEF IInv, PcInv
      <4>4. CASE pc[u] = "write"
        BY <1>1, <4>1, <4>2, <4>3, <4>4 DEF IInv, OpenedInv
      <4>5. CASE pc[u] # "write"
        BY <1>1, <4>1, <4>2, <4>5 DEF IInv, OpenedInv
      <4>. QED  BY <4>4, <4>5
    <3>. QED  BY <3>1, <3>2
  <2>8. ChunkInv'
    <3>1. opened[t].chunk = NoChunk
      BY <1>1, NoBufferFacts DEF IInv, OpenedInv
    <3>2. opened'[t].chunk = c /\ \A u \in Threads : u # t => opened'[u] = opened[u]
      BY <1>2, <2>1, <2>3 DEF TypeOK
    <3>3. ASSUME NEW d \in Chunks
          PROVE  Referenced(d)' <=> Referenced(d)
      BY <1>1, <3>1, <3>2 DEF Referenced, References
    <3>. QED  BY <1>1, <3>3 DEF IInv, ChunkInv
  <2>. QED  BY <1>5, <2>4, <2>5, <2>6, <2>7, <2>8 DEF IInv
<1>. QED  BY <1>6, <1>7

LEMMA CloseIInv ==
    ASSUME IInv, NEW t \in Threads, Close(t)
    PROVE  IInv'
<1>. USE SendBufferAssumption
<1>. PICK c \in Chunks \union {NoChunk}, n \in Sizes \union {0} :
        c = current[t] /\ n = request[t]
  BY DEF IInv, TypeOK
<1>1. pc[t] = "write" /\ crash = "no"
  BY DEF Close
<1>2. c \in Chunks /\ n \in Nat /\ n \in Sizes /\ open[c]
  BY <1>1 DEF IInv, PcInv, OpenedInv
<1>. DEFINE b == [chunk |-> c, from |-> used[c], size |-> n]
<1>3. opened[t] = b /\ b.chunk = c /\ b.size = n /\ b.from = used[c]
  BY <1>1 DEF IInv, OpenedInv
<1>4. /\ used' = [used EXCEPT ![c] = @ + n]
      /\ open' = [open EXCEPT ![c] = FALSE]
      /\ live' = live \union {opened[t]}
      /\ opened' = [opened EXCEPT ![t] = NoBuffer]
      /\ request' = [request EXCEPT ![t] = 0]
      /\ pc' = [pc EXCEPT ![t] = "idle"]
      /\ UNCHANGED <<fresh, pool, current, popped>>
  BY <1>3 DEF Close
<1>5. crash' = "no"
  BY <1>2, <1>3 DEF Close
<1>6. TypeOK
  BY DEF IInv
<1>7. used[c] \in Nat /\ used[c] + n \in 0..ChunkSize
  <2>1. used[c] \in 0..ChunkSize
    BY <1>2, <1>6 DEF TypeOK
  <2>2. used[c] + n <= ChunkSize
    BY <1>1 DEF IInv, OpenedInv
  <2>. QED  BY <1>2, <2>1, <2>2
<1>8. used'[c] = used[c] + n /\ \A d \in Chunks : d # c => used'[d] = used[d] /\ open'[d] = open[d]
  BY <1>2, <1>4, <1>6 DEF TypeOK
<1>9. TypeOK'
  <2>1. used' \in [Chunks -> 0..ChunkSize]
    <3>1. used \in [Chunks -> 0..ChunkSize]
      BY <1>6 DEF TypeOK
    <3>. QED  BY <1>4, <1>7, <3>1
  <2>2. open' \in [Chunks -> BOOLEAN] /\ pc' \in [Threads -> {"idle", "null", "full", "get", "write"}]
    BY <1>4, <1>6 DEF TypeOK
  <2>3. request' \in [Threads -> Sizes \union {0}]
    BY <1>4, <1>6 DEF TypeOK
  <2>4. opened' \in [Threads -> Buffers \union {NoBuffer}]
    BY <1>4, <1>6 DEF TypeOK
  <2>5. live' \subseteq Buffers
    <3>1. b \in Buffers
      BY <1>2, <1>7 DEF Buffers
    <3>2. live \subseteq Buffers
      BY <1>6 DEF TypeOK
    <3>. QED  BY <1>3, <1>4, <3>1, <3>2
  <2>. QED  BY <1>4, <1>5, <1>6, <2>1, <2>2, <2>3, <2>4, <2>5 DEF TypeOK
<1>10. OwnInv'
  BY <1>4 DEF IInv, OwnInv
<1>11. PcInv'
  <2>. SUFFICES ASSUME NEW u \in Threads
                PROVE  /\ popped'[u] # NoChunk => pc'[u] \in {"null", "full"}
                       /\ pc'[u] = "null" => current'[u] = NoChunk
                       /\ pc'[u] \in {"full", "get", "write"} => current'[u] \in Chunks
                       /\ pc'[u] = "get" => used'[current'[u]] = 0
                       /\ pc'[u] # "idle" => request'[u] \in Sizes
    BY DEF PcInv
  <2>1. CASE u = t
    BY <1>1, <1>4, <1>6, <2>1 DEF IInv, PcInv, TypeOK
  <2>2. CASE u # t
    <3>1. pc'[u] = pc[u] /\ current'[u] = current[u] /\ popped'[u] = popped[u] /\ request'[u] = request[u]
      BY <1>4, <1>6, <2>2 DEF TypeOK
    <3>2. current[u] # NoChunk => current[u] # c
      BY <2>2 DEF IInv, OwnInv
    <3>. QED  BY <1>8, <3>1, <3>2 DEF IInv, PcInv
  <2>. QED  BY <2>1, <2>2
<1>12. OpenedInv'
  <2>. SUFFICES ASSUME NEW u \in Threads
                PROVE  IF pc'[u] = "write"
                       THEN /\ opened'[u] = [chunk |-> current'[u], from |-> used'[current'[u]], size |-> request'[u]]
                            /\ used'[current'[u]] + request'[u] <= ChunkSize
                            /\ open'[current'[u]]
                       ELSE opened'[u] = NoBuffer /\ (current'[u] # NoChunk => ~open'[current'[u]])
    BY DEF OpenedInv
  <2>1. CASE u = t
    BY <1>2, <1>4, <1>6, <2>1 DEF TypeOK
  <2>2. CASE u # t
    <3>1. pc'[u] = pc[u] /\ current'[u] = current[u] /\ opened'[u] = opened[u] /\ request'[u] = request[u]
      BY <1>4, <1>6, <2>2 DEF TypeOK
    <3>2. current[u] # NoChunk => used'[current[u]] = used[current[u]] /\ open'[current[u]] = open[current[u]]
      <4>1. current[u] # NoChunk => current[u] # c
        BY <2>2 DEF IInv, OwnInv
      <4>2. current[u] \in Chunks \union {NoChunk}
        BY <1>6 DEF TypeOK
      <4>. QED  BY <1>8, <4>1, <4>2
    <3>3. pc[u] = "write" => current[u] # NoChunk
      BY DEF IInv, PcInv
    <3>4. CASE pc[u] = "write"
      BY <3>1, <3>2, <3>3, <3>4 DEF IInv, OpenedInv
    <3>5. CASE pc[u] # "write"
      BY <3>1, <3>2, <3>5 DEF IInv, OpenedInv
    <3>. QED  BY <3>4, <3>5
  <2>. QED  BY <2>1, <2>2
<1>13. LiveInv'
  <2>1. \A a \in live : /\ a.chunk \in Chunks /\ a.from \in Nat /\ a.size \in Nat
                        /\ a.from + a.size <= used[a.chunk]
    BY <1>6 DEF IInv, LiveInv, TypeOK, Buffers
  <2>2. \A a \in live' : a.from + a.size <= used'[a.chunk]
    <3>1. ASSUME NEW a \in live
          PROVE  a.from + a.size <= used'[a.chunk]
      <4>1. CASE a.chunk = c
        BY <1>2, <1>7, <1>8, <2>1, <4>1
      <4>2. CASE a.chunk # c
        BY <1>8, <2>1, <4>2
      <4>. QED  BY <4>1, <4>2
    <3>2. b.from + b.size <= used'[b.chunk]
      <4>1. used'[b.chunk] = used[c] + n
        BY <1>3, <1>8
      <4>. QED  BY <1>2, <1>3, <1>7, <4>1
    <3>. QED  BY <1>3, <1>4, <3>1, <3>2
  <2>3. ASSUME NEW a \in live', NEW d \in live', a # d, a.chunk = d.chunk
        PROVE  a.from + a.size <= d.from \/ d.from + d.size <= a.from
    <3>1. CASE a \in live /\ d \in live
      BY <2>3, <3>1 DEF IInv, LiveInv
    <3>2. CASE a = b
      BY <1>3, <1>4, <2>1, <2>3, <3>2
    <3>3. CASE d = b
      BY <1>3, <1>4, <2>1, <2>3, <3>3
    <3>. QED  BY <1>3, <1>4, <3>1, <3>2, <3>3
  <2>4. \A u \in Threads, a \in live' : a.chunk # popped'[u]
    <3>1. \A u \in Threads : popped[u] # c
      BY <1>2 DEF IInv, OwnInv
    <3>. QED  BY <1>3, <1>4, <3>1 DEF IInv, LiveInv
  <2>. QED  BY <2>2, <2>3, <2>4 DEF LiveInv
<1>14. ChunkInv'
  <2>1. opened'[t].chunk = NoChunk /\ \A u \in Threads : u # t => opened'[u] = opened[u]
    BY <1>4, <1>6, NoBufferFacts DEF TypeOK
  <2>2. ASSUME NEW d \in Chunks
        PROVE  Referenced(d)' <=> Referenced(d)
    BY <1>3, <1>4, <2>1 DEF Referenced, References
  <2>. QED  BY <1>4, <2>2 DEF IInv, ChunkInv
<1>15. OnlyOversizeFails'
  BY <1>5 DEF OnlyOversizeFails
<1>. QED  BY <1>9, <1>10, <1>11, <1>12, <1>13, <1>14, <1>15 DEF IInv

LEMMA ReleaseIInv ==
    ASSUME IInv, NEW b \in live, Release(b)
    PROVE  IInv'
<1>. USE SendBufferAssumption
<1>1. TypeOK /\ b \in Buffers
  BY DEF IInv, TypeOK
<1>. PICK o \in Chunks : o = b.chunk
  BY <1>1 DEF Buffers
<1>2. /\ crash = "no" /\ live' = live \ {b}
      /\ UNCHANGED <<fresh, used, open, pc, request, current, popped, opened, crash>>
      /\ pool' = IF o \in Chunks \ References(current, popped, opened, live')
                 THEN [pool EXCEPT ![o] = @ + 1] ELSE pool
  BY DEF Release, PushGlobal
<1>3. pool \in [Chunks -> Nat]
  BY <1>1 DEF TypeOK
<1>4. Referenced(o) /\ o \notin fresh /\ pool[o] = 0
  BY DEF IInv, ChunkInv, Referenced, References
<1>5. [pool EXCEPT ![o] = @ + 1] \in [Chunks -> Nat] /\ [pool EXCEPT ![o] = @ + 1][o] = 1
  BY <1>3, <1>4
<1>6. TypeOK'
  <2>1. pool' \in [Chunks -> Nat]
    BY <1>2, <1>3, <1>5
  <2>. QED  BY <1>1, <1>2, <2>1 DEF TypeOK
<1>7. OwnInv' /\ PcInv' /\ LiveInv' /\ OnlyOversizeFails'
  BY <1>2 DEF IInv, OwnInv, PcInv, LiveInv, OnlyOversizeFails
<1>8. OpenedInv'
  BY <1>2 DEF IInv, OpenedInv
<1>9. ChunkInv'
  <2>1. Referenced(o)' <=> o \in References(current, popped, opened, live')
    BY <1>2 DEF Referenced, References
  <2>2. pool'[o] = IF Referenced(o)' THEN 0 ELSE 1
    BY <1>2, <1>4, <1>5, <2>1
  <2>3. \A d \in Chunks : d # o => pool'[d] = pool[d]
    BY <1>2, <1>3
  <2>4. ASSUME NEW d \in Chunks, d # o
        PROVE  Referenced(d)' <=> Referenced(d)
    BY <1>2, <2>4 DEF Referenced, References
  <2>. QED  BY <1>2, <1>4, <2>2, <2>3, <2>4 DEF IInv, ChunkInv
<1>. QED  BY <1>6, <1>7, <1>8, <1>9 DEF IInv

LEMMA NextIInv == IInv /\ [Next]_vars => IInv'
<1>. SUFFICES ASSUME IInv, [Next]_vars PROVE IInv'
  OBVIOUS
<1>1. CASE Next
  BY <1>1, OpenIInv, PopIInv, AssignIInv, OpenChunkIInv, CloseIInv, ReleaseIInv DEF Next
<1>2. CASE UNCHANGED vars
  <2>. USE <1>2 DEF vars
  <2>1. TypeOK' /\ OwnInv' /\ PcInv' /\ LiveInv' /\ OnlyOversizeFails'
    BY DEF IInv, TypeOK, OwnInv, PcInv, LiveInv, OnlyOversizeFails
  <2>2. OpenedInv'
    BY DEF IInv, OpenedInv
  <2>3. ChunkInv'
    BY DEF IInv, ChunkInv, Referenced, References
  <2>. QED  BY <2>1, <2>2, <2>3 DEF IInv
<1>. QED  BY <1>1, <1>2

\* The invariant says that no two packets share a byte.
LEMMA IInvDisjoint == IInv => BuffersDisjoint
<1>. SUFFICES ASSUME IInv, NEW a \in AllBuffers, NEW b \in AllBuffers,
                     a # b, a.chunk = b.chunk
              PROVE  a.from + a.size <= b.from \/ b.from + b.size <= a.from
  BY DEF BuffersDisjoint
<1>. DEFINE Cut(d) == \E t \in Threads :
        pc[t] = "write" /\ d = opened[t] /\ d.chunk = current[t] /\ d.from = used[current[t]]
<1>1. ASSUME NEW d \in AllBuffers, d \notin live
      PROVE  Cut(d)
  <2>1. PICK t \in Threads : d = opened[t] /\ d # NoBuffer
    BY <1>1 DEF AllBuffers
  <2>2. pc[t] = "write"
    BY <2>1 DEF IInv, OpenedInv
  <2>3. opened[t] = [chunk |-> current[t], from |-> used[current[t]], size |-> request[t]]
    BY <2>2 DEF IInv, OpenedInv
  <2>. QED  BY <2>1, <2>2, <2>3
<1>2. CASE a \in live /\ b \in live
  BY <1>2 DEF IInv, LiveInv
<1>3. CASE a \in live /\ Cut(b)
  BY <1>3 DEF IInv, LiveInv
<1>4. CASE Cut(a) /\ b \in live
  BY <1>4 DEF IInv, LiveInv
<1>5. CASE Cut(a) /\ Cut(b)
  <2>1. PICK t, u \in Threads :
          /\ a = opened[t] /\ a.chunk = current[t]
          /\ b = opened[u] /\ b.chunk = current[u] /\ pc[u] = "write"
    BY <1>5
  <2>2. current[u] # NoChunk
    BY <2>1, SendBufferAssumption DEF IInv, PcInv
  <2>. QED  BY <2>1, <2>2 DEF IInv, OwnInv
<1>. QED  BY <1>1, <1>2, <1>3, <1>4, <1>5

-------------------------------------------------------------------------------
(* The theorems. *)

LEMMA Invariant == Spec => []IInv
  BY InitIInv, NextIInv, PTL DEF Spec

\* Sizes, owners and positions keep their types, for any threads and chunks.
THEOREM TypeCorrect == Spec => []TypeOK
<1>1. IInv => TypeOK
  BY DEF IInv
<1>. QED  BY <1>1, Invariant, PTL

\* No two packets ever share a byte (SendBuffer.cpp 47-66, 83-87, 112-115).
THEOREM Disjoint == Spec => []BuffersDisjoint
  BY IInvDisjoint, Invariant, PTL

\* No chunk is lost, and none is in the pool twice or while something refers
\* to it (SendBuffer.cpp 92-115).
THEOREM Accounted == Spec => []ChunksAccountedFor
<1>1. IInv => ChunksAccountedFor
  BY DEF IInv, ChunkInv, ChunksAccountedFor
<1>. QED  BY <1>1, Invariant, PTL

\* Open fails for no packet that fits a chunk (SendBuffer.cpp 49-53, 62, 81-89).
THEOREM FailsOversize == Spec => []OnlyOversizeFails
<1>1. IInv => OnlyOversizeFails
  BY DEF IInv
<1>. QED  BY <1>1, Invariant, PTL

===============================================================================
