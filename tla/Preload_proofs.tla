--------------------------- MODULE Preload_proofs ---------------------------
(***************************************************************************)
(* Proofs about the preloader: in the optimised build (~StatusReread), for *)
(* every number and size of chunks and all traces whose packets fit into   *)
(* the ring, and whatever the condition variables do, the two threads      *)
(* agree on who owns a chunk.  If moreover no packet needs more than two   *)
(* chunks or fills its chunks exactly, the replay gets the packets in      *)
(* their order.  It starts on a full ring unless it wakes up of itself,    *)
(* and where packets need no more than half of the ring, and the loading   *)
(* thread keeps up, the preloader implements PacketReader.                 *)
(***************************************************************************)
EXTENDS PreloadInvariant, TLAPS

-----------------------------------------------------------------------------
(* Arithmetic of chunks and addresses.                                     *)

\* A chunk begins at a non-negative offset of preload_mem.
LEMMA BaseNat == ASSUME NEW c \in Nat PROVE Base(c) \in Nat
BY ConstantsAssumption DEF Base

\* n chunks further on.
LEMMA BaseSum ==
    ASSUME NEW c \in Nat, NEW n \in Nat
    PROVE  Base(c) \in Nat /\ Base(c) + ChunkSize * n = Base(c + n)
BY ConstantsAssumption DEF Base

\* Later chunks have higher addresses.
LEMMA BaseMonotone ==
    ASSUME NEW c \in Nat, NEW d \in Nat, c <= d
    PROVE  Base(c) <= Base(d)
<1>1. PICK k \in Nat : d = c + k
    OBVIOUS
<1>2. Base(d) = Base(c) + ChunkSize * k
    BY <1>1, BaseSum
<1>3. ChunkSize * k \in Nat /\ Base(c) \in Nat
    BY BaseSum, ConstantsAssumption
<1> QED BY <1>2, <1>3

\* What extends over no more bytes than k chunks have needs at most k of them.
LEMMA ChunksForBound ==
    ASSUME NEW size \in Nat \ {0}, NEW k \in Nat, size <= Base(k)
    PROVE  ChunksFor(size) \in 1 .. k
<1> DEFINE q == (size - 1) \div ChunkSize
<1>1. q \in Nat /\ q * ChunkSize <= size - 1
    BY ConstantsAssumption
<1> HIDE DEF q
<1>2. q < k
    <2> SUFFICES ASSUME q >= k PROVE FALSE
        BY <1>1
    <2>1. Base(k) <= Base(q)
        BY <1>1, BaseMonotone
    <2>2. Base(q) <= size - 1
        BY <1>1 DEF Base
    <2>3. Base(q) \in Nat /\ Base(k) \in Nat
        BY <1>1, BaseSum
    <2> QED BY <2>1, <2>2, <2>3
<1> QED BY <1>1, <1>2 DEF q, ChunksFor

\* Every packet needs at least one chunk.
LEMMA ChunksForPositive ==
    ASSUME NEW size \in Nat \ {0}
    PROVE  ChunksFor(size) \in Nat \ {0}
<1>1. (size - 1) \div ChunkSize \in Nat
    BY ConstantsAssumption
<1> QED BY <1>1 DEF ChunksFor

-----------------------------------------------------------------------------
(* Packets: those still to be loaded and those in memory.                  *)

\* The number of packets of the trace is a number.
LEMMA PacketCountNat == ASSUME IInv PROVE PacketCount \in Nat
<1>1. input.size \in Seq(Nat \ {0})
    BY ConstantsAssumption DEF IInv, TypeOK, TypeRing
<1> QED BY <1>1 DEF PacketCount

\* get_packet_size: zero at the end of the file, else the size of a packet that
\* fits into the ring.
LEMMA NextSizeFacts ==
    ASSUME TypeRing, TypeFile
    PROVE  /\ NextSize \in Nat
           /\ NextSize # 0 => NextSize \in Nat \ {0} /\ ~NoMorePackets
           /\ AllFit /\ ~NoMorePackets => ChunksFor(NextSize) <= ChunkCount
<1>1. input.size \in Seq(Nat \ {0})
    BY ConstantsAssumption DEF TypeRing
<1>2. ASSUME ~NoMorePackets
      PROVE  /\ next \in DOMAIN input.size
             /\ NextSize = input.size[next]
             /\ input.size[next] \in Nat \ {0}
    BY <1>1, <1>2 DEF TypeFile, NoMorePackets, PacketCount, NextSize
<1>3. AllFit /\ ~NoMorePackets => ChunksFor(NextSize) <= ChunkCount
    BY <1>2 DEF AllFit, TypeRing
<1>4. NoMorePackets => NextSize = 0
    BY DEF NextSize
<1> QED BY <1>2, <1>3, <1>4

\* Where a packet header lies in memory, the whole packet does.
LEMMA HeaderFacts ==
    ASSUME TypeRing, TypeFile, MemInv, NEW a, HeaderAt(a) # 0
    PROVE  /\ a \in Address
           /\ HeaderAt(a) \in 1 .. PacketCount
           /\ input.size[HeaderAt(a)] \in Nat \ {0}
           /\ a + input.size[HeaderAt(a)] <= Base(ChunkCount)
<1>1. input.size \in Seq(Nat \ {0})
    BY ConstantsAssumption DEF TypeRing
<1>2. a \in Address /\ HeaderAt(a) = mem[a]
    BY DEF HeaderAt
<1>3. PacketCount \in Nat
    BY <1>1 DEF PacketCount
<1>4. mem[a] \in 1 .. PacketCount
    BY <1>2, <1>3 DEF TypeFile
<1>5. input.size[mem[a]] \in Nat \ {0}
    BY <1>1, <1>4 DEF PacketCount
<1> QED BY <1>2, <1>4, <1>5 DEF MemInv

\* What load_packet writes ends within the ring.
LEMMA WrittenKeepsMemInv ==
    ASSUME IInv, LoaderIn({"load"}), MayLoad
    PROVE  LET new == Written(current[loading_idx], NextSize, next)
           IN  /\ new \in [Address -> 0 .. PacketCount]
               /\ \A a \in Address : new[a] # 0 => a + input.size[new[a]] <= Base(ChunkCount)
<1> DEFINE at == current[loading_idx]
           new == Written(at, NextSize, next)
<1>1. loading_idx \in Nat /\ needed \in Nat /\ loading_idx + needed <= ChunkCount
    BY ConstantsAssumption DEF IInv, TypeOK, TypeIndex, LoaderInv, LoaderIn, Loading
<1>2. Base(loading_idx) + ChunkSize * needed <= Base(ChunkCount)
  <2>1. Base(loading_idx) + ChunkSize * needed = Base(loading_idx + needed)
    BY <1>1, BaseSum
  <2>2. Base(loading_idx + needed) <= Base(ChunkCount)
    BY <1>1, BaseMonotone, ConstantsAssumption
  <2> QED BY <2>1, <2>2
<1>3. next \in 1 .. PacketCount /\ NextSize = input.size[next]
    BY DEF IInv, TypeOK, TypeFile, MayLoad, NoMorePackets, NextSize, PacketCount
<1>4. at + NextSize <= Base(ChunkCount)
  <2>1. loading_idx \in Chunk
    BY <1>1, ConstantsAssumption DEF IInv, TypeOK, TypeIndex, Chunk
  <2>2. at \in Nat
    BY <2>1 DEF IInv, TypeOK, TypeRing
  <2>3. NextSize \in Nat /\ Base(ChunkCount) \in Nat /\ Base(loading_idx) \in Nat
    BY <1>1, BaseSum, NextSizeFacts, ConstantsAssumption DEF IInv, TypeOK
  <2>4. ChunkSize * needed \in Nat
    BY <1>1, ConstantsAssumption
  <2> QED BY <1>2, <2>2, <2>3, <2>4 DEF MayLoad
<1>5. \A a \in Address : new[a] = IF a = at THEN next
                                  ELSE IF a \in at .. at + NextSize - 1 THEN 0 ELSE mem[a]
    BY DEF Written
<1>6. new \in [Address -> 0 .. PacketCount]
  <2>1. ASSUME NEW a \in Address PROVE new[a] \in 0 .. PacketCount
    <3>1. mem[a] \in 0 .. PacketCount /\ 0 \in 0 .. PacketCount /\ next \in 0 .. PacketCount
        BY <1>3, PacketCountNat DEF IInv, TypeOK, TypeFile
    <3> QED BY <3>1, <1>5
  <2>2. new = [a \in Address |-> new[a]]
    BY DEF Written
  <2> HIDE DEF new
  <2> QED BY <2>1, <2>2
<1> HIDE DEF new, at
<1>7. \A a \in Address : new[a] # 0 => a + input.size[new[a]] <= Base(ChunkCount)
    BY <1>3, <1>4, <1>5 DEF IInv, MemInv
<1> QED BY <1>6, <1>7 DEF new, at

\* The chunks of the packet being loaded are chunks, locked by the loader.
LEMMA HeldFacts ==
    ASSUME IInv
    PROVE  /\ LoaderIn(Loading \union {"share"}) => loading_idx \in Chunk
           /\ LoaderIn(Loading) => mtx[loading_idx] = Loader
           /\ LoaderIn({"share"}) /\ i < needed =>
                loading_idx + i \in Chunk /\ mtx[loading_idx + i] = Loader
<1>1. LoaderIn(Loading \union {"share"}) => loading_idx \in Chunk
    BY ConstantsAssumption
       DEF IInv, TypeOK, TypeIndex, LoaderInv, Chunk, Loading, LoaderIn
<1>2. LoaderIn(Loading) => mtx[loading_idx] = Loader
    BY <1>1, ConstantsAssumption
       DEF IInv, TypeOK, TypeIndex, RingInv, HeldByLoader, Chunk, Loading, LoaderIn
<1>3. LoaderIn({"share"}) /\ i < needed =>
        loading_idx + i \in Chunk /\ mtx[loading_idx + i] = Loader
    BY ConstantsAssumption
       DEF IInv, TypeOK, TypeIndex, LoaderInv, RingInv, HeldByLoader, Chunk, LoaderIn
<1> QED BY <1>1, <1>2, <1>3

\* A step that changes neither the ring nor the files, indices and flags.
LEMMA DataUnchanged ==
    ASSUME IInv, UNCHANGED dataVars
    PROVE  TypeRing' /\ TypeFile' /\ TypeIndex' /\ TypeFlag' /\ MemInv'
BY DEF IInv, TypeOK, TypeRing, TypeFile, TypeIndex, TypeFlag, MemInv, PacketCount,
       ringVars, fileVars, skipVars, loadVars, fullVars, resultVars, replayVars,
       sharedVars, dataVars

-----------------------------------------------------------------------------
(* The steps of the loading thread and of the replay thread.              *)

\* No step of the loading thread breaks the invariant.
LEMMA LoaderKeepsIInv ==
    ASSUME IInv, AllFit, ~StatusReread, LoaderStep
    PROVE  IInv'
<1> USE ConstantsAssumption DEF
    At, Goto, Jump, Loader, Replay, Thread, Free, LoaderIn, ReplayIn,
    Skipping, Grabbing, Loading, Releasing, ringVars, fileVars, skipVars,
    loadVars, fullVars, resultVars, replayVars, sharedVars, dataVars
<1>1. CASE L_Exit
  <2>1. UNCHANGED dataVars
    BY <1>1 DEF L_Exit
  <2>2. TypeControl'
    BY <1>1 DEF L_Exit, IInv, TypeOK, TypeControl, LoaderPlaces, ReplayPlaces
  <2>3. RingInv' /\ LoaderInv' /\ ReplayInv'
    BY <1>1 DEF L_Exit, IInv, TypeOK, TypeRing, TypeControl, TypeIndex,
       RingInv, LoaderInv, ReplayInv, HeldByLoader, MarkedLoading, Chunk,
       Taken, NoMorePackets, PacketCount
  <2> QED BY <2>1, <2>2, <2>3, DataUnchanged DEF IInv, TypeOK
<1>2. CASE L_Wrap
  <2>1. TypeRing' /\ TypeControl'
    BY <1>2 DEF L_Wrap, IInv, TypeOK, TypeRing, Chunk, Status, TypeControl,
       LoaderPlaces, ReplayPlaces, NotifyIf, Notify
  <2>2. TypeFile' /\ TypeFlag' /\ MemInv'
    BY <1>2 DEF L_Wrap, IInv, TypeOK, TypeFile, PacketCount, TypeFlag, MemInv
  <2>3. TypeIndex'
    BY <1>2 DEF L_Wrap, IInv, TypeOK, TypeIndex, LoaderInv, ReplayInv, Chunk
  <2>4. RingInv'
    BY <1>2 DEF L_Wrap, IInv, TypeOK, TypeRing, TypeControl, TypeIndex,
       RingInv, LoaderInv, ReplayInv, HeldByLoader, MarkedLoading, Chunk,
       Taken
  <2>5. LoaderInv'
    BY <1>2 DEF L_Wrap, IInv, TypeOK, TypeRing, TypeControl, TypeIndex,
       RingInv, LoaderInv, ReplayInv, Taken, Chunk, NoMorePackets, PacketCount
  <2>6. ReplayInv'
    BY <1>2 DEF L_Wrap, IInv, TypeOK, TypeRing, TypeControl, TypeIndex,
       RingInv, LoaderInv, ReplayInv, Chunk, HeldByLoader, MarkedLoading,
       Taken
  <2> QED BY <2>1, <2>2, <2>3, <2>4, <2>5, <2>6 DEF IInv, TypeOK
<1>3. CASE L_Turn
  <2>1. UNCHANGED dataVars
    BY <1>3 DEF L_Turn
  <2>2. TypeControl'
    BY <1>3 DEF L_Turn, IInv, TypeOK, TypeControl, LoaderPlaces, ReplayPlaces
  <2>3. RingInv' /\ LoaderInv' /\ ReplayInv'
    BY <1>3 DEF L_Turn, IInv, TypeOK, TypeRing, TypeControl, TypeIndex,
       RingInv, LoaderInv, ReplayInv, HeldByLoader, MarkedLoading, Chunk,
       Taken, NoMorePackets, PacketCount
  <2> QED BY <2>1, <2>2, <2>3, DataUnchanged DEF IInv, TypeOK
<1>4. CASE L_SkipNotify
  <2>1. UNCHANGED dataVars
    BY <1>4 DEF L_SkipNotify
  <2>2. TypeControl'
    BY <1>4 DEF L_SkipNotify, IInv, TypeOK, TypeControl, LoaderPlaces,
       ReplayPlaces, Notify
  <2>3. RingInv' /\ LoaderInv' /\ ReplayInv'
    BY <1>4 DEF L_SkipNotify, IInv, TypeOK, TypeRing, TypeControl, TypeIndex,
       RingInv, LoaderInv, ReplayInv, HeldByLoader, MarkedLoading, Chunk,
       Taken, NoMorePackets, PacketCount
  <2> QED BY <2>1, <2>2, <2>3, DataUnchanged DEF IInv, TypeOK
<1>5. CASE L_SkipNone
  <2>1. TypeRing' /\ TypeControl'
    BY <1>5 DEF L_SkipNone, IInv, TypeOK, TypeRing, Chunk, Status,
       TypeControl, LoaderPlaces, ReplayPlaces
  <2>2. TypeFile' /\ TypeFlag' /\ MemInv'
    BY <1>5 DEF L_SkipNone, IInv, TypeOK, TypeFile, PacketCount, TypeFlag,
       MemInv
  <2>3. TypeIndex'
    BY <1>5 DEF L_SkipNone, IInv, TypeOK, TypeIndex, LoaderInv, ReplayInv,
       Chunk
  <2>4. RingInv'
    BY <1>5 DEF L_SkipNone, IInv, TypeOK, TypeRing, TypeControl, TypeIndex,
       RingInv, LoaderInv, ReplayInv, HeldByLoader, MarkedLoading, Chunk,
       Taken
  <2>5. LoaderInv'
    BY <1>5 DEF L_SkipNone, IInv, TypeOK, TypeRing, TypeControl, TypeIndex,
       RingInv, LoaderInv, ReplayInv, Taken, Chunk, NoMorePackets, PacketCount
  <2>6. ReplayInv'
    BY <1>5 DEF L_SkipNone, IInv, TypeOK, TypeRing, TypeControl, TypeIndex,
       RingInv, LoaderInv, ReplayInv, Chunk, HeldByLoader, MarkedLoading,
       Taken
  <2> QED BY <2>1, <2>2, <2>3, <2>4, <2>5, <2>6 DEF IInv, TypeOK
<1>6. CASE L_Status
  <2>1. UNCHANGED dataVars
    BY <1>6 DEF L_Status
  <2>2. TypeControl'
    BY <1>6 DEF L_Status, IInv, TypeOK, TypeControl, LoaderPlaces,
       ReplayPlaces
  <2>3. RingInv' /\ LoaderInv' /\ ReplayInv'
    BY <1>6 DEF L_Status, IInv, TypeOK, TypeRing, TypeControl, TypeIndex,
       RingInv, LoaderInv, ReplayInv, HeldByLoader, MarkedLoading, Chunk,
       Taken, NoMorePackets, PacketCount
  <2> QED BY <2>1, <2>2, <2>3, DataUnchanged DEF IInv, TypeOK
<1>7. CASE L_Lock
  <2>1. TypeRing' /\ TypeControl'
    BY <1>7 DEF L_Lock, IInv, TypeOK, TypeRing, Chunk, Status, TypeControl,
       LoaderPlaces, ReplayPlaces
  <2>2. TypeFile' /\ TypeFlag' /\ MemInv'
    BY <1>7 DEF L_Lock, IInv, TypeOK, TypeFile, PacketCount, TypeFlag, MemInv
  <2>3. TypeIndex'
    BY <1>7 DEF L_Lock, IInv, TypeOK, TypeIndex, LoaderInv, ReplayInv, Chunk
  <2>4. RingInv'
    BY <1>7 DEF L_Lock, IInv, TypeOK, TypeRing, TypeControl, TypeIndex,
       RingInv, LoaderInv, ReplayInv, HeldByLoader, MarkedLoading, Chunk,
       Taken
  <2>5. LoaderInv'
    BY <1>7 DEF L_Lock, IInv, TypeOK, TypeRing, TypeControl, TypeIndex,
       RingInv, LoaderInv, ReplayInv, Taken, Chunk, NoMorePackets, PacketCount
  <2>6. ReplayInv'
    BY <1>7 DEF L_Lock, IInv, TypeOK, TypeRing, TypeControl, TypeIndex,
       RingInv, LoaderInv, ReplayInv, Chunk, HeldByLoader, MarkedLoading,
       Taken
  <2> QED BY <2>1, <2>2, <2>3, <2>4, <2>5, <2>6 DEF IInv, TypeOK
<1>8. CASE L_PlanSkip
  <2>1. TypeRing' /\ TypeControl'
    BY <1>8 DEF L_PlanSkip, IInv, TypeOK, TypeRing, Chunk, Status,
       TypeControl, LoaderPlaces, ReplayPlaces
  <2>2. TypeFile' /\ TypeFlag' /\ MemInv'
    BY <1>8 DEF L_PlanSkip, IInv, TypeOK, TypeFile, PacketCount, TypeFlag,
       MemInv
  <2>3. TypeIndex'
    BY <1>8 DEF L_PlanSkip, IInv, TypeOK, TypeIndex, LoaderInv, ReplayInv,
       Chunk
  <2>4. RingInv'
    <3>1. loading_idx # 0
      <4>1. ChunksFor(NextSize) \in Nat /\ ChunksFor(NextSize) <= ChunkCount
        BY <1>8, NextSizeFacts, ChunksForPositive
           DEF L_PlanSkip, DoesNotFit, IsLarge, IInv, TypeOK
      <4> QED BY <1>8, <4>1 DEF L_PlanSkip, DoesNotFit
    <3> QED BY <1>8, <3>1 DEF L_PlanSkip, IInv, TypeOK, TypeRing, TypeIndex, RingInv,
                   LoaderInv, ReplayInv, HeldByLoader, MarkedLoading, Chunk
  <2>5. LoaderInv'
    BY <1>8 DEF L_PlanSkip, IInv, TypeOK, TypeRing, TypeControl, TypeIndex,
       RingInv, LoaderInv, ReplayInv, Taken, Chunk, NoMorePackets, PacketCount
  <2>6. ReplayInv'
    BY <1>8 DEF L_PlanSkip, IInv, TypeOK, TypeRing, TypeControl, TypeIndex,
       RingInv, LoaderInv, ReplayInv, Chunk, HeldByLoader, MarkedLoading,
       Taken
  <2> QED BY <2>1, <2>2, <2>3, <2>4, <2>5, <2>6 DEF IInv, TypeOK
<1>9. CASE L_PlanLoad
  <2>1. needed' \in 1 .. ChunkCount /\ loading_idx + needed' <= ChunkCount
    BY <1>9, NextSizeFacts, ChunksForPositive
       DEF L_PlanLoad, DoesNotFit, IsLarge, IInv, TypeOK, TypeIndex, LoaderInv, Chunk
  <2>2. TypeRing' /\ TypeControl'
    BY <1>9, <2>1 DEF L_PlanLoad, IInv, TypeOK, TypeRing, Chunk, Status,
       TypeControl, LoaderPlaces, ReplayPlaces
  <2>3. TypeFile' /\ TypeFlag' /\ MemInv'
    BY <1>9 DEF L_PlanLoad, IInv, TypeOK, TypeFile, PacketCount, TypeFlag,
       MemInv
  <2>4. TypeIndex'
    BY <1>9, <2>1 DEF L_PlanLoad, IInv, TypeOK, TypeIndex
  <2>5. RingInv'
    BY <1>9, <2>1 DEF L_PlanLoad, IInv, TypeOK, TypeRing, TypeControl,
       TypeIndex, RingInv, LoaderInv, ReplayInv, HeldByLoader, MarkedLoading,
       Chunk, Taken
  <2>6. LoaderInv'
    BY <1>9, <2>1 DEF L_PlanLoad, IInv, TypeOK, TypeControl, LoaderInv
  <2>7. ReplayInv'
    BY <1>9, <2>1 DEF L_PlanLoad, IInv, TypeOK, TypeRing, TypeControl,
       TypeIndex, RingInv, LoaderInv, ReplayInv, Chunk, HeldByLoader,
       MarkedLoading, Taken
  <2> QED BY <2>2, <2>3, <2>4, <2>5, <2>6, <2>7 DEF IInv, TypeOK
<1>10. CASE L_SkipNext
  <2>1. UNCHANGED dataVars
    BY <1>10 DEF L_SkipNext
  <2>2. TypeControl'
    BY <1>10 DEF L_SkipNext, IInv, TypeOK, TypeControl, LoaderPlaces,
       ReplayPlaces
  <2>3. RingInv'
    BY <1>10 DEF L_SkipNext, IInv, TypeOK, TypeRing, TypeControl, TypeIndex,
       RingInv, LoaderInv, ReplayInv, HeldByLoader, MarkedLoading, Chunk,
       Taken
  <2>4. LoaderInv'
    BY <1>10 DEF L_SkipNext, IInv, TypeOK, TypeRing, TypeControl, TypeIndex,
       RingInv, LoaderInv, ReplayInv, Taken, Chunk, NoMorePackets,
       PacketCount, MarkedLoading, Status
  <2>5. ReplayInv'
    BY <1>10 DEF L_SkipNext, IInv, TypeOK, TypeRing, TypeControl, TypeIndex,
       RingInv, LoaderInv, ReplayInv, Chunk, HeldByLoader, MarkedLoading,
       Taken
  <2> QED BY <2>1, <2>2, <2>3, <2>4, <2>5, DataUnchanged DEF IInv, TypeOK
<1>11. CASE L_SkipGet
  <2>1. UNCHANGED dataVars
    BY <1>11 DEF L_SkipGet
  <2>2. TypeControl'
    BY <1>11 DEF L_SkipGet, IInv, TypeOK, TypeControl, LoaderPlaces,
       ReplayPlaces, Awake, Predicate
  <2>3. RingInv'
    BY <1>11 DEF L_SkipGet, IInv, TypeOK, TypeRing, TypeControl, TypeIndex,
       RingInv, LoaderInv, ReplayInv, HeldByLoader, MarkedLoading, Chunk,
       Taken, Awake, Predicate
  <2>4. LoaderInv'
    BY <1>11 DEF L_SkipGet, IInv, TypeOK, TypeRing, TypeControl, TypeIndex,
       RingInv, LoaderInv, ReplayInv, Taken, Chunk, NoMorePackets,
       PacketCount, Awake, Predicate
  <2>5. ReplayInv'
    BY <1>11 DEF L_SkipGet, IInv, TypeOK, TypeRing, TypeControl, TypeIndex,
       RingInv, LoaderInv, ReplayInv, Chunk, HeldByLoader, MarkedLoading,
       Taken, Awake, Predicate
  <2> QED BY <2>1, <2>2, <2>3, <2>4, <2>5, DataUnchanged DEF IInv, TypeOK
<1>12. CASE L_SkipLock
  <2>1. TypeRing' /\ TypeControl'
    BY <1>12 DEF L_SkipLock, IInv, TypeOK, TypeRing, Chunk, Status,
       TypeControl, LoaderPlaces, ReplayPlaces
  <2>2. TypeFile' /\ TypeFlag' /\ MemInv'
    BY <1>12 DEF L_SkipLock, IInv, TypeOK, TypeFile, PacketCount, TypeFlag,
       MemInv
  <2>3. TypeIndex'
    BY <1>12 DEF L_SkipLock, IInv, TypeOK, TypeIndex, LoaderInv, ReplayInv,
       Chunk
  <2>4. RingInv'
    BY <1>12 DEF L_SkipLock, IInv, TypeOK, TypeRing, TypeControl, TypeIndex,
       RingInv, LoaderInv, ReplayInv, HeldByLoader, MarkedLoading, Chunk,
       Taken
  <2>5. LoaderInv'
    BY <1>12 DEF L_SkipLock, IInv, TypeOK, TypeRing, TypeControl, TypeIndex,
       RingInv, LoaderInv, ReplayInv, Taken, Chunk, NoMorePackets, PacketCount
  <2>6. ReplayInv'
    BY <1>12 DEF L_SkipLock, IInv, TypeOK, TypeRing, TypeControl, TypeIndex,
       RingInv, LoaderInv, ReplayInv, Chunk, HeldByLoader, MarkedLoading,
       Taken
  <2> QED BY <2>1, <2>2, <2>3, <2>4, <2>5, <2>6 DEF IInv, TypeOK
<1>13. CASE L_SkipMark
  <2>1. TypeRing' /\ TypeControl'
    BY <1>13 DEF L_SkipMark, IInv, TypeOK, TypeRing, Chunk, Status,
       TypeControl, LoaderPlaces, ReplayPlaces
  <2>2. TypeFile' /\ TypeFlag' /\ MemInv'
    BY <1>13 DEF L_SkipMark, IInv, TypeOK, TypeFile, PacketCount, TypeFlag,
       MemInv
  <2>3. TypeIndex'
    BY <1>13 DEF L_SkipMark, IInv, TypeOK, TypeIndex, LoaderInv, ReplayInv,
       Chunk
  <2>4. RingInv'
    BY <1>13 DEF L_SkipMark, IInv, TypeOK, TypeRing, TypeControl, TypeIndex,
       RingInv, LoaderInv, ReplayInv, HeldByLoader, MarkedLoading, Chunk,
       Taken
  <2>5. LoaderInv'
    BY <1>13 DEF L_SkipMark, IInv, TypeOK, TypeRing, TypeControl, TypeIndex,
       RingInv, LoaderInv, ReplayInv, Taken, Chunk, NoMorePackets, PacketCount
  <2>6. ReplayInv'
    BY <1>13 DEF L_SkipMark, IInv, TypeOK, TypeRing, TypeControl, TypeIndex,
       RingInv, LoaderInv, ReplayInv, Chunk, HeldByLoader, MarkedLoading,
       Taken
  <2> QED BY <2>1, <2>2, <2>3, <2>4, <2>5, <2>6 DEF IInv, TypeOK
<1>14. CASE L_SkipDone
  <2>1. TypeRing' /\ TypeControl'
    BY <1>14 DEF L_SkipDone, IInv, TypeOK, TypeRing, Chunk, Status,
       TypeControl, LoaderPlaces, ReplayPlaces
  <2>2. TypeFile' /\ TypeFlag' /\ MemInv'
    BY <1>14 DEF L_SkipDone, IInv, TypeOK, TypeFile, PacketCount, TypeFlag,
       MemInv
  <2>3. TypeIndex'
    BY <1>14 DEF L_SkipDone, IInv, TypeOK, TypeIndex, LoaderInv, ReplayInv,
       Chunk
  <2>4. RingInv'
    BY <1>14 DEF L_SkipDone, IInv, TypeOK, TypeRing, TypeControl, TypeIndex,
       RingInv, LoaderInv, ReplayInv, HeldByLoader, MarkedLoading, Chunk,
       Taken
  <2>5. LoaderInv'
    BY <1>14 DEF L_SkipDone, IInv, TypeOK, TypeRing, TypeControl, TypeIndex,
       RingInv, LoaderInv, ReplayInv, Taken, Chunk, NoMorePackets, PacketCount
  <2>6. ReplayInv'
    BY <1>14 DEF L_SkipDone, IInv, TypeOK, TypeRing, TypeControl, TypeIndex,
       RingInv, LoaderInv, ReplayInv, Chunk, HeldByLoader, MarkedLoading,
       Taken
  <2> QED BY <2>1, <2>2, <2>3, <2>4, <2>5, <2>6 DEF IInv, TypeOK
<1>15. CASE L_GrabNext
  <2>1. UNCHANGED dataVars
    BY <1>15 DEF L_GrabNext
  <2>2. TypeControl'
    BY <1>15 DEF L_GrabNext, IInv, TypeOK, TypeControl, LoaderPlaces,
       ReplayPlaces
  <2>3. RingInv'
    BY <1>15 DEF L_GrabNext, IInv, TypeOK, TypeRing, TypeControl, TypeIndex,
       RingInv, LoaderInv, ReplayInv, HeldByLoader, MarkedLoading, Chunk,
       Taken
  <2>4. LoaderInv'
    BY <1>15 DEF L_GrabNext, IInv, TypeOK, TypeRing, TypeControl, TypeIndex,
       RingInv, LoaderInv, ReplayInv, Taken, Chunk, NoMorePackets,
       PacketCount, MarkedLoading, Status
  <2>5. ReplayInv'
    BY <1>15 DEF L_GrabNext, IInv, TypeOK, TypeRing, TypeControl, TypeIndex,
       RingInv, LoaderInv, ReplayInv, Chunk, HeldByLoader, MarkedLoading,
       Taken
  <2> QED BY <2>1, <2>2, <2>3, <2>4, <2>5, DataUnchanged DEF IInv, TypeOK
<1>16. CASE L_GrabGet
  <2>1. UNCHANGED dataVars
    BY <1>16 DEF L_GrabGet
  <2>2. TypeControl'
    BY <1>16 DEF L_GrabGet, IInv, TypeOK, TypeControl, LoaderPlaces,
       ReplayPlaces, Awake, Predicate
  <2>3. RingInv'
    BY <1>16 DEF L_GrabGet, IInv, TypeOK, TypeRing, TypeControl, TypeIndex,
       RingInv, LoaderInv, ReplayInv, HeldByLoader, MarkedLoading, Chunk,
       Taken, Awake, Predicate
  <2>4. LoaderInv'
    BY <1>16 DEF L_GrabGet, IInv, TypeOK, TypeRing, TypeControl, TypeIndex,
       RingInv, LoaderInv, ReplayInv, Taken, Chunk, NoMorePackets,
       PacketCount, Awake, Predicate
  <2>5. ReplayInv'
    BY <1>16 DEF L_GrabGet, IInv, TypeOK, TypeRing, TypeControl, TypeIndex,
       RingInv, LoaderInv, ReplayInv, Chunk, HeldByLoader, MarkedLoading,
       Taken, Awake, Predicate
  <2> QED BY <2>1, <2>2, <2>3, <2>4, <2>5, DataUnchanged DEF IInv, TypeOK
<1>17. CASE L_GrabLock
  <2>1. TypeRing' /\ TypeControl'
    BY <1>17 DEF L_GrabLock, IInv, TypeOK, TypeRing, Chunk, Status,
       TypeControl, LoaderPlaces, ReplayPlaces
  <2>2. TypeFile' /\ TypeFlag' /\ MemInv'
    BY <1>17 DEF L_GrabLock, IInv, TypeOK, TypeFile, PacketCount, TypeFlag,
       MemInv
  <2>3. TypeIndex'
    BY <1>17 DEF L_GrabLock, IInv, TypeOK, TypeIndex, LoaderInv, ReplayInv,
       Chunk
  <2>4. RingInv'
    BY <1>17 DEF L_GrabLock, IInv, TypeOK, TypeRing, TypeControl, TypeIndex,
       RingInv, LoaderInv, ReplayInv, HeldByLoader, MarkedLoading, Chunk,
       Taken
  <2>5. LoaderInv'
    <3>1. LoaderIn({"grab"})' /\ LoaderIn(Grabbing) /\ LoaderIn({"grabLock"})
      BY <1>17 DEF L_GrabLock, At, Goto, Grabbing, LoaderIn, IInv, TypeOK,
         TypeControl
    <3>2. /\ i < needed /\ status[loading_idx] = "EMPTY"
          /\ loading_idx + needed <= ChunkCount
      BY <3>1 DEF IInv, LoaderInv, LoaderIn, Grabbing
    <3>3. i \in Nat /\ i # 0 /\ needed \in Nat /\ loading_idx \in Nat
      BY <1>17, <3>1, <3>2 DEF L_GrabLock, IInv, TypeOK, TypeIndex, LoaderIn,
         Grabbing
    <3>4. i' <= needed' /\ loading_idx' + needed' <= ChunkCount
      BY <1>17, <3>2, <3>3 DEF L_GrabLock
    <3>5. (status[loading_idx] = "EMPTY")'
      BY <1>17, <3>2, <3>3 DEF L_GrabLock, IInv, TypeOK, TypeRing
    <3> QED BY <3>1, <3>4, <3>5 DEF LoaderInv, LoaderIn, Grabbing, Loading,
            Skipping
  <2>6. ReplayInv'
    BY <1>17 DEF L_GrabLock, IInv, TypeOK, TypeRing, TypeControl, TypeIndex,
       RingInv, LoaderInv, ReplayInv, Chunk, HeldByLoader, MarkedLoading,
       Taken
  <2> QED BY <2>1, <2>2, <2>3, <2>4, <2>5, <2>6 DEF IInv, TypeOK
<1>18. CASE L_Begin
  <2>1. TypeRing'
    BY <1>18 DEF L_Begin, IInv, TypeOK, TypeRing, Chunk, Status
  <2>2. TypeControl'
    BY <1>18 DEF L_Begin, IInv, TypeOK, TypeControl, LoaderPlaces,
       ReplayPlaces, NotifyIf, Notify
  <2>3. TypeFile' /\ TypeFlag' /\ MemInv'
    BY <1>18 DEF L_Begin, IInv, TypeOK, TypeFile, PacketCount, TypeFlag,
       MemInv
  <2>4. TypeIndex'
    BY <1>18 DEF L_Begin, IInv, TypeOK, TypeIndex, LoaderInv, ReplayInv, Chunk
  <2>5. RingInv'
    BY <1>18 DEF L_Begin, IInv, TypeOK, TypeRing, TypeControl, TypeIndex,
       RingInv, LoaderInv, ReplayInv, HeldByLoader, MarkedLoading, Chunk,
       Taken
  <2>6. LoaderInv'
    BY <1>18 DEF L_Begin, IInv, TypeOK, TypeRing, TypeControl, TypeIndex,
       RingInv, LoaderInv, ReplayInv, Taken, Chunk, NoMorePackets, PacketCount
  <2>7. ReplayInv'
    BY <1>18 DEF L_Begin, IInv, TypeOK, TypeRing, TypeControl, TypeIndex,
       RingInv, LoaderInv, ReplayInv, Chunk, HeldByLoader, MarkedLoading,
       Taken
  <2> QED BY <2>1, <2>2, <2>3, <2>4, <2>5, <2>6, <2>7 DEF IInv, TypeOK
<1>19. CASE L_Load
  <2>1. TypeRing' /\ TypeControl'
    BY <1>19 DEF L_Load, IInv, TypeOK, TypeRing, Chunk, Status, TypeControl,
       LoaderPlaces, ReplayPlaces, NotifyIf, Notify
  <2>2. TypeFile' /\ MemInv'
    BY <1>19, WrittenKeepsMemInv DEF L_Load, IInv, TypeOK, TypeFile, MemInv, PacketCount
  <2>3. TypeFlag'
    BY <1>19 DEF L_Load, IInv, TypeOK, TypeFlag
  <2>4. TypeIndex'
    BY <1>19 DEF L_Load, IInv, TypeOK, TypeIndex, LoaderInv, ReplayInv, Chunk
  <2>5. RingInv'
    BY <1>19 DEF L_Load, IInv, TypeOK, TypeRing, TypeControl, TypeIndex,
       RingInv, LoaderInv, ReplayInv, HeldByLoader, MarkedLoading, Chunk,
       Taken
  <2>6. LoaderInv'
    BY <1>19 DEF L_Load, IInv, TypeOK, TypeRing, TypeControl, TypeIndex,
       RingInv, LoaderInv, ReplayInv, Taken, Chunk, NoMorePackets,
       PacketCount, MayLoad
  <2>7. ReplayInv'
    BY <1>19 DEF L_Load, IInv, TypeOK, TypeRing, TypeControl, TypeIndex,
       RingInv, LoaderInv, ReplayInv, Chunk, HeldByLoader, MarkedLoading,
       Taken
  <2> QED BY <2>1, <2>2, <2>3, <2>4, <2>5, <2>6, <2>7 DEF IInv, TypeOK
<1>20. CASE L_LoadFail
  <2>1. TypeRing' /\ TypeControl'
    BY <1>20 DEF L_LoadFail, IInv, TypeOK, TypeRing, Chunk, Status,
       TypeControl, LoaderPlaces, ReplayPlaces
  <2>2. TypeFile' /\ MemInv'
    BY <1>20, WrittenKeepsMemInv DEF L_LoadFail, IInv, TypeOK, TypeFile, MemInv, PacketCount
  <2>3. TypeFlag'
    BY <1>20 DEF L_LoadFail, IInv, TypeOK, TypeFlag
  <2>4. TypeIndex'
    BY <1>20 DEF L_LoadFail, IInv, TypeOK, TypeIndex, LoaderInv, ReplayInv,
       Chunk
  <2>5. RingInv'
    BY <1>20 DEF L_LoadFail, IInv, TypeOK, TypeRing, TypeControl, TypeIndex,
       RingInv, LoaderInv, ReplayInv, HeldByLoader, MarkedLoading, Chunk,
       Taken
  <2>6. LoaderInv'
    BY <1>20 DEF L_LoadFail, IInv, TypeOK, TypeRing, TypeControl, TypeIndex,
       RingInv, LoaderInv, ReplayInv, Taken, Chunk, NoMorePackets, PacketCount
  <2>7. ReplayInv'
    BY <1>20 DEF L_LoadFail, IInv, TypeOK, TypeRing, TypeControl, TypeIndex,
       RingInv, LoaderInv, ReplayInv, Chunk, HeldByLoader, MarkedLoading,
       Taken
  <2> QED BY <2>1, <2>2, <2>3, <2>4, <2>5, <2>6, <2>7 DEF IInv, TypeOK
<1>21. CASE L_Loaded
  <2>1. TypeRing'
    BY <1>21, NextSizeFacts, HeldFacts DEF L_Loaded, IInv, TypeOK, TypeRing,
       Chunk, Status
  <2>2. TypeControl'
    BY <1>21 DEF L_Loaded, IInv, TypeOK, TypeControl, LoaderPlaces,
       ReplayPlaces
  <2>3. TypeFile'
    BY <1>21, PacketCountNat DEF L_Loaded, IInv, TypeOK, TypeFile,
       PacketCount, LoaderInv, NoMorePackets
  <2>4. TypeFlag' /\ MemInv'
    BY <1>21 DEF L_Loaded, IInv, TypeOK, TypeFlag, MemInv
  <2>5. TypeIndex'
    BY <1>21 DEF L_Loaded, IInv, TypeOK, TypeIndex, LoaderInv, ReplayInv,
       Chunk
  <2>6. RingInv'
    BY <1>21 DEF L_Loaded, IInv, TypeOK, TypeRing, TypeControl, TypeIndex,
       RingInv, LoaderInv, ReplayInv, HeldByLoader, MarkedLoading, Chunk,
       Taken
  <2>7. LoaderInv'
    BY <1>21 DEF L_Loaded, IInv, TypeOK, TypeRing, TypeControl, TypeIndex,
       RingInv, LoaderInv, ReplayInv, Taken, Chunk, NoMorePackets, PacketCount
  <2>8. ReplayInv'
    BY <1>21 DEF L_Loaded, IInv, TypeOK, TypeRing, TypeControl, TypeIndex,
       RingInv, LoaderInv, ReplayInv, Chunk, HeldByLoader, MarkedLoading,
       Taken
  <2> QED BY <2>1, <2>2, <2>3, <2>4, <2>5, <2>6, <2>7, <2>8 DEF IInv, TypeOK
<1>22. CASE L_Ready
  <2>1. loading_idx \in Chunk /\ mtx[loading_idx] = Loader
    BY <1>22, HeldFacts DEF L_Ready
  <2>2. ReplayIn({"locked", "take", "emptied"}) => using_idx # loading_idx
    BY <2>1 DEF IInv, ReplayInv
  <2>3. TypeRing' /\ TypeControl'
    BY <1>22, <2>1, <2>2 DEF L_Ready, IInv, TypeOK, TypeRing, Chunk, Status,
       TypeControl, LoaderPlaces, ReplayPlaces
  <2>4. TypeFile' /\ TypeFlag' /\ MemInv'
    BY <1>22 DEF L_Ready, IInv, TypeOK, TypeFile, PacketCount, TypeFlag,
       MemInv
  <2>5. TypeIndex'
    BY <1>22, <2>1, <2>2 DEF L_Ready, IInv, TypeOK, TypeIndex, LoaderInv,
       ReplayInv, Chunk
  <2>6. RingInv'
    BY <1>22, <2>1, <2>2 DEF L_Ready, IInv, TypeOK, TypeRing, TypeControl,
       TypeIndex, RingInv, LoaderInv, ReplayInv, HeldByLoader, MarkedLoading,
       Chunk, Taken
  <2>7. LoaderInv'
    BY <1>22, <2>1, <2>2 DEF L_Ready, IInv, TypeOK, TypeRing, TypeControl,
       TypeIndex, RingInv, LoaderInv, ReplayInv, Taken, Chunk, NoMorePackets,
       PacketCount
  <2>8. ReplayInv'
    BY <1>22, <2>1, <2>2 DEF L_Ready, IInv, TypeOK, TypeRing, TypeControl,
       TypeIndex, RingInv, LoaderInv, ReplayInv, Chunk, HeldByLoader,
       MarkedLoading, Taken
  <2> QED BY <2>3, <2>4, <2>5, <2>6, <2>7, <2>8 DEF IInv, TypeOK
<1>23. CASE L_Share
  <2>1. loading_idx + i \in Chunk /\ mtx[loading_idx + i] = Loader /\ loading_idx \in Chunk
    BY <1>23, HeldFacts DEF L_Share
  <2>2. ReplayIn({"locked", "take", "emptied"}) => using_idx # loading_idx + i
    BY <2>1 DEF IInv, ReplayInv
  <2>3. TypeRing'
    BY <1>23, <2>1 DEF L_Share, IInv, TypeOK, TypeRing, Status
  <2>4. TypeControl'
    BY <1>23 DEF L_Share, IInv, TypeOK, TypeControl, LoaderPlaces,
       ReplayPlaces, Notify
  <2>5. TypeFile' /\ TypeFlag' /\ MemInv'
    BY <1>23 DEF L_Share, IInv, TypeOK, TypeFile, PacketCount, TypeFlag,
       MemInv
  <2>6. TypeIndex'
    BY <1>23, <2>1, <2>2 DEF L_Share, IInv, TypeOK, TypeIndex, LoaderInv,
       ReplayInv, Chunk
  <2>7. RingInv'
    BY <1>23, <2>1, <2>2 DEF L_Share, IInv, TypeOK, TypeRing, TypeControl,
       TypeIndex, RingInv, LoaderInv, ReplayInv, HeldByLoader, MarkedLoading,
       Chunk, Taken
  <2>8. LoaderInv'
    BY <1>23, <2>1 DEF L_Share, IInv, TypeOK, TypeIndex, LoaderInv
  <2>9. ReplayInv'
    BY <1>23, <2>1, <2>2 DEF L_Share, IInv, TypeOK, TypeRing, TypeControl,
       TypeIndex, RingInv, LoaderInv, ReplayInv, Chunk, HeldByLoader,
       MarkedLoading, Taken
  <2> QED BY <2>3, <2>4, <2>5, <2>6, <2>7, <2>8, <2>9 DEF IInv, TypeOK
<1>24. CASE L_Bump
  <2>1. TypeRing' /\ TypeControl'
    BY <1>24 DEF L_Bump, IInv, TypeOK, TypeRing, Chunk, Status, TypeControl,
       LoaderPlaces, ReplayPlaces, Notify
  <2>2. TypeFile' /\ TypeFlag' /\ MemInv'
    BY <1>24 DEF L_Bump, IInv, TypeOK, TypeFile, PacketCount, TypeFlag, MemInv
  <2>3. TypeIndex'
    BY <1>24 DEF L_Bump, IInv, TypeOK, TypeIndex, LoaderInv, ReplayInv, Chunk
  <2>4. RingInv'
    BY <1>24 DEF L_Bump, IInv, TypeOK, TypeRing, TypeControl, TypeIndex,
       RingInv, LoaderInv, ReplayInv, HeldByLoader, MarkedLoading, Chunk,
       Taken
  <2>5. LoaderInv'
    BY <1>24 DEF L_Bump, IInv, TypeOK, TypeRing, TypeControl, TypeIndex,
       RingInv, LoaderInv, ReplayInv, Taken, Chunk, NoMorePackets, PacketCount
  <2>6. ReplayInv'
    BY <1>24 DEF L_Bump, IInv, TypeOK, TypeRing, TypeControl, TypeIndex,
       RingInv, LoaderInv, ReplayInv, Chunk, HeldByLoader, MarkedLoading,
       Taken
  <2> QED BY <2>1, <2>2, <2>3, <2>4, <2>5, <2>6 DEF IInv, TypeOK
<1>25. CASE L_Finish
  <2>1. UNCHANGED dataVars
    BY <1>25 DEF L_Finish
  <2>2. TypeControl'
    BY <1>25 DEF L_Finish, IInv, TypeOK, TypeControl, LoaderPlaces,
       ReplayPlaces, NotifyIf, Notify
  <2>3. RingInv' /\ LoaderInv' /\ ReplayInv'
    BY <1>25 DEF L_Finish, IInv, TypeOK, TypeRing, TypeControl, TypeIndex,
       RingInv, LoaderInv, ReplayInv, HeldByLoader, MarkedLoading, Chunk,
       Taken, NoMorePackets, PacketCount
  <2> QED BY <2>1, <2>2, <2>3, DataUnchanged DEF IInv, TypeOK
<1>26. CASE L_Again
  <2>1. UNCHANGED dataVars
    BY <1>26 DEF L_Again
  <2>2. TypeControl'
    BY <1>26 DEF L_Again, IInv, TypeOK, TypeControl, LoaderPlaces,
       ReplayPlaces
  <2>3. RingInv' /\ LoaderInv' /\ ReplayInv'
    BY <1>26 DEF L_Again, IInv, TypeOK, TypeRing, TypeControl, TypeIndex,
       RingInv, LoaderInv, ReplayInv, HeldByLoader, MarkedLoading, Chunk,
       Taken, NoMorePackets, PacketCount
  <2> QED BY <2>1, <2>2, <2>3, DataUnchanged DEF IInv, TypeOK
<1> QED BY <1>1, <1>2, <1>3, <1>4, <1>5, <1>6, <1>7, <1>8, <1>9, <1>10, <1>11,
       <1>12, <1>13, <1>14, <1>15, <1>16, <1>17, <1>18, <1>19, <1>20, <1>21,
       <1>22, <1>23, <1>24, <1>25, <1>26 DEF LoaderStep

\* Nor does one of the replay thread.
LEMMA ReplayKeepsIInv ==
    ASSUME IInv, AllFit, ~StatusReread, ReplayStep
    PROVE  IInv'
<1> USE ConstantsAssumption DEF
    At, Goto, Jump, Loader, Replay, Thread, Free, LoaderIn, ReplayIn,
    Skipping, Grabbing, Loading, Releasing, ringVars, fileVars, skipVars,
    loadVars, fullVars, resultVars, replayVars, sharedVars, dataVars
<1>1. CASE R_Start
  <2>1. UNCHANGED dataVars
    BY <1>1 DEF R_Start
  <2>2. TypeControl'
    BY <1>1 DEF R_Start, IInv, TypeOK, TypeControl, LoaderPlaces,
       ReplayPlaces, Awake
  <2>3. RingInv' /\ LoaderInv' /\ ReplayInv'
    BY <1>1 DEF R_Start, IInv, TypeOK, TypeRing, TypeControl, TypeIndex,
       RingInv, LoaderInv, ReplayInv, HeldByLoader, MarkedLoading, Chunk,
       Taken, NoMorePackets, PacketCount, Awake
  <2> QED BY <2>1, <2>2, <2>3, DataUnchanged DEF IInv, TypeOK
<1>2. CASE R_Call
  <2>1. using_idx' \in Chunk
    BY <1>2 DEF R_Call, IInv, TypeOK, TypeIndex, Chunk
  <2>2. status[using_idx'] \in Status
    BY <2>1 DEF IInv, TypeOK, TypeRing
  <2>3. status[using_idx'] = "USING" => mtx[using_idx'] = Replay
    BY <2>1 DEF IInv, RingInv
  <2>4. /\ pc' = [pc EXCEPT ![Replay] = pc'[Replay]]
       /\ \/ pc'[Replay] = "skipWait" /\ status[using_idx'] = "SKIPPED"
          \/ pc'[Replay] = "lock" /\ status[using_idx'] \in {"READY", "LOADING"}
          \/ pc'[Replay] = "null"
          \/ pc'[Replay] = "take" /\ status[using_idx'] = "USING"
    BY <1>2, <2>2 DEF R_Call, Branch, Status, IInv, TypeOK, TypeControl
  <2>5. TypeRing'
    BY <1>2, <2>1, <2>2, <2>3, <2>4 DEF R_Call, IInv, TypeOK, TypeRing, Chunk,
       Status, Branch
  <2>6. TypeControl'
    BY <1>2 DEF R_Call, IInv, TypeOK, TypeControl, LoaderPlaces, ReplayPlaces,
       Branch
  <2>7. TypeFile' /\ TypeFlag' /\ MemInv'
    BY <1>2 DEF R_Call, IInv, TypeOK, TypeFile, PacketCount, TypeFlag, MemInv,
       Branch
  <2>8. TypeIndex'
    BY <1>2, <2>1, <2>2, <2>3, <2>4 DEF R_Call, IInv, TypeOK, TypeIndex,
       LoaderInv, ReplayInv, Chunk, Branch
  <2>9. RingInv'
    BY <1>2, <2>1, <2>2, <2>3, <2>4 DEF R_Call, IInv, TypeOK, TypeRing,
       TypeControl, TypeIndex, RingInv, LoaderInv, ReplayInv, HeldByLoader,
       MarkedLoading, Chunk, Taken, Branch
  <2>10. LoaderInv'
    BY <1>2, <2>1, <2>2, <2>3, <2>4 DEF R_Call, IInv, TypeOK, TypeRing,
       TypeControl, TypeIndex, RingInv, LoaderInv, ReplayInv, Taken, Chunk,
       NoMorePackets, PacketCount, Branch
  <2>11. ReplayInv'
    BY <1>2, <2>1, <2>3, <2>4 DEF R_Call, ReplayInv
  <2> QED BY <2>5, <2>6, <2>7, <2>8, <2>9, <2>10, <2>11 DEF IInv, TypeOK
<1>3. CASE R_SkipEmpty
  <2>1. TypeRing' /\ TypeControl'
    BY <1>3 DEF R_SkipEmpty, IInv, TypeOK, TypeRing, Chunk, Status,
       TypeControl, LoaderPlaces, ReplayPlaces, Awake
  <2>2. TypeFile' /\ TypeFlag' /\ MemInv'
    BY <1>3 DEF R_SkipEmpty, IInv, TypeOK, TypeFile, PacketCount, TypeFlag,
       MemInv, Awake
  <2>3. TypeIndex'
    BY <1>3 DEF R_SkipEmpty, IInv, TypeOK, TypeIndex, LoaderInv, ReplayInv,
       Chunk, Awake
  <2>4. RingInv'
    BY <1>3 DEF R_SkipEmpty, IInv, TypeOK, TypeRing, TypeControl, TypeIndex,
       RingInv, LoaderInv, ReplayInv, HeldByLoader, MarkedLoading, Chunk,
       Taken, Awake
  <2>5. LoaderInv'
    BY <1>3 DEF R_SkipEmpty, IInv, TypeOK, TypeRing, TypeControl, TypeIndex,
       RingInv, LoaderInv, ReplayInv, Taken, Chunk, NoMorePackets,
       PacketCount, Awake
  <2>6. ReplayInv'
    BY <1>3 DEF R_SkipEmpty, IInv, TypeOK, TypeRing, TypeControl, TypeIndex,
       RingInv, LoaderInv, ReplayInv, Chunk, HeldByLoader, MarkedLoading,
       Taken, Awake
  <2> QED BY <2>1, <2>2, <2>3, <2>4, <2>5, <2>6 DEF IInv, TypeOK
<1>4. CASE R_SkipClear
  <2>1. j \in Chunk
    BY <1>4 DEF R_SkipClear, IInv, TypeOK, TypeIndex, ReplayInv, Chunk
  <2>2. TypeRing' /\ TypeControl'
    BY <1>4, <2>1 DEF R_SkipClear, IInv, TypeOK, TypeRing, Chunk, Status,
       TypeControl, LoaderPlaces, ReplayPlaces
  <2>3. TypeFile' /\ TypeFlag' /\ MemInv'
    BY <1>4 DEF R_SkipClear, IInv, TypeOK, TypeFile, PacketCount, TypeFlag,
       MemInv
  <2>4. TypeIndex'
    BY <1>4, <2>1 DEF R_SkipClear, IInv, TypeOK, TypeIndex, LoaderInv,
       ReplayInv, Chunk
  <2>5. RingInv'
    BY <1>4, <2>1 DEF R_SkipClear, IInv, TypeOK, TypeRing, TypeControl,
       TypeIndex, RingInv, LoaderInv, ReplayInv, HeldByLoader, MarkedLoading,
       Chunk, Taken
  <2>6. LoaderInv'
    BY <1>4, <2>1 DEF R_SkipClear, IInv, TypeOK, TypeRing, TypeControl,
       TypeIndex, RingInv, LoaderInv, ReplayInv, Taken, Chunk, NoMorePackets,
       PacketCount
  <2>7. ReplayInv'
    BY <1>4, <2>1 DEF R_SkipClear, IInv, TypeOK, TypeRing, TypeControl,
       TypeIndex, RingInv, LoaderInv, ReplayInv, Chunk, HeldByLoader,
       MarkedLoading, Taken
  <2> QED BY <2>2, <2>3, <2>4, <2>5, <2>6, <2>7 DEF IInv, TypeOK
<1>5. CASE R_SkipDone
  <2>1. TypeRing' /\ TypeControl'
    BY <1>5 DEF R_SkipDone, IInv, TypeOK, TypeRing, Chunk, Status,
       TypeControl, LoaderPlaces, ReplayPlaces, Notify
  <2>2. TypeFile' /\ TypeFlag' /\ MemInv'
    BY <1>5 DEF R_SkipDone, IInv, TypeOK, TypeFile, PacketCount, TypeFlag,
       MemInv
  <2>3. TypeIndex'
    BY <1>5 DEF R_SkipDone, IInv, TypeOK, TypeIndex, LoaderInv, ReplayInv,
       Chunk
  <2>4. RingInv'
    BY <1>5 DEF R_SkipDone, IInv, TypeOK, TypeRing, TypeControl, TypeIndex,
       RingInv, LoaderInv, ReplayInv, HeldByLoader, MarkedLoading, Chunk,
       Taken
  <2>5. LoaderInv'
    BY <1>5 DEF R_SkipDone, IInv, TypeOK, TypeRing, TypeControl, TypeIndex,
       RingInv, LoaderInv, ReplayInv, Taken, Chunk, NoMorePackets, PacketCount
  <2>6. ReplayInv'
    BY <1>5 DEF R_SkipDone, IInv, TypeOK, TypeRing, TypeControl, TypeIndex,
       RingInv, LoaderInv, ReplayInv, Chunk, HeldByLoader, MarkedLoading,
       Taken
  <2> QED BY <2>1, <2>2, <2>3, <2>4, <2>5, <2>6 DEF IInv, TypeOK
<1>6. CASE R_Head
  <2>1. UNCHANGED dataVars
    BY <1>6 DEF R_Head
  <2>2. TypeControl'
    BY <1>6 DEF R_Head, IInv, TypeOK, TypeControl, LoaderPlaces, ReplayPlaces,
       Awake
  <2>3. RingInv'
    BY <1>6 DEF R_Head, IInv, TypeOK, TypeRing, TypeControl, TypeIndex,
       RingInv, LoaderInv, ReplayInv, HeldByLoader, MarkedLoading, Chunk,
       Taken, Awake
  <2>4. LoaderInv'
    BY <1>6 DEF R_Head, IInv, TypeOK, TypeRing, TypeControl, TypeIndex,
       RingInv, LoaderInv, ReplayInv, Taken, Chunk, NoMorePackets,
       PacketCount, Awake
  <2>5. ReplayInv'
    BY <1>6 DEF R_Head, IInv, TypeOK, TypeRing, TypeControl, TypeIndex,
       RingInv, LoaderInv, ReplayInv, Chunk, HeldByLoader, MarkedLoading,
       Taken, Awake
  <2> QED BY <2>1, <2>2, <2>3, <2>4, <2>5, DataUnchanged DEF IInv, TypeOK
<1>7. CASE R_IsReady
  <2>1. using_idx = 0 /\ 0 \in Chunk
    BY <1>7 DEF R_IsReady, IInv, ReplayInv, Chunk
  <2>2. status[0] \in {"EMPTY", "READY", "LOADING"}
    BY <1>7, <2>1
       DEF R_IsReady, IInv, TypeOK, TypeRing, RingInv, Status
  <2>3. UNCHANGED dataVars
    BY <1>7 DEF R_IsReady
  <2>4. TypeControl'
    BY <1>7 DEF R_IsReady, IInv, TypeOK, TypeControl, LoaderPlaces,
       ReplayPlaces, Branch
  <2>5. RingInv'
    BY <1>7, <2>1, <2>2 DEF R_IsReady, IInv, TypeOK, TypeRing, TypeControl,
       TypeIndex, RingInv, LoaderInv, ReplayInv, HeldByLoader, MarkedLoading,
       Chunk, Taken, Branch
  <2>6. LoaderInv'
    BY <1>7, <2>1, <2>2 DEF R_IsReady, IInv, TypeOK, TypeRing, TypeControl,
       TypeIndex, RingInv, LoaderInv, ReplayInv, Taken, Chunk, NoMorePackets,
       PacketCount, Branch
  <2>7. ReplayInv'
    BY <1>7, <2>1, <2>2 DEF R_IsReady, IInv, TypeOK, TypeRing, TypeControl,
       TypeIndex, RingInv, LoaderInv, ReplayInv, Chunk, HeldByLoader,
       MarkedLoading, Taken, Branch
  <2> QED BY <2>3, <2>4, <2>5, <2>6, <2>7, DataUnchanged DEF IInv, TypeOK
<1>8. CASE R_IsEmpty
  <2>1. UNCHANGED dataVars
    BY <1>8 DEF R_IsEmpty
  <2>2. TypeControl'
    BY <1>8 DEF R_IsEmpty, IInv, TypeOK, TypeControl, LoaderPlaces,
       ReplayPlaces
  <2>3. RingInv' /\ LoaderInv' /\ ReplayInv'
    BY <1>8 DEF R_IsEmpty, IInv, TypeOK, TypeRing, TypeControl, TypeIndex,
       RingInv, LoaderInv, ReplayInv, HeldByLoader, MarkedLoading, Chunk,
       Taken, NoMorePackets, PacketCount
  <2> QED BY <2>1, <2>2, <2>3, DataUnchanged DEF IInv, TypeOK
<1>9. CASE R_Lock
  <2>1. TypeRing' /\ TypeControl'
    BY <1>9 DEF R_Lock, IInv, TypeOK, TypeRing, Chunk, Status, TypeControl,
       LoaderPlaces, ReplayPlaces
  <2>2. TypeFile' /\ TypeFlag' /\ MemInv'
    BY <1>9 DEF R_Lock, IInv, TypeOK, TypeFile, PacketCount, TypeFlag, MemInv
  <2>3. TypeIndex'
    BY <1>9 DEF R_Lock, IInv, TypeOK, TypeIndex, LoaderInv, ReplayInv, Chunk
  <2>4. RingInv'
    BY <1>9 DEF R_Lock, IInv, TypeOK, TypeRing, TypeControl, TypeIndex,
       RingInv, LoaderInv, ReplayInv, HeldByLoader, MarkedLoading, Chunk,
       Taken
  <2>5. LoaderInv'
    BY <1>9 DEF R_Lock, IInv, TypeOK, TypeRing, TypeControl, TypeIndex,
       RingInv, LoaderInv, ReplayInv, Taken, Chunk, NoMorePackets, PacketCount
  <2>6. ReplayInv'
    BY <1>9 DEF R_Lock, IInv, TypeOK, TypeRing, TypeControl, TypeIndex,
       RingInv, LoaderInv, ReplayInv, Chunk, HeldByLoader, MarkedLoading,
       Taken
  <2> QED BY <2>1, <2>2, <2>3, <2>4, <2>5, <2>6 DEF IInv, TypeOK
<1>10. CASE R_Use
  <2>1. using_idx \in Chunk /\ Base(using_idx) \in Nat
    BY <1>10, BaseNat DEF R_Use, IInv, ReplayInv, Chunk
  <2>2. TypeRing'
    BY <1>10, <2>1 DEF R_Use, IInv, TypeOK, TypeRing, Chunk, Status
  <2>3. TypeControl'
    BY <1>10 DEF R_Use, IInv, TypeOK, TypeControl, LoaderPlaces, ReplayPlaces
  <2>4. TypeFile' /\ TypeFlag' /\ MemInv'
    BY <1>10 DEF R_Use, IInv, TypeOK, TypeFile, PacketCount, TypeFlag, MemInv
  <2>5. TypeIndex'
    BY <1>10, <2>1 DEF R_Use, IInv, TypeOK, TypeIndex, LoaderInv, ReplayInv,
       Chunk, TypeRing
  <2>6. RingInv'
    BY <1>10, <2>1 DEF R_Use, IInv, TypeOK, TypeRing, TypeControl, TypeIndex,
       RingInv, LoaderInv, ReplayInv, HeldByLoader, MarkedLoading, Chunk,
       Taken
  <2>7. LoaderInv'
    BY <1>10, <2>1 DEF R_Use, IInv, TypeOK, TypeRing, TypeControl, TypeIndex,
       RingInv, LoaderInv, ReplayInv, Taken, Chunk, NoMorePackets, PacketCount
  <2>8. ReplayInv'
    BY <1>10, <2>1 DEF R_Use, IInv, TypeOK, TypeRing, TypeControl, TypeIndex,
       RingInv, LoaderInv, ReplayInv, Chunk, HeldByLoader, MarkedLoading,
       Taken
  <2> QED BY <2>2, <2>3, <2>4, <2>5, <2>6, <2>7, <2>8 DEF IInv, TypeOK
<1>11. CASE R_Null
  <2>1. UNCHANGED dataVars
    BY <1>11 DEF R_Null
  <2>2. TypeControl'
    BY <1>11 DEF R_Null, IInv, TypeOK, TypeControl, LoaderPlaces, ReplayPlaces
  <2>3. RingInv' /\ LoaderInv' /\ ReplayInv'
    BY <1>11 DEF R_Null, IInv, TypeOK, TypeRing, TypeControl, TypeIndex,
       RingInv, LoaderInv, ReplayInv, HeldByLoader, MarkedLoading, Chunk,
       Taken, NoMorePackets, PacketCount
  <2> QED BY <2>1, <2>2, <2>3, DataUnchanged DEF IInv, TypeOK
<1>12. CASE R_Take
  <2>1. using_idx \in Chunk /\ Base(using_idx) \in Nat /\ current[using_idx] \in Nat
    BY <1>12, BaseNat DEF R_Take, IInv, TypeOK, TypeRing, ReplayInv, Chunk
  <2>2. current[using_idx] >= Base(using_idx)
    BY <1>12, <2>1 DEF R_Take, IInv, ReplayInv, RingInv
  <2>3. /\ current' = [current EXCEPT ![using_idx] = current'[using_idx]]
       /\ current'[using_idx] \in current[using_idx] + 1 .. Base(ChunkCount)
    <3> DEFINE size == input.size[HeaderAt(current[using_idx])]
    <3>1. size \in Nat \ {0} /\ current[using_idx] + size <= Base(ChunkCount)
        BY <1>12, HeaderFacts DEF R_Take, IInv, TypeOK
    <3>2. Base(ChunkCount) \in Nat
        BY BaseNat
    <3>3. current' = [current EXCEPT ![using_idx] = @ + size]
        BY <1>12 DEF R_Take
    <3>4. current'[using_idx] = current[using_idx] + size
        BY <2>1, <3>3 DEF IInv, TypeOK, TypeRing
    <3> HIDE DEF size
    <3>5. current' = [current EXCEPT ![using_idx] = current'[using_idx]]
        BY <3>3, <3>4
    <3>6. current'[using_idx] \in current[using_idx] + 1 .. Base(ChunkCount)
        BY <2>1, <3>1, <3>2, <3>4
    <3> QED BY <3>5, <3>6
  <2>4. TypeRing'
    BY <1>12, <2>1, <2>3 DEF R_Take, IInv, TypeOK, TypeRing
  <2>5. TypeControl'
    BY <1>12 DEF R_Take, IInv, TypeOK, TypeControl, LoaderPlaces, ReplayPlaces
  <2>6. TypeFile'
    BY <1>12, HeaderFacts, PacketCountNat DEF R_Take, IInv, TypeOK, TypeFile,
       PacketCount, TypeRing
  <2>7. TypeFlag' /\ MemInv'
    BY <1>12 DEF R_Take, IInv, TypeOK, TypeFlag, MemInv
  <2>8. TypeIndex'
    BY <1>12, <2>1, <2>2, <2>3 DEF R_Take, IInv, TypeOK, TypeIndex, LoaderInv,
       ReplayInv, Chunk
  <2>9. RingInv'
    BY <1>12, <2>1, <2>2, <2>3 DEF R_Take, IInv, TypeOK, TypeRing, TypeControl,
       RingInv, HeldByLoader, MarkedLoading
  <2>10. LoaderInv'
    BY <1>12 DEF R_Take, IInv, TypeOK, TypeControl, LoaderInv, Taken, NoMorePackets,
       PacketCount
  <2>11. ReplayInv'
    BY <1>12, <2>1, <2>2, <2>3 DEF R_Take, IInv, TypeOK, TypeRing, TypeControl, ReplayInv
  <2> QED BY <2>4, <2>5, <2>6, <2>7, <2>8, <2>9, <2>10, <2>11 DEF IInv, TypeOK
<1>13. CASE R_Garbage
  <2>1. TypeRing' /\ TypeControl'
    BY <1>13 DEF R_Garbage, IInv, TypeOK, TypeRing, Chunk, Status,
       TypeControl, LoaderPlaces, ReplayPlaces
  <2>2. TypeFile' /\ TypeFlag' /\ MemInv'
    BY <1>13 DEF R_Garbage, IInv, TypeOK, TypeFile, PacketCount, TypeFlag,
       MemInv
  <2>3. TypeIndex'
    BY <1>13 DEF R_Garbage, IInv, TypeOK, TypeIndex, LoaderInv, ReplayInv,
       Chunk
  <2>4. RingInv'
    BY <1>13 DEF R_Garbage, IInv, TypeOK, TypeRing, TypeControl, TypeIndex,
       RingInv, LoaderInv, ReplayInv, HeldByLoader, MarkedLoading, Chunk,
       Taken
  <2>5. LoaderInv'
    BY <1>13 DEF R_Garbage, IInv, TypeOK, TypeRing, TypeControl, TypeIndex,
       RingInv, LoaderInv, ReplayInv, Taken, Chunk, NoMorePackets, PacketCount
  <2>6. ReplayInv'
    BY <1>13 DEF R_Garbage, IInv, TypeOK, TypeRing, TypeControl, TypeIndex,
       RingInv, LoaderInv, ReplayInv, Chunk, HeldByLoader, MarkedLoading,
       Taken
  <2> QED BY <2>1, <2>2, <2>3, <2>4, <2>5, <2>6 DEF IInv, TypeOK
<1>14. CASE R_Emptied
  <2>1. using_idx \in Chunk /\ Base(using_idx) \in Nat
    BY <1>14, BaseNat DEF R_Emptied, IInv, ReplayInv, Chunk
  <2>2. current[using_idx] - Base(using_idx) \in 1 .. Base(ChunkCount - using_idx)
    <3>1. /\ ChunkCount - using_idx \in Nat /\ using_idx \in Nat
          /\ using_idx + (ChunkCount - using_idx) = ChunkCount
        BY <2>1 DEF Chunk
    <3>2. Base(using_idx) + Base(ChunkCount - using_idx) = Base(ChunkCount)
        BY <3>1 DEF Base
    <3>3. Base(ChunkCount - using_idx) \in Nat
        BY <3>1, BaseSum
    <3>4. current[using_idx] \in Base(using_idx) + 1 .. Base(ChunkCount)
        BY <1>14 DEF R_Emptied, IInv, ReplayInv
    <3> QED BY <2>1, <3>2, <3>3, <3>4
  <2>3. occupied' \in 1 .. ChunkCount - using_idx
    <3>1. ChunkCount - using_idx \in Nat
        BY <2>1 DEF Chunk
    <3>2. ChunksFor(current[using_idx] - Base(using_idx)) \in 1 .. ChunkCount - using_idx
        BY <2>2, <3>1, ChunksForBound, BaseSum
    <3> QED BY <1>14, <3>2 DEF R_Emptied
  <2>4. TypeRing'
    BY <1>14, <2>1, <2>2, <2>3 DEF R_Emptied, IInv, TypeOK, TypeRing, Chunk,
       Status
  <2>5. TypeControl'
    BY <1>14 DEF R_Emptied, IInv, TypeOK, TypeControl, LoaderPlaces,
       ReplayPlaces, Notify
  <2>6. TypeFile' /\ TypeFlag' /\ MemInv'
    BY <1>14 DEF R_Emptied, IInv, TypeOK, TypeFile, PacketCount, TypeFlag,
       MemInv
  <2>7. TypeIndex'
    BY <1>14, <2>1, <2>2, <2>3 DEF R_Emptied, IInv, TypeOK, TypeIndex,
       LoaderInv, ReplayInv, Chunk
  <2>8. RingInv'
    BY <1>14, <2>1, <2>2, <2>3 DEF R_Emptied, IInv, TypeOK, TypeRing,
       TypeControl, TypeIndex, RingInv, LoaderInv, ReplayInv, HeldByLoader,
       MarkedLoading, Chunk, Taken
  <2>9. LoaderInv'
    BY <1>14, <2>1, <2>2, <2>3 DEF R_Emptied, IInv, TypeOK, TypeRing,
       TypeControl, TypeIndex, RingInv, LoaderInv, ReplayInv, Taken, Chunk,
       NoMorePackets, PacketCount
  <2>10. ReplayInv'
    BY <1>14, <2>1, <2>2, <2>3 DEF R_Emptied, IInv, TypeOK, TypeRing,
       TypeControl, TypeIndex, RingInv, LoaderInv, ReplayInv, Chunk,
       HeldByLoader, MarkedLoading, Taken
  <2> QED BY <2>4, <2>5, <2>6, <2>7, <2>8, <2>9, <2>10 DEF IInv, TypeOK
<1>15. CASE R_ReleaseNext
  <2>1. UNCHANGED dataVars
    BY <1>15 DEF R_ReleaseNext
  <2>2. TypeControl'
    BY <1>15 DEF R_ReleaseNext, IInv, TypeOK, TypeControl, LoaderPlaces,
       ReplayPlaces
  <2>3. RingInv'
    BY <1>15 DEF R_ReleaseNext, IInv, TypeOK, TypeRing, TypeControl,
       TypeIndex, RingInv, LoaderInv, ReplayInv, HeldByLoader, MarkedLoading,
       Chunk, Taken
  <2>4. LoaderInv'
    BY <1>15 DEF R_ReleaseNext, IInv, TypeOK, TypeRing, TypeControl,
       TypeIndex, RingInv, LoaderInv, ReplayInv, Taken, Chunk, NoMorePackets,
       PacketCount
  <2>5. ReplayInv'
    BY <1>15 DEF R_ReleaseNext, IInv, TypeOK, TypeRing, TypeControl,
       TypeIndex, RingInv, LoaderInv, ReplayInv, Chunk, HeldByLoader,
       MarkedLoading, Taken
  <2> QED BY <2>1, <2>2, <2>3, <2>4, <2>5, DataUnchanged DEF IInv, TypeOK
<1>16. CASE R_ReleaseReady
  <2>1. UNCHANGED dataVars
    BY <1>16 DEF R_ReleaseReady
  <2>2. TypeControl'
    BY <1>16 DEF R_ReleaseReady, IInv, TypeOK, TypeControl, LoaderPlaces,
       ReplayPlaces, Awake
  <2>3. RingInv'
    BY <1>16 DEF R_ReleaseReady, IInv, TypeOK, TypeRing, TypeControl,
       TypeIndex, RingInv, LoaderInv, ReplayInv, HeldByLoader, MarkedLoading,
       Chunk, Taken, Awake
  <2>4. LoaderInv'
    BY <1>16 DEF R_ReleaseReady, IInv, TypeOK, TypeRing, TypeControl,
       TypeIndex, RingInv, LoaderInv, ReplayInv, Taken, Chunk, NoMorePackets,
       PacketCount, Awake
  <2>5. ReplayInv'
    BY <1>16 DEF R_ReleaseReady, IInv, TypeOK, TypeRing, TypeControl,
       TypeIndex, RingInv, LoaderInv, ReplayInv, Chunk, HeldByLoader,
       MarkedLoading, Taken, Awake
  <2> QED BY <2>1, <2>2, <2>3, <2>4, <2>5, DataUnchanged DEF IInv, TypeOK
<1>17. CASE R_ReleaseLock
  <2>1. j \in Chunk /\ j \in Nat
    BY <1>17 DEF R_ReleaseLock, IInv, TypeOK, TypeIndex, ReplayInv, Chunk
  <2>2. Base(j) \in Nat
    BY <2>1, BaseNat
  <2>3. TypeRing'
    BY <1>17, <2>1, <2>2 DEF R_ReleaseLock, IInv, TypeOK, TypeRing, Chunk,
       Status
  <2>4. TypeControl'
    BY <1>17 DEF R_ReleaseLock, IInv, TypeOK, TypeControl, LoaderPlaces,
       ReplayPlaces, Notify
  <2>5. TypeFile' /\ TypeFlag' /\ MemInv'
    BY <1>17 DEF R_ReleaseLock, IInv, TypeOK, TypeFile, PacketCount, TypeFlag,
       MemInv
  <2>6. TypeIndex'
    BY <1>17, <2>1, <2>2 DEF R_ReleaseLock, IInv, TypeOK, TypeIndex,
       LoaderInv, ReplayInv, Chunk
  <2>7. RingInv'
    BY <1>17, <2>1, <2>2 DEF R_ReleaseLock, IInv, TypeOK, TypeRing,
       TypeControl, TypeIndex, RingInv, LoaderInv, ReplayInv, HeldByLoader,
       MarkedLoading, Chunk, Taken
  <2>8. LoaderInv'
    BY <1>17, <2>1, <2>2 DEF R_ReleaseLock, IInv, TypeOK, TypeRing,
       TypeControl, TypeIndex, RingInv, LoaderInv, ReplayInv, Taken, Chunk,
       NoMorePackets, PacketCount
  <2>9. ReplayInv'
    BY <1>17, <2>1, <2>2 DEF R_ReleaseLock, IInv, TypeOK, TypeRing,
       TypeControl, TypeIndex, RingInv, LoaderInv, ReplayInv, Chunk,
       HeldByLoader, MarkedLoading, Taken
  <2> QED BY <2>3, <2>4, <2>5, <2>6, <2>7, <2>8, <2>9 DEF IInv, TypeOK
<1>18. CASE R_Advance
  <2>1. TypeRing' /\ TypeControl'
    BY <1>18 DEF R_Advance, IInv, TypeOK, TypeRing, Chunk, Status,
       TypeControl, LoaderPlaces, ReplayPlaces
  <2>2. TypeFile' /\ TypeFlag' /\ MemInv'
    BY <1>18 DEF R_Advance, IInv, TypeOK, TypeFile, PacketCount, TypeFlag,
       MemInv
  <2>3. TypeIndex'
    BY <1>18 DEF R_Advance, IInv, TypeOK, TypeIndex, LoaderInv, ReplayInv,
       Chunk
  <2>4. RingInv'
    BY <1>18 DEF R_Advance, IInv, TypeOK, TypeRing, TypeControl, TypeIndex,
       RingInv, LoaderInv, ReplayInv, HeldByLoader, MarkedLoading, Chunk,
       Taken
  <2>5. LoaderInv'
    BY <1>18 DEF R_Advance, IInv, TypeOK, TypeRing, TypeControl, TypeIndex,
       RingInv, LoaderInv, ReplayInv, Taken, Chunk, NoMorePackets, PacketCount
  <2>6. ReplayInv'
    BY <1>18 DEF R_Advance, IInv, TypeOK, TypeRing, TypeControl, TypeIndex,
       RingInv, LoaderInv, ReplayInv, Chunk, HeldByLoader, MarkedLoading,
       Taken
  <2> QED BY <2>1, <2>2, <2>3, <2>4, <2>5, <2>6 DEF IInv, TypeOK
<1>19. CASE R_Throttled
  <2>1. UNCHANGED dataVars
    BY <1>19 DEF R_Throttled
  <2>2. TypeControl'
    BY <1>19 DEF R_Throttled, IInv, TypeOK, TypeControl, LoaderPlaces,
       ReplayPlaces, Awake
  <2>3. RingInv' /\ LoaderInv' /\ ReplayInv'
    BY <1>19 DEF R_Throttled, IInv, TypeOK, TypeRing, TypeControl, TypeIndex,
       RingInv, LoaderInv, ReplayInv, HeldByLoader, MarkedLoading, Chunk,
       Taken, NoMorePackets, PacketCount, Awake
  <2> QED BY <2>1, <2>2, <2>3, DataUnchanged DEF IInv, TypeOK
<1>20. CASE R_Stop
  <2>1. UNCHANGED dataVars
    BY <1>20 DEF R_Stop
  <2>2. TypeControl'
    BY <1>20 DEF R_Stop, IInv, TypeOK, TypeControl, LoaderPlaces, ReplayPlaces
  <2>3. RingInv' /\ LoaderInv' /\ ReplayInv'
    BY <1>20 DEF R_Stop, IInv, TypeOK, TypeRing, TypeControl, TypeIndex,
       RingInv, LoaderInv, ReplayInv, HeldByLoader, MarkedLoading, Chunk,
       Taken, NoMorePackets, PacketCount
  <2> QED BY <2>1, <2>2, <2>3, DataUnchanged DEF IInv, TypeOK
<1>21. CASE R_ExitPreload
  <2>1. TypeRing' /\ TypeControl'
    BY <1>21 DEF R_ExitPreload, IInv, TypeOK, TypeRing, Chunk, Status,
       TypeControl, LoaderPlaces, ReplayPlaces
  <2>2. TypeFile' /\ TypeFlag' /\ MemInv'
    BY <1>21 DEF R_ExitPreload, IInv, TypeOK, TypeFile, PacketCount, TypeFlag,
       MemInv
  <2>3. TypeIndex'
    BY <1>21 DEF R_ExitPreload, IInv, TypeOK, TypeIndex, LoaderInv, ReplayInv,
       Chunk
  <2>4. RingInv'
    BY <1>21 DEF R_ExitPreload, IInv, TypeOK, TypeRing, TypeControl,
       TypeIndex, RingInv, LoaderInv, ReplayInv, HeldByLoader, MarkedLoading,
       Chunk, Taken
  <2>5. LoaderInv'
    <3>1. \A c \in Chunk : /\ Taken(c) => Taken(c)'
                           /\ status[c] = "EMPTY" => status'[c] = "EMPTY"
      BY <1>21 DEF R_ExitPreload, Taken
    <3>2. pc'[Loader] = pc[Loader]
      BY <1>21 DEF R_ExitPreload, IInv, TypeOK, TypeControl
    <3>3. /\ LoaderIn({"lock", "plan"} \union Grabbing) => loading_idx \in Chunk
          /\ LoaderIn({"skipLock"}) => i \in Chunk
          /\ LoaderIn({"grabLock"}) => loading_idx + i \in Chunk
      BY ConstantsAssumption DEF IInv, TypeOK, TypeIndex, LoaderInv, Chunk
    <3> QED BY <1>21, <3>1, <3>2, <3>3 DEF R_ExitPreload, IInv, LoaderInv,
                   NoMorePackets, PacketCount
  <2>6. ReplayInv'
    BY <1>21 DEF R_ExitPreload, IInv, TypeOK, TypeRing, TypeControl,
       TypeIndex, RingInv, LoaderInv, ReplayInv, Chunk, HeldByLoader,
       MarkedLoading, Taken
  <2> QED BY <2>1, <2>2, <2>3, <2>4, <2>5, <2>6 DEF IInv, TypeOK
<1>22. CASE R_Join
  <2>1. UNCHANGED dataVars
    BY <1>22 DEF R_Join
  <2>2. TypeControl'
    BY <1>22 DEF R_Join, IInv, TypeOK, TypeControl, LoaderPlaces, ReplayPlaces
  <2>3. RingInv' /\ LoaderInv' /\ ReplayInv'
    BY <1>22 DEF R_Join, IInv, TypeOK, TypeRing, TypeControl, TypeIndex,
       RingInv, LoaderInv, ReplayInv, HeldByLoader, MarkedLoading, Chunk,
       Taken, NoMorePackets, PacketCount
  <2> QED BY <2>1, <2>2, <2>3, DataUnchanged DEF IInv, TypeOK
<1> QED BY <1>1, <1>2, <1>3, <1>4, <1>5, <1>6, <1>7, <1>8, <1>9, <1>10, <1>11,
       <1>12, <1>13, <1>14, <1>15, <1>16, <1>17, <1>18, <1>19, <1>20, <1>21,
       <1>22 DEF ReplayStep

-----------------------------------------------------------------------------
(* The condition variables, the invariant of Spec and what follows.        *)

\* Waking and going to sleep changes no data, and nothing the invariant says
\* depends on it.
LEMMA CondvarKeepsIInv ==
    ASSUME IInv, NEW t \in Thread, CondvarStep(t)
    PROVE  IInv'
<1>1. UNCHANGED <<dataVars, pc>>
    BY DEF CondvarStep, EvalFalse, Block, SpuriousWakeup
<1>2. wait' \in [Thread -> {"awake", "falling", "asleep"}]
    BY DEF CondvarStep, EvalFalse, Block, SpuriousWakeup, IInv, TypeOK, TypeControl
<1>3. TypeControl'
    BY <1>1, <1>2 DEF IInv, TypeOK, TypeControl
<1>4. RingInv'
    BY <1>1 DEF IInv, RingInv, HeldByLoader, MarkedLoading, LoaderIn, ReplayIn,
       dataVars, sharedVars, loadVars, ringVars, replayVars
<1>5. LoaderInv' /\ ReplayInv'
    BY <1>1 DEF IInv, LoaderInv, ReplayInv, LoaderIn, ReplayIn, Taken,
       NoMorePackets, PacketCount, dataVars, sharedVars, loadVars, ringVars,
       replayVars, fileVars
<1> QED BY <1>1, <1>3, <1>4, <1>5, DataUnchanged DEF IInv, TypeOK

\* The invariant holds when init_preload waits for the loading thread.
LEMMA InitIInv == Init => IInv
<1> SUFFICES ASSUME Init PROVE IInv
    OBVIOUS
<1>1. \A c \in Nat : Base(c) \in Nat
    BY BaseNat
<1>2. 0 \in Chunk
    BY ConstantsAssumption DEF Chunk
<1>3. PacketCount \in Nat
    <2>1. input.size \in Seq(Nat \ {0})
        BY ConstantsAssumption DEF Init
    <2> QED BY <2>1 DEF PacketCount
<1>4. TypeRing
    <2>1. \A c \in Chunk : Base(c) \in Nat
        BY <1>1 DEF Chunk
    <2>2. current \in [Chunk -> Nat]
        BY <2>1 DEF Init
    <2>3. status \in [Chunk -> Status] /\ mtx \in [Chunk -> Thread \union {Free}]
        BY DEF Init, Status
    <2> QED BY <2>2, <2>3 DEF Init, TypeRing
<1>5. TypeFile
    BY <1>3 DEF Init, TypeFile
<1>6. TypeIndex /\ TypeFlag
    <2>1. TypeIndex
        BY ConstantsAssumption DEF Init, TypeIndex
    <2>2. TypeFlag
        BY DEF Init, TypeFlag
    <2> QED BY <2>1, <2>2
<1>7. TypeControl
    BY DEF Init, TypeControl, Thread, Loader, Replay, LoaderPlaces, ReplayPlaces
<1>8. pc[Loader] = "top" /\ pc[Replay] = "start"
    BY DEF Init, Thread, Loader, Replay
<1>9. RingInv
    BY <1>2, <1>8 DEF Init, RingInv, HeldByLoader, MarkedLoading, LoaderIn, ReplayIn,
       Skipping, Grabbing, Loading, Free, Loader
<1>10. LoaderInv /\ ReplayInv
    BY <1>8 DEF LoaderInv, ReplayInv, LoaderIn, ReplayIn, Skipping, Grabbing, Loading,
       Releasing
<1>11. MemInv
    BY DEF Init, MemInv
<1> QED BY <1>4, <1>5, <1>6, <1>7, <1>9, <1>10, <1>11 DEF IInv, TypeOK

\* And every step, a stuttering one too, keeps it.
LEMMA NextKeepsIInv ==
    ASSUME AllFit, ~StatusReread, IInv, [Next]_vars
    PROVE  IInv'
<1>1. CASE LoaderStep
    BY <1>1, LoaderKeepsIInv
<1>2. CASE ReplayStep
    BY <1>2, ReplayKeepsIInv
<1>3. CASE \E t \in Thread : CondvarStep(t)
    BY <1>3, CondvarKeepsIInv
<1>4. CASE UNCHANGED vars
    <2>1. UNCHANGED <<dataVars, pc, wait>>
        BY <1>4 DEF vars
    <2>2. TypeControl'
        BY <2>1 DEF IInv, TypeOK, TypeControl
    <2>3. RingInv'
        BY <2>1 DEF IInv, RingInv, HeldByLoader, MarkedLoading, LoaderIn, ReplayIn,
           dataVars, sharedVars, loadVars, ringVars, replayVars
    <2>4. LoaderInv' /\ ReplayInv'
        BY <2>1 DEF IInv, LoaderInv, ReplayInv, LoaderIn, ReplayIn, Taken,
           NoMorePackets, PacketCount, dataVars, sharedVars, loadVars, ringVars,
           replayVars, fileVars
    <2> QED BY <2>1, <2>2, <2>3, <2>4, DataUnchanged DEF IInv, TypeOK
<1> QED BY <1>1, <1>2, <1>3, <1>4 DEF Next, Terminated

\* The parts of the invariant that relate statuses, mutexes and threads.
LEMMA IInvImpliesLockDiscipline == IInv => LockDiscipline
<1> SUFFICES ASSUME IInv PROVE LockDiscipline
    OBVIOUS
<1>1. \A c \in Chunk : /\ status[c] = "USING" => mtx[c] = Replay /\ c = using_idx
                       /\ status[c] = "LOADING" => mtx[c] = Loader
    BY DEF IInv, RingInv, HeldByLoader, MarkedLoading, TypeOK, TypeIndex
<1>2. pc[Loader] \in {"load", "loaded"} =>
        \A c \in loading_idx .. loading_idx + needed - 1 : mtx[c] = Loader
    BY ConstantsAssumption DEF IInv, TypeOK, TypeIndex, RingInv, LoaderInv,
       HeldByLoader, LoaderIn, Loading, Chunk
<1>3. pc[Replay] \in {"locked", "take", "emptied"} => mtx[using_idx] = Replay
    BY DEF IInv, ReplayInv, ReplayIn
<1>4. At(Loader, "done") => \A c \in Chunk : mtx[c] # Loader
    BY DEF IInv, RingInv, HeldByLoader, At, LoaderIn, Skipping, Grabbing, Loading
<1> QED BY <1>1, <1>2, <1>3, <1>4 DEF LockDiscipline

\* The inductive invariant holds in every reachable state.
THEOREM Invariance == AllFit /\ ~StatusReread => (Spec => []IInv)
<1> SUFFICES ASSUME AllFit, ~StatusReread PROVE Spec => []IInv
    OBVIOUS
<1>1. Init => IInv
    BY InitIInv
<1>2. IInv /\ [Next]_vars => IInv'
    BY NextKeepsIInv
<1> QED BY <1>1, <1>2, PTL DEF Spec

\* In the optimised build, with packets that fit into the ring, no index leaves
\* the ring and no address the memory, and every variable keeps its type.
THEOREM TypeCorrect == AllFit /\ ~StatusReread => (Spec => []TypeOK)
<1> SUFFICES ASSUME AllFit, ~StatusReread PROVE Spec => []TypeOK
    OBVIOUS
<1>1. IInv => TypeOK
    BY DEF IInv
<1>2. Spec => []IInv
    BY Invariance
<1> QED BY <1>1, <1>2, PTL

\* Under the same conditions the statuses, which both threads read and write
\* without the mutexes, never let both of them own a chunk.
THEOREM LocksAgree == AllFit /\ ~StatusReread => (Spec => []LockDiscipline)
<1> SUFFICES ASSUME AllFit, ~StatusReread PROVE Spec => []LockDiscipline
    OBVIOUS
<1>1. IInv => LockDiscipline
    BY IInvImpliesLockDiscipline
<1>2. Spec => []IInv
    BY Invariance
<1> QED BY <1>1, <1>2, PTL

\* And the assertion of line 632, that a chunk found READY or LOADING without
\* its mutex is READY with it, does not fail.
THEOREM AssertionHolds == AllFit /\ ~StatusReread => (Spec => []AssertReady)
<1> SUFFICES ASSUME AllFit, ~StatusReread PROVE Spec => []AssertReady
    OBVIOUS
<1>1. IInv => AssertReady
    BY DEF IInv, ReplayInv, ReplayIn, AssertReady, At
<1>2. Spec => []IInv
    BY Invariance
<1> QED BY <1>1, <1>2, PTL

-----------------------------------------------------------------------------
\* The packets of a trace fit into the ring of two chunks or more.
LEMMA BaseStrict ==
    ASSUME NEW c \in Nat, NEW d \in Nat, c < d
    PROVE  Base(c) \in Nat /\ Base(d) \in Nat /\ Base(c) + ChunkSize <= Base(d)
<1>1. Base(c) \in Nat /\ Base(c) + ChunkSize * 1 = Base(c + 1)
    BY BaseSum
<1>2. Base(c + 1) <= Base(d) /\ Base(d) \in Nat
    BY BaseMonotone, BaseNat
<1> QED BY <1>1, <1>2, ConstantsAssumption

\* Chunk 0 begins the memory.
LEMMA BaseZero == Base(0) = 0
BY ConstantsAssumption DEF Base

\* What extends beyond n - 1 chunks and not beyond n needs n.
LEMMA ChunksForIs ==
    ASSUME NEW n \in Nat \ {0}, NEW size \in Nat, Base(n - 1) < size, size <= Base(n)
    PROVE  ChunksFor(size) = n
<1>1. Base(n - 1) \in Nat /\ size \in Nat \ {0}
    BY BaseNat
<1>2. ChunksFor(size) \in 1 .. n
    BY <1>1, ChunksForBound
<1> DEFINE q == (size - 1) \div ChunkSize
<1>3. q \in Nat /\ size - 1 < (q + 1) * ChunkSize
    BY <1>1, ConstantsAssumption
<1>4. q + 1 = ChunksFor(size)
    BY <1>3 DEF ChunksFor
<1> HIDE DEF q
<1>5. q + 1 >= n
  <2> SUFFICES ASSUME q + 1 <= n - 1 PROVE FALSE
      BY <1>3
  <2>1. Base(q + 1) <= Base(n - 1) /\ Base(q + 1) \in Nat
      BY <1>3, BaseMonotone, BaseNat
  <2> QED BY <2>1, <1>1, <1>3 DEF Base
<1> QED BY <1>2, <1>3, <1>4, <1>5

\* The end of a group whose last chunk is known.
LEMMA EndIs ==
    ASSUME NEW c \in Nat, NEW n \in Nat \ {0}, NEW hi \in Nat,
           Base(c + n - 1) < hi, hi <= Base(c + n)
    PROVE  EndOf(c, hi) = c + n
<1>1. Base(c) \in Nat /\ Base(c) + Base(n) = Base(c + n)
    BY BaseNat, BaseSum, ConstantsAssumption DEF Base
<1>2. Base(c) + Base(n - 1) = Base(c + n - 1) /\ Base(n - 1) \in Nat /\ Base(n) \in Nat
    BY BaseNat, ConstantsAssumption DEF Base
<1>3. ChunksFor(hi - Base(c)) = n
    BY <1>1, <1>2, ChunksForIs
<1> QED BY <1>3 DEF EndOf

\* A group ends behind the chunk it begins with, and its last chunk is needed.
LEMMA EndBounds ==
    ASSUME NEW c \in Nat, NEW hi \in Nat, hi > Base(c)
    PROVE  /\ EndOf(c, hi) \in Nat /\ EndOf(c, hi) > c
           /\ Base(EndOf(c, hi) - 1) < hi /\ hi <= Base(EndOf(c, hi))
<1>1. Base(c) \in Nat
    BY BaseNat
<1> DEFINE size == hi - Base(c)
           q == (size - 1) \div ChunkSize
<1>2. size \in Nat \ {0}
    BY <1>1
<1>3. q \in Nat /\ q * ChunkSize <= size - 1 /\ size - 1 < (q + 1) * ChunkSize
    BY <1>2, ConstantsAssumption
<1>4. EndOf(c, hi) = c + q + 1
    BY <1>3 DEF EndOf, ChunksFor
<1> HIDE DEF q
<1>5. Base(c + q) = Base(c) + q * ChunkSize /\ Base(c + q + 1) = Base(c) + (q + 1) * ChunkSize
  <2>1. Base(c) + ChunkSize * q = Base(c + q)
      BY <1>3, BaseSum
  <2>2. Base(c) + ChunkSize * (q + 1) = Base(c + (q + 1))
      BY <1>3, BaseSum
  <2> QED BY <2>1, <2>2, <1>3, ConstantsAssumption
<1>6. q * ChunkSize \in Nat /\ (q + 1) * ChunkSize \in Nat
    BY <1>3, ConstantsAssumption
<1> QED BY <1>1, <1>2, <1>3, <1>4, <1>5, <1>6

-----------------------------------------------------------------------------
\* What the types say, in the form in which the steps need it.
LEMMA Kinds ==
    ASSUME IInv
    PROVE  /\ ChunkCount \in Nat \ {0} /\ ChunkSize \in Nat \ {0}
           /\ Chunk = 0 .. ChunkCount - 1 /\ 0 \in Chunk
           /\ status \in [Chunk -> Status] /\ current \in [Chunk -> Nat]
           /\ mem \in [Address -> 0 .. PacketCount] /\ PacketCount \in Nat
           /\ \A k \in 1 .. PacketCount : input.size[k] \in Nat \ {0}
           /\ next \in 1 .. PacketCount + 1 /\ Delivered \in Nat
           /\ input \in Inputs /\ input.bad \in Nat
<1>1. input \in Inputs /\ input.size \in Seq(Nat \ {0}) /\ input.bad \in Nat
    BY ConstantsAssumption DEF IInv, TypeOK, TypeRing
<1>2. \A k \in 1 .. PacketCount : input.size[k] \in Nat \ {0}
    BY <1>1 DEF PacketCount
<1>3. Chunk = 0 .. ChunkCount - 1 /\ 0 \in Chunk
    BY ConstantsAssumption DEF Chunk
<1>4. Delivered \in Nat
    BY DEF IInv, TypeOK, TypeFile, Delivered
<1> QED BY <1>1, <1>2, <1>3, <1>4, ConstantsAssumption, PacketCountNat
        DEF IInv, TypeOK, TypeRing, TypeFile

\* The indices.
LEMMA Indices ==
    ASSUME IInv
    PROVE  /\ loading_idx \in 0 .. ChunkCount /\ using_idx \in 0 .. ChunkCount
           /\ needed \in 1 .. ChunkCount /\ i \in 1 .. ChunkCount
           /\ occupied \in 1 .. ChunkCount /\ j \in 0 .. ChunkCount
           /\ boundary \in Nat
           /\ LoaderIn(Grabbing \union Loading \union {"share"}) =>
                loading_idx + needed <= ChunkCount /\ loading_idx \in Chunk
           /\ LoaderIn(Skipping \union {"plan"}) => loading_idx \in Chunk
           /\ ReplayIn(Releasing) => using_idx + occupied <= ChunkCount
                /\ using_idx \in Chunk /\ j \in using_idx + 1 .. using_idx + occupied
BY ConstantsAssumption
   DEF IInv, TypeOK, TypeIndex, LoaderInv, ReplayInv, LoaderIn, ReplayIn, Chunk,
       Loading, Grabbing, Skipping, Releasing

\* How far the two threads reach.
LEMMA Reach ==
    ASSUME IInv
    PROVE  /\ loading_idx \in Nat /\ needed \in Nat \ {0} /\ using_idx \in Nat
           /\ LoaderIn(Loading) \/ LoaderIn({"share"}) =>
                loading_idx \in Chunk /\ loading_idx + needed \in 1 .. ChunkCount
           /\ LoaderIn(Loading) => loading_idx \in loading_idx .. loading_idx + needed - 1
           /\ ReplayIn(Releasing) =>
                /\ using_idx + occupied \in 1 .. ChunkCount
                /\ \A t \in j .. using_idx + occupied - 1 : t \in Chunk
<1>1. ChunkCount \in Nat \ {0}
    BY ConstantsAssumption
<1>2. loading_idx \in 0 .. ChunkCount /\ needed \in 1 .. ChunkCount
    BY Indices
<1>3. LoaderIn(Loading) \/ LoaderIn({"share"}) =>
        loading_idx + needed <= ChunkCount /\ loading_idx \in Chunk
    BY Indices DEF LoaderIn
<1>4. /\ using_idx \in 0 .. ChunkCount /\ occupied \in 1 .. ChunkCount /\ j \in 0 .. ChunkCount
      /\ ReplayIn(Releasing) => using_idx + occupied <= ChunkCount
    BY Indices
<1>5. ReplayIn(Releasing) => \A t \in j .. using_idx + occupied - 1 : t \in Chunk
    BY <1>1, <1>4 DEF Chunk
<1> QED BY <1>1, <1>2, <1>3, <1>4, <1>5

\* Both positions are chunks.
LEMMA Positions ==
    ASSUME IInv
    PROVE  LoaderPos \in Chunk /\ ReplayPos \in Chunk
<1>1. LoaderPos \in Chunk
  <2>1. loading_idx + needed \in 0 .. ChunkCount \/ ~LoaderIn(Loading \union {"share"})
      BY Reach DEF LoaderIn
  <2> QED BY <2>1, Indices, Kinds DEF LoaderPos, Wrapped, LoaderIn
<1>2. ReplayPos \in Chunk
  <2>1. using_idx + occupied \in 0 .. ChunkCount \/ ~ReplayIn(Releasing)
      BY Reach
  <2> QED BY <2>1, Indices, Kinds DEF ReplayPos, Wrapped
<1> QED BY <1>1, <1>2

\* A chunk lies in the memory.
LEMMA InMemory ==
    ASSUME NEW c \in Nat, NEW d \in Nat, c < d, d <= ChunkCount, NEW a \in Int,
           Base(c) <= a, a < Base(d)
    PROVE  a \in Address
<1>1. Base(c) \in Nat /\ Base(d) \in Nat /\ Base(d) <= Base(ChunkCount) /\ Base(ChunkCount) \in Nat
    BY BaseNat, BaseMonotone, ConstantsAssumption
<1>2. Base(ChunkCount) = ChunkCount * ChunkSize
    BY DEF Base
<1> QED BY <1>1, <1>2 DEF Address

\* So does the byte it begins with.
LEMMA ChunkInMemory ==
    ASSUME NEW t \in Chunk
    PROVE  t \in Nat /\ Base(t) \in Nat /\ Base(t) \in Address
<1>1. t \in Nat /\ t + 1 \in Nat /\ t < t + 1 /\ t + 1 <= ChunkCount
    BY ConstantsAssumption DEF Chunk
<1>2. PICK d \in Nat : d = t + 1
    BY <1>1
<1>3. t < d /\ d <= ChunkCount
    BY <1>1, <1>2
<1>4. Base(t) \in Nat /\ Base(d) \in Nat /\ Base(t) + ChunkSize <= Base(d)
    BY <1>1, <1>3, BaseStrict
<1>5. Base(t) < Base(d) /\ Base(t) \in Int /\ Base(t) <= Base(t)
    BY <1>4, ConstantsAssumption
<1>6. Base(t) \in Address
    BY <1>1, <1>3, <1>5, InMemory
<1> QED BY <1>1, <1>4, <1>6

\* The chunks of a group are consecutive chunks of the ring, and its addresses
\* lie in the memory.
LEMMA GroupShape ==
    ASSUME IInv, NEW c \in Chunk, NEW hi \in Nat, hi > Base(c), Group(c, hi)
    PROVE  /\ EndOf(c, hi) \in 1 .. ChunkCount /\ EndOf(c, hi) > c
           /\ Base(c) \in Nat /\ Base(EndOf(c, hi)) \in Nat
           /\ Base(EndOf(c, hi) - 1) < hi /\ hi < Base(EndOf(c, hi))
           /\ Base(EndOf(c, hi) - 1) \in Nat
           /\ c + 1 .. EndOf(c, hi) - 1 \subseteq Chunk
           /\ Base(c) .. hi - 1 \subseteq Address
<1>1. c \in Nat
    BY Kinds
<1>2. /\ EndOf(c, hi) \in Nat /\ EndOf(c, hi) > c
      /\ Base(EndOf(c, hi) - 1) < hi /\ hi <= Base(EndOf(c, hi))
    BY <1>1, EndBounds
<1>3. EndOf(c, hi) \in 1 .. ChunkCount /\ hi < Base(EndOf(c, hi))
    BY <1>1, <1>2, Kinds DEF Group
<1>4. Base(c) \in Nat /\ Base(EndOf(c, hi)) \in Nat /\ Base(EndOf(c, hi) - 1) \in Nat
    BY <1>1, <1>3, BaseNat
<1>5. c + 1 .. EndOf(c, hi) - 1 \subseteq Chunk
    BY <1>1, <1>3, Kinds
<1>6. ASSUME NEW a \in Base(c) .. hi - 1 PROVE a \in Address
    BY <1>1, <1>2, <1>3, <1>4, Kinds, InMemory
<1> QED BY <1>2, <1>3, <1>4, <1>5, <1>6

\* Packets that lead a chunk are loaded and not yet delivered.
LEMMA LeaderFacts ==
    ASSUME IInv, LeadersOK, NEW c \in Chunk, Leads(c)
    PROVE  /\ Base(c) \in Nat /\ current[c] \in Nat /\ Base(c) < current[c]
           /\ Base(c) \in Address /\ mem[Base(c)] \in 1 .. PacketCount
           /\ mem[Base(c)] \in Delivered + 1 .. next - 1
           /\ Delivered + 1 < next
<1>1. Base(c) \in Nat /\ current[c] \in Nat /\ Base(c) < current[c]
    BY Kinds, BaseNat DEF Leads
<1>2. Base(c) \in Base(c) .. current[c] - 1
    BY <1>1
<1>3. mem[Base(c)] \in Delivered + 1 .. next - 1
    BY <1>2 DEF LeadersOK, Linked, Leads
<1>4. Base(c) \in Address
    BY <1>1, <1>2, GroupShape DEF LeadersOK
<1>5. mem[Base(c)] \in 1 .. PacketCount
    BY <1>4, Kinds DEF Leads
<1> QED BY <1>1, <1>3, <1>4, <1>5, Kinds

\* The replay has not been given what is not loaded.
LEMMA BehindLoader ==
    ASSUME IInv, LeadersOK, UsingOK, PosOK
    PROVE  Delivered < next
<1>1. ASSUME NEW c \in Chunk, Expects(c, Delivered + 1) PROVE Delivered < next
  <2>1. Leads(c) \/ Leads(0) => Delivered + 1 < next
      BY LeaderFacts, Kinds
  <2> QED BY <1>1, <2>1, Kinds DEF Expects
<1>2. CASE ~Using
    BY <1>1, <1>2, Positions DEF PosOK
<1>3. CASE Using
  <2>1. CASE Starved
      BY <2>1, Kinds DEF Starved
  <2>2. CASE ~Starved
    <3>1. /\ boundary > Base(using_idx) /\ Group(using_idx, boundary)
          /\ current[using_idx] <= boundary /\ using_idx \in Chunk
        BY <1>3, <2>2 DEF UsingOK, Using
    <3>2. EndOf(using_idx, boundary) \in 1 .. ChunkCount
        BY <3>1, GroupShape, Indices
    <3>3. Wrapped(EndOf(using_idx, boundary)) \in Chunk
        BY <3>2, Kinds DEF Wrapped
    <3>4. CASE current[using_idx] = boundary
        BY <3>4, <3>3, <1>1, <1>3, <2>2 DEF UsingOK
    <3>5. CASE current[using_idx] < boundary
      <4>1. current[using_idx] \in current[using_idx] .. boundary - 1
          BY <3>5, <3>1, Kinds, Indices
      <4>2. mem[current[using_idx]] = Delivered + 1
          BY <3>5, <1>3, <2>2 DEF UsingOK
      <4>3. Delivered + 1 # 0
          BY Kinds
      <4>4. Linked(using_idx, current[using_idx], boundary)
          BY <1>3, <2>2 DEF UsingOK
      <4> QED BY <4>1, <4>2, <4>3, <4>4, Kinds DEF Linked
    <3> QED BY <3>1, <3>4, <3>5, Kinds, Indices
  <2> QED BY <2>1, <2>2
<1> QED BY <1>2, <1>3

\* The chunks the loading thread fills belong to no other group.
LEMMA LoaderApart ==
    ASSUME IInv, BaseOK, LoaderIn(Loading),
           NEW c \in Chunk, c # loading_idx, NEW hi \in Nat, hi > Base(c), Group(c, hi),
           Leads(c) \/ status[c] = "USING"
    PROVE  EndOf(c, hi) <= loading_idx \/ loading_idx + needed <= c
<1>1. \A t \in loading_idx .. loading_idx + needed - 1 : t \in Chunk /\ status[t] = "LOADING"
  <2>1. loading_idx \in Nat /\ needed \in Nat /\ loading_idx + needed <= ChunkCount
      BY Indices DEF LoaderIn
  <2>2. \A t \in loading_idx .. loading_idx + needed - 1 : t \in Chunk
      BY <2>1, Kinds
  <2>3. \A t \in loading_idx .. loading_idx + needed - 1 : MarkedLoading(t)
      BY DEF MarkedLoading
  <2> QED BY <2>2, <2>3 DEF IInv, RingInv
<1>2. c \notin loading_idx .. loading_idx + needed - 1
  <2>1. status[c] = "LOADING" => current[c] = Base(c)
      BY DEF BaseOK
  <2>2. current[c] \in Nat /\ Base(c) \in Nat
      BY Kinds, BaseNat
  <2>3. status[c] # "LOADING"
      BY <2>1, <2>2 DEF Leads
  <2> QED BY <1>1, <2>3
<1>3. loading_idx \notin c + 1 .. EndOf(c, hi) - 1
  <2>1. loading_idx \in loading_idx .. loading_idx + needed - 1
      BY Reach
  <2>2. status[loading_idx] = "LOADING"
      BY <1>1, <2>1
  <2> QED BY <2>2 DEF Group
<1>4. EndOf(c, hi) \in 1 .. ChunkCount
    BY GroupShape
<1>5. loading_idx \in Nat /\ needed \in Nat /\ c \in Nat
    BY Indices, Kinds
<1> QED BY <1>2, <1>3, <1>4, <1>5

-----------------------------------------------------------------------------
(* What a step must not touch for each part of Chain to stay true.         *)

\* Links stay when the packets do and what they expect.
LEMMA LinkedKept ==
    ASSUME IInv, IInv', input' = input, next' = next, Delivered' = Delivered,
           NEW c \in Chunk, NEW lo \in Nat, NEW hi \in Nat, Linked(c, lo, hi),
           lo .. hi - 1 \subseteq Address, EndOf(c, hi) \in 1 .. ChunkCount,
           \A a \in lo .. hi - 1 : mem'[a] = mem[a],
           \A d \in Chunk : \A k \in Delivered + 2 .. next : Expects(d, k) => Expects(d, k)'
    PROVE  Linked(c, lo, hi)'
<1> SUFFICES ASSUME NEW a \in lo .. hi - 1, mem[a] # 0
             PROVE  /\ mem[a] \in Delivered + 1 .. next - 1
                    /\ a + input.size[mem[a]] <= hi
                    /\ a + input.size[mem[a]] < hi => mem'[a + input.size[mem[a]]] = mem[a] + 1
                    /\ a + input.size[mem[a]] = hi => Expects(Wrapped(EndOf(c, hi)), mem[a] + 1)'
    BY DEF Linked, EndOf, ChunksFor, Base, Wrapped
<1>1. /\ mem[a] \in Delivered + 1 .. next - 1
      /\ a + input.size[mem[a]] <= hi
      /\ a + input.size[mem[a]] < hi => mem[a + input.size[mem[a]]] = mem[a] + 1
      /\ a + input.size[mem[a]] = hi => Expects(Wrapped(EndOf(c, hi)), mem[a] + 1)
    BY DEF Linked
<1>2. mem[a] \in 1 .. PacketCount /\ input.size[mem[a]] \in Nat \ {0}
    BY Kinds
<1>3. a + input.size[mem[a]] < hi => a + input.size[mem[a]] \in lo .. hi - 1
    BY <1>2
<1>4. Wrapped(EndOf(c, hi)) \in Chunk
    BY Kinds DEF Wrapped
<1>5. mem[a] + 1 \in Delivered + 2 .. next
  <2>1. mem[a] \in Delivered + 1 .. next - 1 /\ Delivered \in Nat /\ next \in Nat
      BY <1>1, Kinds
  <2> QED BY <2>1
<1> QED BY <1>1, <1>3, <1>4, <1>5

\* The groups of loaded packets.
LEMMA LeadersKept ==
    ASSUME IInv, IInv', LeadersOK, input' = input, next' = next, Delivered' = Delivered,
           \A c \in Chunk : Leads(c)' =>
              /\ Leads(c) /\ current'[c] = current[c]
              /\ \A a \in Base(c) .. current[c] - 1 : mem'[a] = mem[a]
              /\ \A t \in c + 1 .. EndOf(c, current[c]) - 1 :
                    /\ mem'[Base(t)] = 0 /\ ~OwnTail(t)'
                    /\ status'[t] = "READY" \/ (status'[t] = "LOADING" /\ loading_idx' = c),
           \A d \in Chunk : \A k \in Delivered + 2 .. next : Expects(d, k) => Expects(d, k)'
    PROVE  LeadersOK'
<1> SUFFICES ASSUME NEW c \in Chunk, Leads(c)'
             PROVE  (/\ Group(c, current[c])
                     /\ Linked(c, Base(c), current[c])
                     /\ \A t \in c + 1 .. EndOf(c, current[c]) - 1 : ~OwnTail(t))'
    BY DEF LeadersOK, Chunk
<1>1. Leads(c) /\ current'[c] = current[c]
    OBVIOUS
<1>2. Group(c, current[c]) /\ Linked(c, Base(c), current[c])
    BY <1>1 DEF LeadersOK
<1>3. current[c] \in Nat /\ current[c] > Base(c) /\ Base(c) \in Nat
    BY <1>1, LeaderFacts
<1>4. /\ EndOf(c, current[c]) \in 1 .. ChunkCount
      /\ Base(c) .. current[c] - 1 \subseteq Address
    BY <1>2, <1>3, GroupShape
<1> DEFINE hi == current[c]
           lo == Base(c)
<1>5. hi \in Nat /\ lo \in Nat /\ Linked(c, lo, hi) /\ Group(c, hi) /\ current'[c] = hi
    BY <1>1, <1>2, <1>3
<1>6. /\ lo .. hi - 1 \subseteq Address /\ EndOf(c, hi) \in 1 .. ChunkCount
      /\ \A a \in lo .. hi - 1 : mem'[a] = mem[a]
      /\ \A t \in c + 1 .. EndOf(c, hi) - 1 :
            /\ mem'[Base(t)] = 0 /\ ~OwnTail(t)'
            /\ status'[t] = "READY" \/ (status'[t] = "LOADING" /\ loading_idx' = c)
    BY <1>4
<1>7. PICK h \in Nat : h = hi
    BY <1>5
<1>8. PICK l \in Nat : l = lo
    BY <1>5
<1> HIDE DEF hi, lo
<1>9. Linked(c, l, h)'
    BY <1>5, <1>6, <1>7, <1>8, LinkedKept
<1>10. Group(c, h)'
    BY <1>5, <1>6, <1>7, Kinds DEF Group, EndOf, ChunksFor, Base
<1>11. \A t \in c + 1 .. EndOf(c, h) - 1 : ~OwnTail(t)'
    BY <1>6, <1>7
<1>12. current'[c] = h /\ l = Base(c)
    BY <1>5, <1>7, <1>8 DEF lo
<1> QED BY <1>9, <1>10, <1>11, <1>12

\* The addresses whose contents matter.
Kept(a) ==
    \/ Pending(a)
    \/ \E c \in Chunk : Leads(c) /\ \E t \in c + 1 .. EndOf(c, current[c]) - 1 : a = Base(t)
    \/ \E t \in Chunk : OwnTail(t) /\ a = Base(t)

\* The chunks the replay gives back.
LEMMA OwnTailFacts ==
    ASSUME IInv, UsingOK
    PROVE  \A t : OwnTail(t) => t \in Chunk /\ Base(t) \in Address
<1> SUFFICES ASSUME NEW t, OwnTail(t) PROVE t \in Chunk
    BY ChunkInMemory
<1>1. CASE Using /\ boundary > Base(using_idx) /\ t \in using_idx + 1 .. EndOf(using_idx, boundary) - 1
  <2>1. Group(using_idx, boundary) /\ using_idx \in Chunk /\ Base(using_idx) \in Nat
      BY <1>1, ChunkInMemory, Indices DEF UsingOK, Using, Starved
  <2> QED BY <1>1, <2>1, GroupShape, Indices
<1>2. CASE ReplayIn(Releasing) /\ t \in j .. using_idx + occupied - 1
    BY <1>2, Reach
<1> QED BY <1>1, <1>2 DEF OwnTail

\* While it uses a chunk the replay stays there.
LEMMA UsingPlace ==
    ASSUME IInv, Using
    PROVE  /\ ReplayIn({"call", "take", "emptied", "exit", "crashed"})
           /\ ReplayPos = using_idx /\ using_idx \in Chunk
<1>1. using_idx \in Chunk /\ ReplayIn({"call", "take", "emptied", "exit", "crashed"})
    BY DEF Using, IInv, RingInv
<1>2. using_idx # ChunkCount
    BY <1>1, Kinds
<1> QED BY <1>1, <1>2 DEF ReplayPos, ReplayIn, Releasing, Wrapped

\* What the replay is using.
LEMMA UsingFacts ==
    ASSUME IInv, UsingOK, Using, ~Starved
    PROVE  /\ using_idx \in Chunk /\ boundary \in Nat /\ current[using_idx] \in Nat
           /\ boundary > Base(using_idx) /\ Group(using_idx, boundary)
           /\ EndOf(using_idx, boundary) \in 1 .. ChunkCount
           /\ using_idx < EndOf(using_idx, boundary)
           /\ Wrapped(EndOf(using_idx, boundary)) \in Chunk
           /\ Base(using_idx) \in Nat /\ Base(using_idx) <= current[using_idx]
           /\ current[using_idx] <= boundary
           /\ current[using_idx] .. boundary - 1 \subseteq Address
           /\ using_idx + 1 .. EndOf(using_idx, boundary) - 1 \subseteq Chunk
<1>1. using_idx \in Chunk /\ boundary \in Nat /\ current[using_idx] \in Nat
    BY Indices, Kinds DEF Using
<1>2. /\ boundary > Base(using_idx) /\ Group(using_idx, boundary)
      /\ current[using_idx] <= boundary
    BY DEF UsingOK
<1>3. /\ EndOf(using_idx, boundary) \in 1 .. ChunkCount
      /\ using_idx < EndOf(using_idx, boundary) /\ Base(using_idx) \in Nat
      /\ Base(using_idx) .. boundary - 1 \subseteq Address
      /\ using_idx + 1 .. EndOf(using_idx, boundary) - 1 \subseteq Chunk
    BY <1>1, <1>2, GroupShape
<1>4. Base(using_idx) <= current[using_idx]
    BY <1>1, <1>3 DEF IInv, RingInv, Using
<1>5. Wrapped(EndOf(using_idx, boundary)) \in Chunk
    BY <1>3, Kinds DEF Wrapped
<1> QED BY <1>1, <1>2, <1>3, <1>4, <1>5

\* A step of the loading thread that moves neither the replay nor any packet
\* that is pending.
LEMMA LoaderFrame ==
    ASSUME IInv, IInv', Chain,
           input' = input, next' = next, delivered' = delivered, using_idx' = using_idx,
           boundary' = boundary, occupied' = occupied, j' = j, pc'[Replay] = pc[Replay],
           \A c \in Chunk :
              /\ Leads(c)' <=> Leads(c)
              /\ status'[c] = "USING" <=> status[c] = "USING"
              /\ Leads(c) \/ status[c] = "USING" => current'[c] = current[c]
              /\ status[c] = "READY" => status'[c] = "READY"
              /\ status[c] = "LOADING" =>
                   \/ status'[c] = "READY"
                   \/ /\ status'[c] = "LOADING" /\ loading_idx' = loading_idx
                      /\ LoaderIn({"share"}) => LoaderIn({"share"})',
           \A d \in Chunk : \A k \in Delivered + 1 .. next : Expects(d, k) => Expects(d, k)',
           \A a \in Address : Kept(a) => mem'[a] = mem[a]
    PROVE  /\ LeadersOK' /\ UsingOK' /\ ReleaseOK' /\ PosOK' /\ Distinct'
           /\ \A c \in Chunk : Grouped(c) => Grouped(c)'
<1>1. Delivered' = Delivered /\ (Starved' <=> Starved) /\ (Broken' <=> Broken) /\ ReplayPos' = ReplayPos
    BY DEF Delivered, Starved, Base, Broken, ReplayPos, ReplayIn, Wrapped
<1>2. Using' <=> Using
    BY DEF Using, Chunk
<1>3. \A t \in Chunk : OwnTail(t)' <=> OwnTail(t)
    BY <1>2 DEF OwnTail, EndOf, ChunksFor, Base, ReplayIn
<1>4. LeadersOK /\ UsingOK /\ ReleaseOK /\ PosOK /\ Distinct
    BY DEF Chain
<1>5. \A c \in Chunk : Leads(c) =>
        /\ Group(c, current[c])
        /\ Base(c) .. current[c] - 1 \subseteq Address
        /\ c + 1 .. EndOf(c, current[c]) - 1 \subseteq Chunk
    BY <1>4, LeaderFacts, GroupShape DEF LeadersOK
<1>6. \A c \in Chunk : Leads(c) =>
        /\ \A a \in Base(c) .. current[c] - 1 : mem'[a] = mem[a]
        /\ \A t \in c + 1 .. EndOf(c, current[c]) - 1 :
              /\ mem'[Base(t)] = 0 /\ ~OwnTail(t)'
              /\ status'[t] = "READY" \/ (status'[t] = "LOADING" /\ loading_idx' = c)
  <2> SUFFICES ASSUME NEW c \in Chunk, Leads(c)
               PROVE  /\ \A a \in Base(c) .. current[c] - 1 : mem'[a] = mem[a]
                      /\ \A t \in c + 1 .. EndOf(c, current[c]) - 1 :
                            /\ mem'[Base(t)] = 0 /\ ~OwnTail(t)'
                            /\ status'[t] = "READY" \/ (status'[t] = "LOADING" /\ loading_idx' = c)
      OBVIOUS
  <2>1. \A a \in Base(c) .. current[c] - 1 : mem'[a] = mem[a]
      BY <1>5 DEF Kept, Pending
  <2>2. ASSUME NEW t \in c + 1 .. EndOf(c, current[c]) - 1
        PROVE  /\ mem'[Base(t)] = 0 /\ ~OwnTail(t)'
               /\ status'[t] = "READY" \/ (status'[t] = "LOADING" /\ loading_idx' = c)
    <3>1. t \in Chunk /\ ~OwnTail(t)
        BY <1>4, <1>5 DEF LeadersOK
    <3>2. mem[Base(t)] = 0 /\ (status[t] = "READY" \/ (status[t] = "LOADING" /\ loading_idx = c))
        BY <1>5 DEF Group
    <3>3. Base(t) \in Address
        BY <3>1, ChunkInMemory
    <3>4. Kept(Base(t))
        BY DEF Kept
    <3> QED BY <1>3, <3>1, <3>2, <3>3, <3>4
  <2> QED BY <2>1, <2>2
<1>7. \A d \in Chunk : \A k \in Delivered + 2 .. next : Expects(d, k) => Expects(d, k)'
    BY Kinds
<1>8. LeadersOK'
  <2>1. \A c \in Chunk : Leads(c)' =>
              /\ Leads(c) /\ current'[c] = current[c]
              /\ \A a \in Base(c) .. current[c] - 1 : mem'[a] = mem[a]
              /\ \A t \in c + 1 .. EndOf(c, current[c]) - 1 :
                    /\ mem'[Base(t)] = 0 /\ ~OwnTail(t)'
                    /\ status'[t] = "READY" \/ (status'[t] = "LOADING" /\ loading_idx' = c)
      BY <1>6
  <2> QED BY <1>1, <1>4, <1>7, <2>1, LeadersKept
<1>9. ASSUME Using, ~Starved
      PROVE  /\ current'[using_idx] = current[using_idx]
             /\ \A a \in current[using_idx] .. boundary - 1 : mem'[a] = mem[a]
             /\ Group(using_idx, boundary)'
  <2>1. current'[using_idx] = current[using_idx]
      BY <1>9 DEF Using
  <2>2. \A a \in current[using_idx] .. boundary - 1 : mem'[a] = mem[a]
      BY <1>4, <1>9, UsingFacts DEF Kept, Pending
  <2>3. ASSUME NEW t \in using_idx + 1 .. EndOf(using_idx, boundary) - 1
        PROVE  /\ mem'[Base(t)] = 0
               /\ status'[t] = "READY" \/ (status'[t] = "LOADING" /\ loading_idx' = using_idx)
    <3>1. OwnTail(t)
        BY <1>4, <1>9, UsingFacts DEF OwnTail
    <3>2. t \in Chunk /\ Base(t) \in Address
        BY <1>4, <1>9, <3>1, OwnTailFacts
    <3>3. mem[Base(t)] = 0 /\ (status[t] = "READY" \/ (status[t] = "LOADING" /\ loading_idx = using_idx))
        BY <1>4, <1>9, UsingFacts DEF Group
    <3> QED BY <3>1, <3>2, <3>3 DEF Kept
  <2>4. EndOf(using_idx, boundary) <= ChunkCount /\ boundary < Base(EndOf(using_idx, boundary))
      BY <1>4, <1>9, UsingFacts DEF Group
  <2> QED BY <2>1, <2>2, <2>3, <2>4 DEF Group, EndOf, ChunksFor, Base
<1>10. UsingOK'
  <2> SUFFICES ASSUME Using, ~Starved
               PROVE  (/\ boundary > Base(using_idx)
                       /\ Group(using_idx, boundary)
                       /\ current[using_idx] <= boundary
                       /\ Linked(using_idx, current[using_idx], boundary)
                       /\ current[using_idx] < boundary =>
                            ~ReplayIn({"emptied"}) /\ mem[current[using_idx]] = Delivered + 1
                       /\ current[using_idx] = boundary =>
                            /\ ReplayIn({"emptied"})
                            /\ Expects(Wrapped(EndOf(using_idx, boundary)), Delivered + 1))'
      BY <1>1, <1>2 DEF UsingOK
  <2>1. /\ using_idx \in Chunk /\ boundary \in Nat /\ current[using_idx] \in Nat
        /\ boundary > Base(using_idx) /\ Group(using_idx, boundary)
        /\ EndOf(using_idx, boundary) \in 1 .. ChunkCount
        /\ Wrapped(EndOf(using_idx, boundary)) \in Chunk
        /\ current[using_idx] <= boundary
        /\ current[using_idx] .. boundary - 1 \subseteq Address
      BY <1>4, UsingFacts
  <2>2. /\ Linked(using_idx, current[using_idx], boundary)
        /\ current[using_idx] < boundary =>
             ~ReplayIn({"emptied"}) /\ mem[current[using_idx]] = Delivered + 1
        /\ current[using_idx] = boundary =>
             /\ ReplayIn({"emptied"})
             /\ Expects(Wrapped(EndOf(using_idx, boundary)), Delivered + 1)
      BY <1>4 DEF UsingOK
  <2>3. PICK u \in Chunk, lo \in Nat, hi \in Nat : u = using_idx /\ lo = current[using_idx] /\ hi = boundary
      BY <2>1
  <2>4. Linked(u, lo, hi)'
      BY <1>1, <1>7, <1>9, <2>1, <2>2, <2>3, LinkedKept
  <2>5. Linked(using_idx, current[using_idx], boundary)'
      BY <1>9, <2>3, <2>4
  <2>6. current[using_idx] = boundary => Expects(Wrapped(EndOf(using_idx, boundary)), Delivered + 1)'
    <3>1. SUFFICES ASSUME current[using_idx] = boundary
                   PROVE  Expects(Wrapped(EndOf(using_idx, boundary)), Delivered + 1)'
        OBVIOUS
    <3>2. PICK d \in Chunk, k \in Nat : d = Wrapped(EndOf(using_idx, boundary)) /\ k = Delivered + 1
        BY <2>1, Kinds
    <3>3. k \in Delivered + 1 .. next
        BY <1>4, <3>2, BehindLoader, Kinds
    <3>4. Expects(d, k)'
        BY <2>2, <3>1, <3>2, <3>3
    <3>5. (d = Wrapped(EndOf(using_idx, boundary)) /\ k = Delivered + 1)'
        BY <1>1, <3>2 DEF Wrapped, EndOf, ChunksFor, Base
    <3> QED BY <3>4, <3>5
  <2>7. (boundary > Base(using_idx))' /\ (ReplayIn({"emptied"})' <=> ReplayIn({"emptied"}))
      BY <2>1 DEF Base, ReplayIn
  <2>8. current[using_idx] < boundary => mem'[current[using_idx]] = Delivered' + 1
      BY <1>1, <1>9, <2>1, <2>2
  <2> QED BY <1>9, <2>1, <2>2, <2>5, <2>6, <2>7, <2>8
<1>11. ReleaseOK'
  <2> SUFFICES ASSUME ReplayIn(Releasing), NEW t \in j .. using_idx + occupied - 1
               PROVE  /\ status'[t] = "READY" \/ (status'[t] = "LOADING" /\ LoaderIn({"share"})')
                      /\ mem'[Base(t)] = 0
      BY DEF ReleaseOK, ReplayIn, Base
  <2>1. OwnTail(t)
      BY DEF OwnTail
  <2>2. t \in Chunk /\ Base(t) \in Address
      BY <1>4, <2>1, OwnTailFacts
  <2>3. (status[t] = "READY" \/ (status[t] = "LOADING" /\ LoaderIn({"share"}))) /\ mem[Base(t)] = 0
      BY <1>4 DEF ReleaseOK
  <2> QED BY <2>1, <2>2, <2>3 DEF Kept
<1>12. PosOK'
  <2> SUFFICES ASSUME ~Using PROVE Expects(ReplayPos, Delivered + 1)'
      BY <1>2 DEF PosOK
  <2>1. PICK d \in Chunk, k \in Nat : d = ReplayPos /\ k = Delivered + 1
      BY Positions, Kinds
  <2>2. k \in Delivered + 1 .. next
      BY <1>4, <2>1, BehindLoader, Kinds
  <2>3. Expects(d, k)'
      BY <1>4, <2>1, <2>2 DEF PosOK
  <2>4. (d = ReplayPos /\ k = Delivered + 1)'
      BY <1>1, <2>1
  <2> QED BY <2>3, <2>4
<1>13. Distinct'
  <2>1. ASSUME NEW a \in Address, Pending(a)' PROVE Pending(a) /\ mem'[a] = mem[a]
    <3>1. Pending(a)
        BY <1>2, <2>1 DEF Pending, Base, Using
    <3> QED BY <3>1 DEF Kept
  <2> QED BY <1>4, <2>1 DEF Distinct, Address
<1>14. ASSUME NEW c \in Chunk, Grouped(c) PROVE Grouped(c)'
  <2>1. OwnTail(c) => OwnTail(c)'
      BY <1>3
  <2>2. \A h \in Chunk : Leads(h) => Leads(h)' /\ current'[h] = current[h]
      OBVIOUS
  <2> QED BY <1>14, <2>1, <2>2 DEF Grouped, EndOf, ChunksFor, Base, Chunk
<1> QED BY <1>8, <1>10, <1>11, <1>12, <1>13, <1>14

\* A chunk that is skipped is never loaded: there is none while the last chunk
\* is being loaded.
LEMMA NoChunkLoading ==
    ASSUME IInv, ~LoaderIn(Grabbing \union Loading \union {"share"})
    PROVE  \A c \in Chunk : status[c] # "LOADING"
BY DEF IInv, RingInv, MarkedLoading, LoaderIn

\* Covered chunks stay so under a step that keeps groups and resets no chunk.
LEMMA CoveredKept ==
    ASSUME IInv, NEW c \in Chunk, Grouped(c) => Grouped(c)', Broken => Broken',
           current'[c] = current[c], Covered(c)
    PROVE  Covered(c)'
BY DEF Covered, Base

-----------------------------------------------------------------------------
(* The steps of the loading thread.                                        *)

\* The thread moves on, or its index does, while nothing is being loaded.
LEMMA LoaderIdle ==
    ASSUME IInv, IInv', Chain, LoadOK',
           UNCHANGED <<input, status, current, mem, next, exiting, skipped_to_first,
                       using_idx, boundary, occupied, j, delivered>>,
           pc'[Replay] = pc[Replay], LoaderPos' = LoaderPos,
           ~LoaderIn(Loading),
           ~LoaderIn(Loading \union Skipping \union {"share", "skipNotify", "skipNone"})',
           \/ \A c \in Chunk : status[c] # "LOADING"
           \/ loading_idx' = loading_idx /\ ~LoaderIn({"share"})
    PROVE  Chain'
<1>1. \A c \in Chunk : Leads(c)' <=> Leads(c)
    BY DEF Leads, Base
<1>2. \A d \in Chunk : \A k : Expects(d, k) => Expects(d, k)'
    BY <1>1, Kinds DEF Expects, Broken, Base
<1>3. /\ LeadersOK' /\ UsingOK' /\ ReleaseOK' /\ PosOK' /\ Distinct'
      /\ \A c \in Chunk : Grouped(c) => Grouped(c)'
    BY <1>1, <1>2, LoaderFrame
<1>4. ReadyOK'
    BY <1>3, CoveredKept DEF ReadyOK, Chain, Broken, Chunk
<1>5. ShareOK' /\ FilledOK' /\ exiting' = FALSE
    BY DEF ShareOK, FilledOK, LoaderIn, Chain, IInv, TypeOK, TypeFlag
<1>6. BaseOK'
    BY DEF BaseOK, LoaderIn, Chain, Base, Chunk
<1>7. SkipOK'
  <2>1. ReplayPos' = ReplayPos /\ (Using' <=> Using) /\ (Broken' <=> Broken) /\ (Leads(0)' <=> Leads(0))
      BY <1>1, Kinds DEF ReplayPos, Using, Broken, ReplayIn, Wrapped, Chunk
  <2>2. SkipOK
      BY DEF Chain
  <2> QED BY <2>1, <2>2 DEF SkipOK, LoaderIn, ReplayIn, Chunk
<1> QED BY <1>3, <1>4, <1>5, <1>6, <1>7 DEF Chain

\* A packet in a chunk needs one chunk if it is not large.
LEMMA PlannedChunks ==
    ASSUME IInv, ~NoMorePackets
    PROVE  /\ NextSize \in Nat \ {0}
           /\ ~IsLarge => ChunksFor(NextSize) = 1
           /\ PacketsFit => ChunksFor(NextSize) \in 1 .. 2 /\ NextSize < Base(ChunksFor(NextSize))
<1>1. next \in 1 .. PacketCount /\ NextSize = input.size[next] /\ NextSize \in Nat \ {0}
    BY Kinds DEF NoMorePackets, NextSize
<1>2. ASSUME ~IsLarge PROVE ChunksFor(NextSize) = 1
  <2>1. PICK size \in Nat \ {0} : size = NextSize
      BY <1>1
  <2>2. size <= Base(1)
      BY <1>2, <2>1, ConstantsAssumption DEF IsLarge, Base
  <2>3. ChunksFor(size) \in 1 .. 1
      BY <2>2, ChunksForBound
  <2> QED BY <2>1, <2>3
<1>3. ASSUME PacketsFit
      PROVE  ChunksFor(NextSize) \in 1 .. 2 /\ NextSize < Base(ChunksFor(NextSize))
  <2>1. next \in DOMAIN input.size
      BY <1>1, Kinds, ConstantsAssumption DEF PacketCount
  <2>2. ChunksFor(NextSize) <= 2 /\ NextSize < Base(ChunksFor(NextSize))
      BY <1>1, <1>3, <2>1, Kinds DEF PacketsFit
  <2>3. ChunksFor(NextSize) \in Nat \ {0}
      BY <1>1, ChunksForPositive
  <2> QED BY <2>2, <2>3
<1> QED BY <1>1, <1>2, <1>3

\* The steps that load nothing.
LEMMA IdleLoaderKeepsChain ==
    ASSUME IInv, IInv', Chain,
           L_Exit \/ L_Wrap \/ L_Turn \/ L_Status \/ L_Lock \/ L_PlanLoad
             \/ L_GrabNext \/ L_GrabGet \/ L_SkipDone \/ L_Bump \/ L_Finish \/ L_Again
    PROVE  Chain'
<1> USE DEF At, Goto, Jump, Loader, Replay, LoaderIn, Skipping, Grabbing, Loading,
            ringVars, fileVars, skipVars, loadVars, fullVars, resultVars, replayVars,
            sharedVars, dataVars
<1>1. /\ UNCHANGED <<input, status, current, mem, next, exceed, exiting,
                     using_idx, boundary, occupied, j, delivered>>
      /\ pc'[Replay] = pc[Replay] /\ skipped_to_first' = skipped_to_first
  <2>1. skipped_to_first = "NONE"
      BY DEF Chain, SkipOK
  <2>2. pc \in [Thread -> LoaderPlaces \union ReplayPlaces] /\ Loader \in Thread /\ Replay \in Thread
      BY DEF IInv, TypeOK, TypeControl, Thread
  <2> QED BY <2>1, <2>2 DEF L_Exit, L_Wrap, L_Turn, L_Status, L_Lock, L_PlanLoad,
        L_GrabNext, L_GrabGet, L_SkipDone, L_Bump, L_Finish, L_Again
<1>2. /\ loading_idx \in 0 .. ChunkCount /\ ~exiting /\ ChunkCount \in Nat \ {0}
      /\ skipped_to_first = "NONE" /\ i \in 1 .. ChunkCount /\ needed \in 1 .. ChunkCount
      /\ LoaderIn(Skipping) => i = ChunkCount
    BY Kinds, Indices DEF Chain, SkipOK
<1>3. pc \in [Thread -> LoaderPlaces \union ReplayPlaces] /\ "loader" \in Thread
    BY DEF IInv, TypeOK, TypeControl, Thread
<1> DEFINE from == pc[Loader]
           to == pc'[Loader]
<1>4. \/ /\ from = "top" /\ to = "status" /\ loading_idx = ChunkCount /\ loading_idx' = 0
         /\ UNCHANGED <<needed, i>>
      \/ /\ \/ from = "top" /\ to = "status"
            \/ from = "status" /\ to \in {"lock", "end"}
            \/ from = "lock" /\ to = "plan"
            \/ from = "grab" /\ to \in {"grabGet", "grabLock"}
            \/ from = "grabGet" /\ to = "grabLock"
            \/ from = "end" /\ to = "done"
            \/ from = "end" /\ to = "top" /\ ~NoMorePackets /\ ~exceed
         /\ UNCHANGED <<loading_idx, needed, i>>
      \/ /\ from = "plan" /\ to = "grab" /\ UNCHANGED loading_idx
         /\ needed' = IF IsLarge THEN ChunksFor(NextSize) ELSE 1
      \/ from = "skip" /\ to = "top" /\ loading_idx' = ChunkCount /\ UNCHANGED <<needed, i>>
      \/ /\ from = "share" /\ to = "end" /\ loading_idx' = loading_idx + needed /\ i >= needed
         /\ UNCHANGED <<needed, i>>
  <2>1. ~L_Exit
      BY <1>2 DEF L_Exit
  <2>2. CASE L_Wrap \/ L_Turn
      BY <1>2, <1>3, <2>2 DEF L_Wrap, L_Turn
  <2>3. CASE L_Status \/ L_Lock
      BY <1>2, <1>3, <2>3 DEF L_Status, L_Lock
  <2>4. CASE L_PlanLoad
      BY <1>2, <1>3, <2>4 DEF L_PlanLoad
  <2>5. CASE L_GrabNext \/ L_GrabGet
      BY <1>2, <1>3, <2>5 DEF L_GrabNext, L_GrabGet, Awake
  <2>6. CASE L_SkipDone
      BY <1>2, <1>3, <2>6 DEF L_SkipDone
  <2>7. CASE L_Bump
      BY <1>2, <1>3, <2>7 DEF L_Bump
  <2>8. CASE L_Finish \/ L_Again
      BY <1>2, <1>3, <2>8 DEF L_Finish, L_Again
  <2> QED BY <2>1, <2>2, <2>3, <2>4, <2>5, <2>6, <2>7, <2>8
<1> HIDE DEF from, to
<1>5. LoaderPos' = LoaderPos
    BY <1>1, <1>2, <1>4 DEF LoaderPos, Wrapped, Base, from, to
<1>6. ~LoaderIn(Loading) /\ ~LoaderIn(Loading \union Skipping \union {"share", "skipNotify", "skipNone"})'
    BY <1>4 DEF from, to
<1>7. \/ \A c \in Chunk : status[c] # "LOADING"
      \/ loading_idx' = loading_idx /\ ~LoaderIn({"share"})
  <2>1. CASE from = "share"
    <3>1. \A c \in Chunk : ~MarkedLoading(c)
        BY <2>1, <1>2, <1>4 DEF MarkedLoading, from, to
    <3> QED BY <3>1 DEF IInv, RingInv
  <2>2. CASE from \in {"top", "skip", "plan"}
    <3>1. ~LoaderIn(Grabbing \union Loading \union {"share"})
        BY <2>2 DEF from
    <3> QED BY <3>1, NoChunkLoading
  <2>3. CASE from \notin {"top", "skip", "plan", "share"}
      BY <2>3, <1>4 DEF from
  <2> QED BY <2>1, <2>2, <2>3
<1>8. LoadOK'
  <2>1. (NextSize' = NextSize) /\ (NoMorePackets' <=> NoMorePackets) /\ exceed' = exceed /\ input' = input /\ next' = next
      BY <1>1 DEF NextSize, NoMorePackets, PacketCount
  <2>2. LoadOK
      BY DEF Chain
  <2>3. ~LoaderIn({"load", "loaded", "ready", "share", "end", "done"})' => ~NoMorePackets /\ ~exceed
      BY <1>4, <2>2 DEF LoadOK, from, to
  <2>4. LoaderIn(Grabbing)' => needed' = ChunksFor(NextSize)
    <3>1. CASE from = "plan"
      <4>1. ~NoMorePackets
          BY <3>1, <2>2 DEF LoadOK, from
      <4> QED BY <3>1, <4>1, <1>4, PlannedChunks
    <3>2. CASE from # "plan"
        BY <1>4, <2>2, <3>2 DEF LoadOK, from, to
    <3> QED BY <3>1, <3>2
  <2>5. (ChunksFor(NextSize))' = ChunksFor(NextSize)
      BY <2>1 DEF ChunksFor
  <2> QED BY <1>6, <1>4, <2>1, <2>2, <2>3, <2>4, <2>5 DEF LoadOK, from, to
<1> QED BY <1>1, <1>5, <1>6, <1>7, <1>8, LoaderIdle

\* A step that changes nothing the order depends on.
LEMMA ChainStutters ==
    ASSUME Chain,
           UNCHANGED <<input, status, current, mem, next, exceed, exiting, skipped_to_first,
                       loading_idx, needed, i, using_idx, boundary, occupied, j, delivered, pc>>
    PROVE  Chain'
<1>1. /\ LoaderPos' = LoaderPos /\ ReplayPos' = ReplayPos /\ (Using' <=> Using)
      /\ \A c : Leads(c)' <=> Leads(c)
    BY DEF LoaderPos, ReplayPos, Using, Leads, LoaderIn, ReplayIn, Wrapped, Base
<1>2. \A c, k : Expects(c, k)' <=> Expects(c, k)
    BY <1>1 DEF Expects, Broken, Base
<1>3. /\ \A c, lo, hi : Linked(c, lo, hi)' <=> Linked(c, lo, hi)
      /\ \A c, hi : Group(c, hi)' <=> Group(c, hi)
      /\ \A c : OwnTail(c)' <=> OwnTail(c)
    BY <1>1, <1>2 DEF Linked, Group, OwnTail, Delivered, EndOf, ChunksFor, Base, Wrapped, ReplayIn
<1>4. LeadersOK'
    BY <1>1, <1>3 DEF Chain, LeadersOK, EndOf, ChunksFor, Base
<1>5. UsingOK' /\ PosOK' /\ ReleaseOK'
    BY <1>1, <1>2, <1>3 DEF Chain, UsingOK, PosOK, ReleaseOK, Starved, Broken, Delivered, EndOf,
       ChunksFor, Base, Wrapped, ReplayIn, LoaderIn
<1>6. Distinct'
    BY <1>1 DEF Chain, Distinct, Pending, Base
<1>7. \A c : (Grouped(c)' <=> Grouped(c)) /\ (Covered(c)' <=> Covered(c))
    BY <1>1, <1>3 DEF Covered, Grouped, Broken, EndOf, ChunksFor, Base
<1>8. ReadyOK' /\ ShareOK'
    BY <1>7 DEF Chain, ReadyOK, ShareOK, Hollow, Broken, LoaderIn, Base
<1>9. SkipOK' /\ BaseOK'
    BY <1>1 DEF Chain, SkipOK, BaseOK, Broken, LoaderIn, ReplayIn, Base
<1>10. FilledOK' /\ LoadOK'
    BY DEF Chain, FilledOK, LoadOK, Broken, LoaderIn, Base, NextSize, NoMorePackets, PacketCount, ChunksFor
<1> QED BY <1>4, <1>5, <1>6, <1>8, <1>9, <1>10 DEF Chain

\* A step that makes an empty chunk one that is being loaded.
LEMMA GrabKeepsChain ==
    ASSUME IInv, IInv', Chain, NEW g \in Chunk, status[g] = "EMPTY",
           status' = [status EXCEPT ![g] = "LOADING"],
           UNCHANGED <<input, current, mem, next, exceed, exiting, skipped_to_first, loading_idx,
                       needed, using_idx, boundary, occupied, j, delivered>>,
           pc'[Replay] = pc[Replay], LoaderIn(Grabbing),
           \/ LoaderIn(Grabbing)' /\ g # loading_idx
           \/ LoaderIn({"load"})' /\ g = loading_idx
    PROVE  Chain'
<1>1. current[g] = Base(g) /\ current[g] \in Nat /\ Base(g) \in Nat
    BY Kinds, ChunkInMemory DEF Chain, BaseOK
<1>2. \A c \in Chunk : status'[c] = IF c = g THEN "LOADING" ELSE status[c]
    BY Kinds
<1>3. \A c \in Chunk : Leads(c)' <=> Leads(c)
    BY <1>1, <1>2 DEF Leads, Base
<1>4. LoaderPos' = LoaderPos
    BY <1>1 DEF LoaderPos, LoaderIn, Grabbing, Loading, Skipping, Wrapped, Base
<1>5. \A d \in Chunk : \A k : Expects(d, k) => Expects(d, k)'
    BY <1>2, <1>3, <1>4, Kinds DEF Expects, Broken, Base
<1>6. /\ LeadersOK' /\ UsingOK' /\ ReleaseOK' /\ PosOK' /\ Distinct'
      /\ \A c \in Chunk : Grouped(c) => Grouped(c)'
  <2>1. ~LoaderIn({"share"})
      BY DEF LoaderIn, Grabbing
  <2> QED BY <1>2, <1>3, <1>5, <2>1, LoaderFrame
<1>7. ReadyOK'
    BY <1>2, <1>6, CoveredKept DEF ReadyOK, Chain, Broken, Chunk
<1>8. ShareOK' /\ exiting' = FALSE
    BY DEF ShareOK, LoaderIn, Grabbing, Chain, IInv, TypeOK, TypeFlag
<1>9. BaseOK'
    BY <1>1, <1>2 DEF BaseOK, LoaderIn, Loading, Grabbing, Chain, Base, Chunk
<1>10. SkipOK'
  <2>1. ReplayPos' = ReplayPos /\ (Using' <=> Using) /\ (Broken' <=> Broken) /\ (Leads(0)' <=> Leads(0))
      BY <1>2, <1>3, Kinds DEF ReplayPos, Using, Broken, ReplayIn, Wrapped, Chunk
  <2>2. SkipOK
      BY DEF Chain
  <2> QED BY <1>2, <1>4, <2>1, <2>2 DEF SkipOK, LoaderIn, ReplayIn, Chunk, Grabbing, Skipping
<1>11. FilledOK' /\ LoadOK'
    BY <1>1 DEF Chain, FilledOK, LoadOK, LoaderIn, Base, NextSize, NoMorePackets, PacketCount, ChunksFor,
       Grabbing, Loading, Broken
<1> QED BY <1>6, <1>7, <1>8, <1>9, <1>10, <1>11 DEF Chain

\* Locking the chunks a packet needs.
LEMMA GrabStepsKeepChain ==
    ASSUME IInv, IInv', Chain, L_GrabLock \/ L_Begin
    PROVE  Chain'
<1> USE DEF At, Goto, Loader, Replay, ringVars, fileVars, skipVars, loadVars, fullVars,
            resultVars, replayVars
<1>1. /\ pc \in [Thread -> LoaderPlaces \union ReplayPlaces] /\ Loader \in Thread /\ Replay \in Thread
      /\ skipped_to_first = "NONE"
    BY DEF IInv, TypeOK, TypeControl, Thread, Chain, SkipOK
<1>2. CASE L_GrabLock
  <2>1. PICK g \in Int : g = loading_idx + i
      BY Indices
  <2>2. g \in Chunk /\ g # loading_idx
    <3>1. LoaderIn(Grabbing) /\ i < needed
        BY <1>2 DEF L_GrabLock, IInv, LoaderInv, LoaderIn, Grabbing
    <3>2. loading_idx + needed <= ChunkCount /\ loading_idx \in Chunk
        BY <3>1, Indices DEF LoaderIn
    <3>3. loading_idx \in 0 .. ChunkCount /\ i \in 1 .. ChunkCount /\ needed \in 1 .. ChunkCount
        BY Indices
    <3> QED BY <2>1, <3>1, <3>2, <3>3, ConstantsAssumption DEF Chunk
  <2>3. status[g] = "EMPTY"
      BY <1>2, <2>1, <2>2 DEF L_GrabLock, IInv, LoaderInv, LoaderIn, Taken, RingInv, Free
  <2>4. LoaderIn(Grabbing) /\ LoaderIn(Grabbing)'
      BY <1>1, <1>2 DEF L_GrabLock, LoaderIn, Grabbing
  <2>5. /\ status' = [status EXCEPT ![g] = "LOADING"]
        /\ UNCHANGED <<input, current, mem, next, exceed, exiting, skipped_to_first, loading_idx,
                       needed, using_idx, boundary, occupied, j, delivered>>
        /\ pc'[Replay] = pc[Replay]
      BY <1>1, <1>2, <2>1 DEF L_GrabLock
  <2> QED BY <2>2, <2>3, <2>4, <2>5, GrabKeepsChain
<1>3. CASE L_Begin
  <2>1. LoaderIn(Grabbing) /\ LoaderIn({"load"})'
      BY <1>1, <1>3 DEF L_Begin, LoaderIn, Grabbing
  <2>2. PICK g \in Chunk : g = loading_idx
      BY <2>1, Indices DEF LoaderIn
  <2>3. status[g] = "EMPTY"
      BY <2>1, <2>2 DEF IInv, LoaderInv, LoaderIn
  <2>4. /\ status' = [status EXCEPT ![g] = "LOADING"]
        /\ UNCHANGED <<input, current, mem, next, exceed, exiting, skipped_to_first, loading_idx,
                       needed, using_idx, boundary, occupied, j, delivered>>
        /\ pc'[Replay] = pc[Replay]
      BY <1>1, <1>3, <2>2 DEF L_Begin
  <2> QED BY <2>1, <2>2, <2>3, <2>4, GrabKeepsChain
<1> QED BY <1>2, <1>3

\* A packet that does not fit at the end of the ring skips its last chunk.
LEMMA PlanSkipKeepsChain ==
    ASSUME IInv, IInv', Chain, AllFit, PacketsFit, L_PlanSkip
    PROVE  Chain'
<1> DEFINE l == loading_idx
<1>1. /\ pc[Loader] = "plan" /\ pc'[Loader] = "skip" /\ pc'[Replay] = pc[Replay]
      /\ UNCHANGED <<input, current, mem, next, exceed, exiting, skipped_to_first, loading_idx,
                     needed, using_idx, boundary, occupied, j, delivered>>
      /\ status' = [status EXCEPT ![l] = "SKIPPED"] /\ i' = l + 1
    BY DEF L_PlanSkip, At, Goto, Loader, Replay, ringVars, fileVars, skipVars, fullVars,
           resultVars, replayVars, IInv, TypeOK, TypeControl, Thread
<1>2. l \in Chunk /\ status[l] = "EMPTY" /\ ~NoMorePackets
    BY <1>1, Indices DEF LoaderIn, IInv, LoaderInv, Chain, LoadOK
<1>3. l = ChunkCount - 1 /\ l # 0
  <2>1. ChunksFor(NextSize) \in 1 .. 2 /\ ChunksFor(NextSize) <= ChunkCount
      BY <1>2, PlannedChunks, NextSizeFacts DEF IInv, TypeOK
  <2>2. l + ChunksFor(NextSize) > ChunkCount
      BY DEF L_PlanSkip, DoesNotFit
  <2> QED BY <1>2, <2>1, <2>2, Kinds
<1>4. \A c \in Chunk : status'[c] = IF c = l THEN "SKIPPED" ELSE status[c]
    BY <1>1, <1>2, Kinds
<1>5. \A c \in Chunk : status[c] # "SKIPPED" /\ status[c] # "LOADING"
  <2>1. \A c \in Chunk : status[c] # "SKIPPED"
      BY <1>2, <1>3 DEF Chain, SkipOK
  <2>2. ~LoaderIn(Grabbing \union Loading \union {"share"})
      BY <1>1 DEF LoaderIn, Grabbing, Loading
  <2> QED BY <2>1, <2>2, NoChunkLoading
<1>6. \A c \in Chunk : Leads(c)' <=> Leads(c)
    BY <1>1, <1>2, <1>4 DEF Leads, Base
<1>7. LoaderPos = l /\ LoaderPos' = 0
    BY <1>1, <1>2, <1>3, Kinds DEF LoaderPos, LoaderIn, Skipping, Loading, Wrapped
<1>8. \A d \in Chunk : \A k : Expects(d, k) => Expects(d, k)'
    BY <1>1, <1>4, <1>5, <1>6, <1>7 DEF Expects, Broken, Base
<1>9. /\ LeadersOK' /\ UsingOK' /\ ReleaseOK' /\ PosOK' /\ Distinct'
      /\ \A c \in Chunk : Grouped(c) => Grouped(c)'
    BY <1>1, <1>2, <1>4, <1>5, <1>6, <1>8, LoaderFrame
<1>10. ReadyOK'
    BY <1>1, <1>4, <1>9, CoveredKept DEF ReadyOK, Chain, Broken, Chunk
<1>11. ShareOK' /\ exiting' = FALSE /\ FilledOK' /\ LoadOK'
    BY <1>1, <1>2 DEF ShareOK, LoaderIn, Chain, IInv, TypeOK, TypeFlag, FilledOK, LoadOK, Loading,
       NoMorePackets, PacketCount, Grabbing
<1>12. BaseOK'
    BY <1>1, <1>2, <1>4, <1>5 DEF BaseOK, Chain, Base, Chunk
<1>13. SkipOK'
  <2>1. ReplayPos' = ReplayPos /\ (Using' <=> Using) /\ (Broken' <=> Broken) /\ (Leads(0)' <=> Leads(0))
      BY <1>1, <1>2, <1>4, <1>6, Kinds DEF ReplayPos, Using, Broken, ReplayIn, Wrapped, Chunk
  <2>2. SkipOK
      BY DEF Chain
  <2>3. ReplayPos = 0 => Leads(0) \/ Using \/ Broken
    <3> SUFFICES ASSUME ReplayPos = 0, ~Using PROVE Leads(0) \/ Broken
        OBVIOUS
    <3>1. Expects(0, Delivered + 1)
        BY DEF Chain, PosOK
    <3> QED BY <3>1, <1>3, <1>5, <1>7, Kinds DEF Expects
  <2>4. i' = ChunkCount
      BY <1>1, <1>3, Kinds
  <2>5. \A c \in Chunk : status'[c] = "SKIPPED" => c = ChunkCount - 1
      BY <1>3, <1>4, <1>5
  <2>6. ReplayPos' = 0 => Leads(0)' \/ Using' \/ Broken'
      BY <2>1, <2>3
  <2>7. (ReplayIn({"skipClear"}))' => j' = ChunkCount
      BY <1>1, <2>2 DEF SkipOK, ReplayIn
  <2> QED BY <1>1, <1>7, <2>2, <2>4, <2>5, <2>6, <2>7 DEF SkipOK, LoaderIn, Chunk
<1> QED BY <1>9, <1>10, <1>11, <1>12, <1>13 DEF Chain

\* The chunks being loaded.
LEMMA LoadingChunks ==
    ASSUME IInv, LoaderIn(Loading)
    PROVE  /\ loading_idx \in Chunk /\ loading_idx \in Nat /\ needed \in Nat \ {0}
           /\ loading_idx + needed \in 1 .. ChunkCount
           /\ \A t \in loading_idx .. loading_idx + needed - 1 : t \in Chunk /\ status[t] = "LOADING"
           /\ status[loading_idx] = "LOADING"
           /\ Base(loading_idx) \in Nat /\ Base(loading_idx + needed) \in Nat
           /\ Base(loading_idx) + ChunkSize * needed = Base(loading_idx + needed)
           /\ Base(loading_idx + needed) <= Base(ChunkCount) /\ Base(ChunkCount) \in Nat
           /\ current[loading_idx] \in Nat
<1>1. loading_idx \in Chunk /\ needed \in Nat \ {0} /\ loading_idx + needed \in 1 .. ChunkCount
    BY Reach
<1>2. ASSUME NEW t \in loading_idx .. loading_idx + needed - 1
      PROVE  t \in Chunk /\ status[t] = "LOADING"
  <2>1. t \in Chunk
      BY <1>1, Kinds
  <2>2. MarkedLoading(t)
      BY DEF MarkedLoading
  <2> QED BY <2>1, <2>2 DEF IInv, RingInv
<1>3. loading_idx \in Nat /\ loading_idx \in loading_idx .. loading_idx + needed - 1
    BY <1>1, Kinds
<1>4. PICK l \in Nat, n \in Nat : l = loading_idx /\ n = needed
    BY <1>1, <1>3
<1>5. /\ Base(l) \in Nat /\ Base(l) + ChunkSize * n = Base(l + n)
      /\ Base(l + n) \in Nat /\ Base(l + n) <= Base(ChunkCount) /\ Base(ChunkCount) \in Nat
  <2>1. Base(l) \in Nat /\ Base(l) + ChunkSize * n = Base(l + n)
      BY BaseSum
  <2>2. PICK m \in Nat : m = l + n
      OBVIOUS
  <2>3. m <= ChunkCount /\ ChunkCount \in Nat
      BY <1>1, <1>4, <2>2, ConstantsAssumption
  <2>4. Base(m) \in Nat /\ Base(m) <= Base(ChunkCount) /\ Base(ChunkCount) \in Nat
      BY <2>3, BaseNat, BaseMonotone
  <2> QED BY <2>1, <2>2, <2>4
<1> QED BY <1>1, <1>2, <1>3, <1>4, <1>5, Kinds

\* Addresses of a group that does not begin with the chunk being loaded.
LEMMA GroupApart ==
    ASSUME IInv, BaseOK, LoaderIn(Loading),
           NEW c \in Chunk, c # loading_idx, NEW hi \in Nat, hi > Base(c), Group(c, hi),
           Leads(c) \/ status[c] = "USING", NEW a \in Base(c) .. hi - 1
    PROVE  a < Base(loading_idx) \/ a >= Base(loading_idx + needed)
<1>1. EndOf(c, hi) <= loading_idx \/ loading_idx + needed <= c
    BY LoaderApart
<1>2. PICK l \in Nat, m \in Nat, e \in Nat : l = loading_idx /\ m = loading_idx + needed /\ e = EndOf(c, hi)
  <2>1. loading_idx \in Nat /\ loading_idx + needed \in Nat
      BY LoadingChunks, Kinds
  <2>2. EndOf(c, hi) \in Nat
    <3>1. EndOf(c, hi) \in 1 .. ChunkCount
        BY GroupShape
    <3> QED BY <3>1, ConstantsAssumption
  <2> QED BY <2>1, <2>2
<1>3. Base(c) \in Nat /\ hi < Base(e) /\ Base(e) \in Nat /\ c \in Nat
    BY <1>2, GroupShape, ChunkInMemory
<1>4. CASE e <= l
  <2>1. Base(e) <= Base(l) /\ Base(l) \in Nat
      BY <1>4, BaseMonotone, BaseNat
  <2> QED BY <1>2, <1>3, <2>1
<1>5. CASE m <= c
  <2>1. Base(m) <= Base(c) /\ Base(m) \in Nat
      BY <1>3, <1>5, BaseMonotone, BaseNat
  <2> QED BY <1>2, <1>3, <2>1
<1> QED BY <1>1, <1>2, <1>4, <1>5

\* The tails of a group lie within it.
LEMMA TailInGroup ==
    ASSUME IInv, NEW c \in Chunk, NEW hi \in Nat, hi > Base(c), Group(c, hi),
           NEW t \in c + 1 .. EndOf(c, hi) - 1
    PROVE  Base(t) \in Base(c) .. hi - 1
<1>1. PICK e \in Nat : e = EndOf(c, hi)
    BY GroupShape
<1>2. t \in Nat /\ t <= e - 1 /\ e - 1 \in Nat /\ c \in Nat /\ c <= t
    BY <1>1, Kinds
<1>3. Base(e - 1) < hi
    BY <1>1, GroupShape
<1>4. Base(t) \in Nat /\ Base(c) \in Nat /\ Base(e - 1) \in Nat
    BY <1>2, BaseNat
<1>5. Base(c) <= Base(t)
    BY <1>2, BaseMonotone
<1>6. PICK d \in Nat : d = e - 1
    BY <1>2
<1>7. Base(t) <= Base(d)
    BY <1>2, <1>6, BaseMonotone
<1> QED BY <1>3, <1>4, <1>5, <1>6, <1>7

\* Nothing that matters lies in the chunks being loaded, but for the packets
\* already loaded there.
LEMMA KeptApart ==
    ASSUME IInv, Chain, LoaderIn(Loading), NEW a \in Address, Kept(a)
    PROVE  \/ a < Base(loading_idx) \/ a >= Base(loading_idx + needed)
           \/ Leads(loading_idx) /\ a < current[loading_idx]
<1>1. LeadersOK /\ UsingOK /\ ReleaseOK /\ BaseOK
    BY DEF Chain
<1>2. ASSUME NEW c \in Chunk, Leads(c), a \in Base(c) .. current[c] - 1
      PROVE  \/ a < Base(loading_idx) \/ a >= Base(loading_idx + needed)
             \/ Leads(loading_idx) /\ a < current[loading_idx]
  <2>1. PICK hi \in Nat : hi = current[c]
      BY <1>1, <1>2, LeaderFacts
  <2>2. hi > Base(c) /\ Group(c, hi)
      BY <1>1, <1>2, <2>1 DEF LeadersOK, Leads
  <2>3. CASE c = loading_idx
      BY <1>2, <2>3, <2>1, ChunkInMemory
  <2>4. CASE c # loading_idx
      BY <1>1, <1>2, <2>1, <2>2, <2>4, GroupApart
  <2> QED BY <2>3, <2>4
<1>3. ASSUME Using, boundary > Base(using_idx), a \in Base(using_idx) .. boundary - 1
      PROVE  a < Base(loading_idx) \/ a >= Base(loading_idx + needed)
  <2>1. PICK u \in Chunk, hi \in Nat : u = using_idx /\ hi = boundary
      BY <1>3, Indices DEF Using
  <2>2. hi > Base(u) /\ Group(u, hi) /\ status[u] = "USING"
      BY <1>1, <1>3, <2>1, ChunkInMemory DEF UsingOK, Starved, Using
  <2>3. u # loading_idx
      BY <2>2, LoadingChunks
  <2> QED BY <1>1, <1>3, <2>1, <2>2, <2>3, GroupApart
<1>4. CASE Pending(a)
  <2>1. CASE Using /\ a \in current[using_idx] .. boundary - 1
    <3>1. using_idx \in Chunk /\ current[using_idx] \in Nat /\ current[using_idx] >= Base(using_idx)
        BY <2>1, Kinds DEF Using, IInv, RingInv
    <3>2. Base(using_idx) \in Nat /\ boundary \in Nat
        BY <3>1, ChunkInMemory, Indices
    <3> QED BY <1>3, <2>1, <3>1, <3>2
  <2> QED BY <1>2, <1>4, <2>1 DEF Pending
<1>5. CASE \E c \in Chunk : Leads(c) /\ \E t \in c + 1 .. EndOf(c, current[c]) - 1 : a = Base(t)
  <2>1. PICK c \in Chunk : Leads(c) /\ \E t \in c + 1 .. EndOf(c, current[c]) - 1 : a = Base(t)
      BY <1>5
  <2>2. PICK hi \in Nat : hi = current[c]
      BY <1>1, <2>1, LeaderFacts
  <2>3. hi > Base(c) /\ Group(c, hi)
      BY <1>1, <2>1, <2>2 DEF LeadersOK, Leads
  <2>4. PICK t \in c + 1 .. EndOf(c, hi) - 1 : a = Base(t)
      BY <2>1, <2>2
  <2>5. a \in Base(c) .. current[c] - 1
      BY <2>2, <2>3, <2>4, TailInGroup
  <2> QED BY <1>2, <2>1, <2>5
<1>6. CASE \E t \in Chunk : OwnTail(t) /\ a = Base(t)
  <2>1. PICK t \in Chunk : OwnTail(t) /\ a = Base(t)
      BY <1>6
  <2>2. CASE Using /\ boundary > Base(using_idx) /\ t \in using_idx + 1 .. EndOf(using_idx, boundary) - 1
    <3>1. PICK u \in Chunk, hi \in Nat : u = using_idx /\ hi = boundary
        BY <2>2, Indices DEF Using
    <3>2. hi > Base(u) /\ Group(u, hi) /\ t \in u + 1 .. EndOf(u, hi) - 1
        BY <1>1, <2>2, <3>1, ChunkInMemory DEF UsingOK, Starved
    <3>3. a \in Base(u) .. hi - 1
        BY <2>1, <3>2, TailInGroup
    <3> QED BY <1>3, <2>2, <3>1, <3>3
  <2>3. CASE ReplayIn(Releasing) /\ t \in j .. using_idx + occupied - 1
    <3>1. status[t] = "READY"
        BY <1>1, <2>3 DEF ReleaseOK, LoaderIn, Loading
    <3>2. t \notin loading_idx .. loading_idx + needed - 1
        BY <3>1, LoadingChunks
    <3>3. PICK l \in Nat, m \in Nat : l = loading_idx /\ m = loading_idx + needed
        BY LoadingChunks
    <3>4. t \in Nat /\ (t < l \/ m <= t)
      <4>1. t \in Nat
          BY ChunkInMemory
      <4>2. t \notin l .. m - 1
        <5>1. loading_idx + needed - 1 = m - 1
          <6>1. loading_idx \in Nat /\ needed \in Nat
              BY LoadingChunks
          <6> QED BY <3>3, <6>1
        <5> QED BY <3>2, <3>3, <5>1
      <4> QED BY <4>1, <4>2, <3>3
    <3>5. t < l => Base(t) < Base(l)
      <4>1. t < l => Base(t) + ChunkSize <= Base(l) /\ Base(t) \in Nat /\ Base(l) \in Nat
          BY <3>4, BaseStrict
      <4> QED BY <4>1, ConstantsAssumption
    <3>6. m <= t => Base(m) <= Base(t) /\ Base(m) \in Nat /\ Base(t) \in Nat
        BY <3>4, BaseMonotone, BaseNat
    <3> QED BY <2>1, <3>3, <3>4, <3>5, <3>6
  <2> QED BY <2>1, <2>2, <2>3 DEF OwnTail
<1> QED BY <1>4, <1>5, <1>6 DEF Kept

\* A packet is written behind those of its chunks, and within them.
LEMMA WritePlace ==
    ASSUME IInv, Chain, LoaderIn({"load"}), MayLoad
    PROVE  /\ current[loading_idx] \in Nat /\ NextSize \in Nat \ {0}
           /\ Base(loading_idx) <= current[loading_idx]
           /\ current[loading_idx] + NextSize < Base(loading_idx + needed)
           /\ current[loading_idx] .. current[loading_idx] + NextSize - 1 \subseteq Address
           /\ next \in 1 .. PacketCount
<1>1. PICK l \in Chunk, n \in Nat \ {0}, cur \in Nat :
        l = loading_idx /\ n = needed /\ cur = current[loading_idx]
    BY LoadingChunks DEF LoaderIn, Loading
<1>2. /\ l + n \in 1 .. ChunkCount /\ Base(l) \in Nat /\ Base(l + n) \in Nat
      /\ Base(l) + ChunkSize * n = Base(l + n) /\ Base(l + n) <= Base(ChunkCount)
      /\ Base(ChunkCount) \in Nat
    BY <1>1, LoadingChunks DEF LoaderIn, Loading
<1>3. NextSize \in Nat \ {0} /\ next \in 1 .. PacketCount
    BY PlannedChunks, Kinds DEF MayLoad, NoMorePackets
<1>4. cur + NextSize < Base(l + n)
    BY <1>1, <1>2 DEF MayLoad
<1>5. Base(l) <= cur
  <2>1. cur = Base(l) \/ cur > Base(l + n - 1)
      BY <1>1 DEF Chain, FilledOK, LoaderIn, Loading
  <2>2. PICK m \in Nat : m = l + n - 1
      BY <1>1, ChunkInMemory
  <2>3. l \in Nat /\ l <= m
      BY <1>1, <2>2, ChunkInMemory
  <2>4. Base(l) <= Base(m) /\ Base(m) \in Nat
      BY <2>3, BaseMonotone, BaseNat
  <2> QED BY <1>2, <2>1, <2>2, <2>4
<1>6. cur .. cur + NextSize - 1 \subseteq Address
  <2>1. Base(ChunkCount) = ChunkCount * ChunkSize
      BY DEF Base
  <2> QED BY <1>2, <1>3, <1>4, <2>1 DEF Address
<1> QED BY <1>1, <1>3, <1>4, <1>5, <1>6

\* load_packet writes nothing that matters.
LEMMA WriteKeeps ==
    ASSUME IInv, Chain, LoaderIn({"load"}), MayLoad,
           mem' \in {mem, Written(current[loading_idx], NextSize, next)}
    PROVE  /\ \A a \in Address : Kept(a) => mem'[a] = mem[a]
           /\ \A a \in Address : a < current[loading_idx] => mem'[a] = mem[a]
           /\ \A c \in Chunk : status[c] \in {"READY", "LOADING"} /\ current[c] > Base(c) =>
                mem'[Base(c)] = mem[Base(c)]
<1>1. PICK l \in Chunk, n \in Nat \ {0}, cur \in Nat, size \in Nat \ {0} :
        l = loading_idx /\ n = needed /\ cur = current[loading_idx] /\ size = NextSize
    BY LoadingChunks, WritePlace DEF LoaderIn, Loading
<1>2. /\ l + n \in 1 .. ChunkCount /\ Base(l) \in Nat /\ Base(l + n) \in Nat
      /\ \A t \in l .. l + n - 1 : t \in Chunk /\ status[t] = "LOADING"
    BY <1>1, LoadingChunks DEF LoaderIn, Loading
<1>3. Base(l) <= cur /\ cur + size < Base(l + n)
    BY <1>1, WritePlace
<1>4. \A a \in Address : a \notin cur .. cur + size - 1 => mem'[a] = mem[a]
    BY <1>1 DEF Written
<1>5. ASSUME NEW a \in Address, Kept(a) PROVE mem'[a] = mem[a]
  <2>1. a < Base(l) \/ a >= Base(l + n) \/ a < cur
      BY <1>1, <1>5, KeptApart DEF LoaderIn, Loading
  <2>2. a \in Nat
      BY ConstantsAssumption DEF Address
  <2> QED BY <1>2, <1>3, <1>4, <2>1, <2>2
<1>6. ASSUME NEW a \in Address, a < cur PROVE mem'[a] = mem[a]
  <2>1. a \in Nat
      BY ConstantsAssumption DEF Address
  <2> QED BY <1>4, <1>6, <2>1
<1>7. ASSUME NEW c \in Chunk, status[c] \in {"READY", "LOADING"}, current[c] > Base(c)
      PROVE  mem'[Base(c)] = mem[Base(c)]
  <2>1. c \in Nat /\ Base(c) \in Nat /\ Base(c) \in Address /\ current[c] \in Nat
      BY ChunkInMemory, Kinds
  <2>2. SUFFICES ASSUME Base(c) \in cur .. cur + size - 1 PROVE FALSE
      BY <1>4, <2>1
  <2>3. PICK m \in Nat : m = l + n
      BY <1>2
  <2>4. l \in Nat
      BY ChunkInMemory
  <2>5. l <= c
    <3>1. c < l => Base(c) + ChunkSize <= Base(l)
        BY <2>1, <2>4, BaseStrict
    <3> QED BY <1>2, <1>3, <2>1, <2>2, <2>4, <3>1, ConstantsAssumption
  <2>6. c < m
    <3>1. m <= c => Base(m) <= Base(c)
        BY <2>1, <2>3, BaseMonotone
    <3> QED BY <1>2, <1>3, <2>1, <2>2, <2>3, <3>1
  <2>7. status[c] = "LOADING"
      BY <1>2, <2>1, <2>3, <2>4, <2>5, <2>6
  <2>8. c = l
      BY <1>1, <1>7, <2>1, <2>7 DEF Chain, BaseOK
  <2> QED BY <1>1, <1>3, <1>7, <2>1, <2>2, <2>8
<1> QED BY <1>1, <1>5, <1>6, <1>7

\* Loading a packet.
LEMMA LoadKeepsChain ==
    ASSUME IInv, IInv', Chain, L_Load \/ L_LoadFail
    PROVE  Chain'
<1> DEFINE l == loading_idx
           cur == current[loading_idx]
<1>1. /\ pc[Loader] = "load" /\ pc'[Loader] \in {"loaded", "ready"} /\ pc'[Replay] = pc[Replay]
      /\ UNCHANGED <<input, status, current, next, exiting, skipped_to_first, loading_idx,
                     needed, i, using_idx, boundary, occupied, j, delivered>>
      /\ mem' \in {mem, Written(cur, NextSize, next)}
      /\ pc'[Loader] = "loaded" => mem' = Written(cur, NextSize, next) /\ ~Broken
      /\ pc'[Loader] = "ready" => Broken
      /\ MayLoad
  <2>1. pc \in [Thread -> LoaderPlaces \union ReplayPlaces] /\ Loader \in Thread /\ Replay \in Thread
      BY DEF IInv, TypeOK, TypeControl, Thread
  <2>2. CASE L_Load
      BY <2>1, <2>2 DEF L_Load, At, Goto, Loader, Replay, ringVars, skipVars, loadVars, fullVars,
           resultVars, replayVars, Broken
  <2>3. CASE L_LoadFail
      BY <2>1, <2>3 DEF L_LoadFail, At, Goto, Loader, Replay, ringVars, skipVars, loadVars, fullVars,
           resultVars, replayVars, Broken
  <2> QED BY <2>2, <2>3
<1>2. LoaderIn({"load"}) /\ LoaderIn(Loading) /\ LoaderIn(Loading)' /\ ~LoaderIn({"load"})' /\ ~LoaderIn({"share"})'
    BY <1>1 DEF LoaderIn, Loading
<1>3. /\ \A a \in Address : Kept(a) => mem'[a] = mem[a]
      /\ \A a \in Address : a < cur => mem'[a] = mem[a]
      /\ \A c \in Chunk : status[c] \in {"READY", "LOADING"} /\ current[c] > Base(c) =>
           mem'[Base(c)] = mem[Base(c)]
    BY <1>1, <1>2, WriteKeeps
<1>4. \A c \in Chunk : (Leads(c)' <=> Leads(c)) /\ (Leads(c) => mem'[Base(c)] = mem[Base(c)])
    BY <1>1, <1>3 DEF Leads, Base
<1>5. LoaderPos' = LoaderPos
    BY <1>1 DEF LoaderPos, LoaderIn, Skipping, Loading, Wrapped, Base
<1>6. \A d \in Chunk : \A k : Expects(d, k) => Expects(d, k)'
    BY <1>1, <1>4, <1>5, Kinds DEF Expects, Broken, Base
<1>7. /\ LeadersOK' /\ UsingOK' /\ ReleaseOK' /\ PosOK' /\ Distinct'
      /\ \A c \in Chunk : Grouped(c) => Grouped(c)'
  <2>1. ~LoaderIn({"share"})
      BY <1>1 DEF LoaderIn
  <2> QED BY <1>1, <1>3, <1>4, <1>6, <2>1, LoaderFrame
<1>8. ReadyOK'
    BY <1>1, <1>7, CoveredKept DEF ReadyOK, Chain, Broken, Chunk
<1>9. ShareOK' /\ exiting' = FALSE
    BY <1>1, <1>2 DEF ShareOK, Chain, IInv, TypeOK, TypeFlag
<1>10. BaseOK'
    BY <1>1, <1>2 DEF BaseOK, Chain, Base, Chunk
<1>11. SkipOK'
  <2>1. ReplayPos' = ReplayPos /\ (Using' <=> Using) /\ (Broken' <=> Broken) /\ (Leads(0)' <=> Leads(0))
      BY <1>1, <1>4, Kinds DEF ReplayPos, Using, Broken, ReplayIn, Wrapped, Chunk
  <2>2. SkipOK
      BY DEF Chain
  <2> QED BY <1>1, <1>5, <2>1, <2>2 DEF SkipOK, LoaderIn, ReplayIn, Chunk, Skipping
<1>12. /\ cur \in Nat /\ NextSize \in Nat \ {0} /\ Base(l) <= cur /\ Base(l) \in Nat
       /\ cur + NextSize < Base(l + needed)
       /\ cur .. cur + NextSize - 1 \subseteq Address
       /\ next \in 1 .. PacketCount /\ Base(l) \in Address
  <2>1. l \in Chunk
      BY <1>2, LoadingChunks
  <2> QED BY <1>1, <1>2, <2>1, WritePlace, ChunkInMemory
<1>13. NextSize' = NextSize /\ (NoMorePackets' <=> NoMorePackets) /\ (Broken' <=> Broken)
       /\ ChunksFor(NextSize)' = ChunksFor(NextSize)
    BY <1>1 DEF NextSize, NoMorePackets, PacketCount, Broken, ChunksFor
<1>14. FilledOK'
  <2>1. CASE cur = Base(l)
    <3>1. cur > Base(l + needed - 1) => FALSE
      <4>1. l \in Nat /\ needed \in Nat \ {0}
          BY <1>2, LoadingChunks
      <4>2. PICK m \in Nat : m = l + needed - 1
          BY <4>1
      <4>3. Base(l) <= Base(m) /\ Base(m) \in Nat
          BY <4>1, <4>2, BaseMonotone, BaseNat
      <4> QED BY <2>1, <4>2, <4>3, <1>12
    <3>2. needed = ChunksFor(NextSize) /\ ~NoMorePackets
        BY <1>2, <3>1 DEF Chain, FilledOK
    <3> QED BY <1>1, <1>2, <1>13, <2>1, <3>2 DEF FilledOK, Base
  <2>2. CASE cur # Base(l)
    <3>1. /\ cur > Base(l + needed - 1) /\ cur < Base(l + needed)
          /\ mem[Base(l)] # 0
          /\ \A a \in Base(l) .. cur - 1 : mem[a] # 0 /\ a + input.size[mem[a]] = cur => mem[a] + 1 = next
        BY <1>2, <2>2 DEF Chain, FilledOK
    <3>2. mem'[Base(l)] = mem[Base(l)]
        BY <1>3, <1>12, <2>2
    <3>3. \A a \in Base(l) .. cur - 1 : mem'[a] = mem[a]
      <4>1. Base(ChunkCount) = ChunkCount * ChunkSize /\ Base(ChunkCount) \in Nat /\ Base(l + needed) \in Nat
            /\ Base(l + needed) <= Base(ChunkCount)
          BY <1>2, LoadingChunks DEF Base
      <4>2. \A a \in Base(l) .. cur - 1 : a \in Address /\ a < cur
          BY <1>12, <4>1 DEF Address
      <4> QED BY <1>3, <4>2
    <3> QED BY <1>1, <3>1, <3>2, <3>3 DEF FilledOK, Base
  <2> QED BY <2>1, <2>2
<1>15. LoadOK'
  <2>1. CASE pc'[Loader] = "loaded"
    <3>1. mem'[cur] = next /\ \A x \in cur + 1 .. cur + NextSize - 1 : mem'[x] = 0
      <4>1. \A x \in Address : mem'[x] = IF x = cur THEN next
                                         ELSE IF x \in cur .. cur + NextSize - 1 THEN 0 ELSE mem[x]
          BY <1>1, <2>1 DEF Written
      <4>2. cur \in Address
          BY <1>12
      <4>3. \A x \in cur + 1 .. cur + NextSize - 1 : x \in cur .. cur + NextSize - 1 /\ x # cur
          BY <1>12
      <4> QED BY <4>1, <4>2, <4>3, <1>12
    <3>2. LoadOK
        BY DEF Chain
    <3> QED BY <1>1, <1>12, <1>13, <2>1, <3>1, <3>2 DEF LoadOK, LoaderIn, Grabbing, Base
  <2>2. CASE pc'[Loader] = "ready"
      BY <1>1, <1>13, <2>2 DEF LoadOK, LoaderIn, Grabbing, Chain
  <2> QED BY <1>1, <2>1, <2>2
<1> QED BY <1>7, <1>8, <1>9, <1>10, <1>11, <1>14, <1>15 DEF Chain

\* The end of the packets that have been loaded.
LEMMA FilledEnd ==
    ASSUME IInv, LoaderIn(Loading),
           current[loading_idx] > Base(loading_idx + needed - 1),
           current[loading_idx] < Base(loading_idx + needed)
    PROVE  /\ EndOf(loading_idx, current[loading_idx]) = loading_idx + needed
           /\ current[loading_idx] > Base(loading_idx)
<1>1. PICK l \in Nat, n \in Nat \ {0}, cur \in Nat :
        l = loading_idx /\ n = needed /\ cur = current[loading_idx]
    BY LoadingChunks
<1>2. Base(l + n) \in Nat
    BY <1>1, LoadingChunks
<1>3. EndOf(l, cur) = l + n
  <2>1. l + n - 1 = loading_idx + needed - 1 /\ l + n = loading_idx + needed
      BY <1>1
  <2>2. Base(l + n - 1) < cur /\ cur <= Base(l + n)
      BY <1>1, <1>2, <2>1
  <2> QED BY <2>2, EndIs
<1>4. PICK m \in Nat : m = l + n - 1
    BY <1>1
<1>5. Base(l) <= Base(m) /\ Base(m) \in Nat /\ Base(l) \in Nat
    BY <1>1, <1>4, BaseMonotone, BaseNat
<1> QED BY <1>1, <1>3, <1>4, <1>5

\* The loading thread stops with chunks it has filled, or because a packet
\* does not load.
LEMMA FilledOrBroken ==
    ASSUME IInv, Chain, PacketsFit, LoaderIn(Loading),
           LoaderIn({"ready"}) \/ (LoaderIn({"load"}) /\ ~MayLoad)
    PROVE  \/ Broken /\ current[loading_idx] = Base(loading_idx)
           \/ /\ EndOf(loading_idx, current[loading_idx]) = loading_idx + needed
              /\ current[loading_idx] > Base(loading_idx)
              /\ mem[Base(loading_idx)] # 0
<1>1. CASE current[loading_idx] > Base(loading_idx + needed - 1)
           /\ current[loading_idx] < Base(loading_idx + needed) /\ mem[Base(loading_idx)] # 0
    BY <1>1, FilledEnd
<1>2. CASE ~(current[loading_idx] > Base(loading_idx + needed - 1)
             /\ current[loading_idx] < Base(loading_idx + needed) /\ mem[Base(loading_idx)] # 0)
  <2>1. /\ current[loading_idx] = Base(loading_idx) /\ needed = ChunksFor(NextSize)
        /\ ~NoMorePackets
        /\ LoaderIn({"load"}) => ~exceed
      BY <1>2 DEF Chain, FilledOK
  <2>2. CASE LoaderIn({"ready"})
      BY <2>1, <2>2 DEF Chain, LoadOK
  <2>3. CASE LoaderIn({"load"}) /\ ~MayLoad
    <3>1. NextSize \in Nat /\ NextSize < Base(needed) /\ needed \in Nat
      <4>1. NextSize \in Nat \ {0} /\ NextSize < Base(ChunksFor(NextSize))
          BY <2>1, PlannedChunks
      <4>2. needed \in Nat
          BY LoadingChunks
      <4> QED BY <2>1, <4>1, <4>2
    <3>2. Base(needed) = ChunkSize * needed
        BY <3>1, ConstantsAssumption DEF Base
    <3>3. Base(loading_idx) \in Nat /\ ChunkSize * needed \in Nat
        BY <3>1, LoadingChunks, ConstantsAssumption
    <3>4. current[loading_idx] + NextSize < Base(loading_idx) + ChunkSize * needed
        BY <2>1, <3>1, <3>2, <3>3
    <3> QED BY <2>1, <2>3, <3>4 DEF MayLoad, Chain
  <2> QED BY <2>2, <2>3
<1> QED BY <1>1, <1>2

\* The chunk is released.
LEMMA ReadyKeepsChain ==
    ASSUME IInv, IInv', Chain, PacketsFit, L_Ready
    PROVE  Chain'
<1> DEFINE l == loading_idx
           cur == current[loading_idx]
<1>1. /\ pc[Loader] \in {"load", "ready"} /\ pc'[Loader] = "share" /\ pc'[Replay] = pc[Replay]
      /\ UNCHANGED <<input, current, mem, next, exceed, exiting, skipped_to_first, loading_idx,
                     needed, using_idx, boundary, occupied, j, delivered>>
      /\ status' = [status EXCEPT ![l] = "READY"] /\ i' = 1
      /\ pc[Loader] = "ready" \/ ~MayLoad
  <2>1. pc \in [Thread -> LoaderPlaces \union ReplayPlaces] /\ Loader \in Thread /\ Replay \in Thread
      BY DEF IInv, TypeOK, TypeControl, Thread
  <2> QED BY <2>1 DEF L_Ready, At, Goto, Loader, Replay, fileVars, skipVars, fullVars,
           resultVars, replayVars
<1>2. LoaderIn(Loading) /\ ~LoaderIn({"share"}) /\ LoaderIn({"share"})' /\ ~LoaderIn(Loading)'
    BY <1>1 DEF LoaderIn, Loading
<1>3. /\ l \in Chunk /\ status[l] = "LOADING" /\ l + needed \in 1 .. ChunkCount
      /\ \A t \in l .. l + needed - 1 : t \in Chunk /\ status[t] = "LOADING"
      /\ l \in Nat /\ needed \in Nat \ {0} /\ Base(l) \in Nat /\ cur \in Nat
    BY <1>2, LoadingChunks
<1>4. \/ Broken /\ cur = Base(l)
      \/ EndOf(l, cur) = l + needed /\ cur > Base(l) /\ mem[Base(l)] # 0
    BY <1>1, <1>2, FilledOrBroken DEF LoaderIn
<1>5. \A c \in Chunk : status'[c] = IF c = l THEN "READY" ELSE status[c]
    BY <1>1, <1>3, Kinds
<1>6. \A c \in Chunk : Leads(c)' <=> Leads(c)
    BY <1>1, <1>3, <1>5 DEF Leads, Base
<1>7. /\ LoaderPos' = LoaderPos \/ Broken
      /\ \A c \in Chunk : status[c] = "SKIPPED" => LoaderPos' # 0 \/ LoaderPos = 0
  <2>1. LoaderPos' = Wrapped(l + needed)
      BY <1>1 DEF LoaderPos, LoaderIn, Skipping, Wrapped
  <2>2. LoaderPos = IF cur > Base(l) THEN Wrapped(l + needed) ELSE Wrapped(l)
      BY <1>1, <1>2 DEF LoaderPos, LoaderIn, Skipping
  <2>3. ASSUME NEW c \in Chunk, status[c] = "SKIPPED", LoaderPos' = 0 PROVE FALSE
    <3>1. c = ChunkCount - 1
        BY <2>3 DEF Chain, SkipOK
    <3>2. l + needed = ChunkCount
        BY <1>3, <2>1, <2>3 DEF Wrapped
    <3>3. c \in l .. l + needed - 1
        BY <1>3, <3>1, <3>2, ConstantsAssumption
    <3> QED BY <1>3, <2>3, <3>3
  <2> QED BY <1>4, <2>1, <2>2, <2>3
<1>8. \A d \in Chunk : \A k : Expects(d, k) => Expects(d, k)'
  <2> SUFFICES ASSUME NEW d \in Chunk, NEW k, Expects(d, k) PROVE Expects(d, k)'
      OBVIOUS
  <2>1. Broken' <=> Broken
      BY <1>1 DEF Broken
  <2>2. CASE Leads(d) /\ k = mem[Base(d)]
      BY <1>1, <1>6, <2>2 DEF Expects, Base
  <2>3. CASE status[d] = "SKIPPED" /\ LoaderPos # 0 /\ Leads(0) /\ k = mem[Base(0)]
      BY <1>1, <1>3, <1>5, <1>6, <1>7, <2>3, Kinds DEF Expects, Base
  <2>4. CASE k = next /\ (LoaderPos = d \/ (status[d] = "SKIPPED" /\ LoaderPos = 0) \/ Broken)
      BY <1>1, <1>3, <1>5, <1>7, <2>1, <2>4 DEF Expects
  <2> QED BY <2>2, <2>3, <2>4 DEF Expects
<1>9. /\ LeadersOK' /\ UsingOK' /\ ReleaseOK' /\ PosOK' /\ Distinct'
      /\ \A c \in Chunk : Grouped(c) => Grouped(c)'
    BY <1>1, <1>2, <1>3, <1>5, <1>6, <1>8, LoaderFrame
<1>10. Broken' <=> Broken
    BY <1>1 DEF Broken
<1>11. ReadyOK'
  <2>1. ASSUME NEW c \in Chunk, c # l, status'[c] = "READY" PROVE Covered(c)'
      BY <1>1, <1>5, <1>9, <1>10, <2>1, CoveredKept DEF ReadyOK, Chain
  <2> PICK g \in Chunk : g = l
      BY <1>3
  <2>2. Covered(g)'
    <3>1. CASE Broken /\ cur = Base(l)
        BY <1>1, <1>3, <1>10, <3>1 DEF Covered, Base
    <3>2. CASE EndOf(l, cur) = l + needed /\ cur > Base(l) /\ mem[Base(l)] # 0
      <4>1. Leads(l)
          BY <1>3, <3>2 DEF Leads
      <4>2. l \in l .. EndOf(l, current[l]) - 1
          BY <1>3, <3>2
      <4>3. Grouped(l)
          BY <1>3, <4>1, <4>2 DEF Grouped
      <4> QED BY <1>9, <4>3 DEF Covered
    <3> QED BY <1>4, <3>1, <3>2
  <2> QED BY <1>1, <2>1, <2>2 DEF ReadyOK, Chunk
<1>12. ShareOK'
  <2>1. CASE Broken /\ cur = Base(l)
    <3>1. Hollow'
        BY <1>1, <1>3, <1>5, <1>10, <2>1 DEF Hollow, Base
    <3> QED BY <3>1 DEF ShareOK
  <2>2. CASE EndOf(l, cur) = l + needed /\ cur > Base(l) /\ mem[Base(l)] # 0
    <3>1. Leads(l)
        BY <1>3, <2>2 DEF Leads
    <3>2. Group(l, cur)
        BY <1>3, <3>1 DEF Chain, LeadersOK
    <3>3. ASSUME NEW t \in l + 1 .. l + needed - 1
          PROVE  Grouped(t)' /\ mem'[Base(t)] = 0
      <4>1. t \in l .. l + needed - 1 /\ t \in l + 1 .. EndOf(l, cur) - 1 /\ t \in l .. EndOf(l, cur) - 1
          BY <1>3, <2>2
      <4>2. t \in Chunk /\ mem[Base(t)] = 0
          BY <1>3, <3>2, <4>1 DEF Group
      <4>3. Grouped(t)
          BY <1>3, <3>1, <4>1 DEF Grouped
      <4> QED BY <1>1, <1>9, <4>2, <4>3
    <3> QED BY <1>1, <3>3 DEF ShareOK, Base
  <2> QED BY <1>4, <2>1, <2>2
<1>13. FilledOK' /\ exiting' = FALSE
    BY <1>1, <1>2 DEF FilledOK, Chain, IInv, TypeOK, TypeFlag
<1>14. LoadOK'
    BY <1>1 DEF LoadOK, Chain, LoaderIn, Grabbing
<1>15. BaseOK'
    BY <1>1, <1>2, <1>3, <1>5 DEF BaseOK, Chain, Base, Chunk
<1>16. SkipOK'
  <2>1. ReplayPos' = ReplayPos /\ (Using' <=> Using) /\ (Leads(0)' <=> Leads(0))
      BY <1>1, <1>3, <1>5, <1>6, Kinds DEF ReplayPos, Using, ReplayIn, Wrapped, Chunk
  <2>2. SkipOK
      BY DEF Chain
  <2>3. \A c \in Chunk : status'[c] = "SKIPPED" => status[c] = "SKIPPED"
      BY <1>3, <1>5
  <2> QED BY <1>1, <1>7, <1>10, <2>1, <2>2, <2>3 DEF SkipOK, LoaderIn, ReplayIn, Chunk, Skipping
<1> QED BY <1>9, <1>11, <1>12, <1>13, <1>14, <1>15, <1>16 DEF Chain

\* The other chunks of the packet follow.
LEMMA ShareKeepsChain ==
    ASSUME IInv, IInv', Chain, L_Share
    PROVE  Chain'
<1> DEFINE l == loading_idx
<1>1. /\ pc[Loader] = "share" /\ UNCHANGED pc /\ i < needed
      /\ UNCHANGED <<input, mem, next, exceed, exiting, skipped_to_first, loading_idx,
                     needed, using_idx, boundary, occupied, j, delivered>>
      /\ current' = [current EXCEPT ![l + i] = current[l]]
      /\ status' = [status EXCEPT ![l + i] = "READY"] /\ i' = i + 1
    BY DEF L_Share, At, Loader, Replay, fileVars, skipVars, fullVars, resultVars, replayVars
<1>2. LoaderIn({"share"}) /\ LoaderIn({"share"})' /\ ~LoaderIn(Loading) /\ ~LoaderIn(Loading)'
    BY <1>1 DEF LoaderIn, Loading
<1>3. /\ l \in Chunk /\ l \in Nat /\ needed \in Nat \ {0} /\ i \in Nat \ {0} /\ l + needed \in 1 .. ChunkCount
      /\ current[l] \in Nat
  <2>1. i \in 1 .. ChunkCount /\ ChunkCount \in Nat
      BY Indices, ConstantsAssumption
  <2>2. i \in Nat \ {0}
      BY <2>1
  <2> QED BY <1>2, <2>2, Reach, Kinds
<1>4. PICK t \in Nat : t = l + i
    BY <1>3
<1>5. t \in Chunk /\ t # l /\ l < t
  <2>1. t < l + needed /\ l < t
      BY <1>1, <1>3, <1>4
  <2> QED BY <1>3, <2>1, ConstantsAssumption DEF Chunk
<1>6. status[t] = "LOADING" /\ current[t] = Base(t) /\ Base(t) \in Nat
  <2>1. MarkedLoading(t)
      BY <1>1, <1>2, <1>3, <1>4 DEF MarkedLoading
  <2> QED BY <1>2, <1>5, <2>1, ChunkInMemory DEF IInv, RingInv, Chain, BaseOK
<1>7. /\ \A c \in Chunk : status'[c] = IF c = t THEN "READY" ELSE status[c]
      /\ \A c \in Chunk : current'[c] = IF c = t THEN current[l] ELSE current[c]
    BY <1>1, <1>4, <1>5, Kinds
<1>8. (Grouped(t) /\ mem[Base(t)] = 0) \/ Hollow
  <2>1. t \in l + i .. l + needed - 1
      BY <1>1, <1>3, <1>4
  <2> QED BY <1>2, <2>1 DEF Chain, ShareOK
<1>9. Hollow => Broken /\ current[l] < Base(t) /\ current[l] = Base(l)
  <2>1. Base(l) + ChunkSize <= Base(t) /\ Base(l) \in Nat
      BY <1>3, <1>5, BaseStrict
  <2> QED BY <1>6, <2>1, ConstantsAssumption DEF Hollow
<1>10. ~Leads(t) /\ ~Leads(t)'
  <2>1. ~Leads(t)
      BY <1>6 DEF Leads
  <2>2. ~Leads(t)'
      BY <1>1, <1>3, <1>5, <1>6, <1>7, <1>8, <1>9 DEF Leads, Base
  <2> QED BY <2>1, <2>2
<1>11. \A c \in Chunk : Leads(c)' <=> Leads(c)
    BY <1>1, <1>7, <1>10 DEF Leads, Base
<1>12. LoaderPos' = LoaderPos
    BY <1>1, <1>2 DEF LoaderPos, LoaderIn, Skipping, Loading, Wrapped
<1>13. \A d \in Chunk : \A k : Expects(d, k) => Expects(d, k)'
    BY <1>1, <1>6, <1>7, <1>11, <1>12, Kinds DEF Expects, Broken, Base
<1>14. /\ LeadersOK' /\ UsingOK' /\ ReleaseOK' /\ PosOK' /\ Distinct'
       /\ \A c \in Chunk : Grouped(c) => Grouped(c)'
  <2>1. \A c \in Chunk :
              /\ Leads(c)' <=> Leads(c)
              /\ status'[c] = "USING" <=> status[c] = "USING"
              /\ Leads(c) \/ status[c] = "USING" => current'[c] = current[c]
              /\ status[c] = "READY" => status'[c] = "READY"
              /\ status[c] = "LOADING" =>
                   \/ status'[c] = "READY"
                   \/ /\ status'[c] = "LOADING" /\ loading_idx' = loading_idx
                      /\ LoaderIn({"share"}) => LoaderIn({"share"})'
      BY <1>1, <1>2, <1>6, <1>7, <1>10, <1>11
  <2>2. \A a \in Address : Kept(a) => mem'[a] = mem[a]
      BY <1>1
  <2> QED BY <1>1, <1>13, <2>1, <2>2, LoaderFrame
<1>15. Broken' <=> Broken
    BY <1>1 DEF Broken
<1>16. ReadyOK'
  <2>1. ASSUME NEW c \in Chunk, c # t, status'[c] = "READY" PROVE Covered(c)'
    <3>1. current'[c] = current[c] /\ Covered(c)
        BY <1>7, <2>1 DEF Chain, ReadyOK
    <3> QED BY <1>14, <1>15, <3>1, CoveredKept
  <2>2. Covered(t)'
      BY <1>3, <1>5, <1>6, <1>7, <1>8, <1>9, <1>14, <1>15 DEF Covered, Base
  <2> QED BY <2>1, <2>2 DEF ReadyOK, Chunk
<1>17. ShareOK'
  <2> SUFFICES ASSUME NEW s \in l + (i + 1) .. l + needed - 1
               PROVE  (Grouped(s)' /\ mem[Base(s)] = 0) \/ Hollow'
      BY <1>1 DEF ShareOK, Base
  <2>1. s \in l + i .. l + needed - 1 /\ s \in Chunk
      BY <1>3, Kinds
  <2>2. (Grouped(s) /\ mem[Base(s)] = 0) \/ Hollow
      BY <1>2, <2>1 DEF Chain, ShareOK
  <2>3. Hollow => Hollow'
      BY <1>1, <1>3, <1>5, <1>7, <1>15 DEF Hollow, Base
  <2> QED BY <1>14, <2>1, <2>2, <2>3
<1>18. FilledOK' /\ LoadOK' /\ exiting' = FALSE
  <2>1. FilledOK' /\ exiting' = FALSE
      BY <1>1, <1>2 DEF FilledOK, Chain, IInv, TypeOK, TypeFlag
  <2>2. LoadOK'
      BY <1>1 DEF LoadOK, Chain, LoaderIn, Grabbing
  <2> QED BY <2>1, <2>2
<1>19. BaseOK'
    BY <1>1, <1>2, <1>5, <1>7 DEF BaseOK, Chain, Base, Chunk
<1>20. SkipOK'
  <2>1. ReplayPos' = ReplayPos /\ (Using' <=> Using) /\ (Leads(0)' <=> Leads(0))
      BY <1>1, <1>6, <1>7, <1>11, Kinds DEF ReplayPos, Using, ReplayIn, Wrapped, Chunk
  <2>2. SkipOK
      BY DEF Chain
  <2>3. \A c \in Chunk : status'[c] = "SKIPPED" => status[c] = "SKIPPED"
      BY <1>7
  <2> QED BY <1>1, <1>12, <1>15, <2>1, <2>2, <2>3 DEF SkipOK, LoaderIn, ReplayIn, Chunk, Skipping
<1> QED BY <1>14, <1>16, <1>17, <1>18, <1>19, <1>20 DEF Chain

\* What a pending packet's number can be.
LEMMA PendingRange ==
    ASSUME IInv, Chain, NEW a \in Address, Pending(a), mem[a] # 0
    PROVE  mem[a] \in Delivered + 1 .. next - 1
<1>1. CASE \E c \in Chunk : Leads(c) /\ a \in Base(c) .. current[c] - 1
    BY <1>1 DEF Chain, LeadersOK, Linked
<1>2. CASE Using /\ a \in current[using_idx] .. boundary - 1
  <2>1. ~Starved
    <3>1. SUFFICES ASSUME Starved PROVE FALSE
        OBVIOUS
    <3>2. using_idx \in Chunk /\ boundary <= Base(using_idx) /\ Base(using_idx) <= current[using_idx]
        BY <1>2, <3>1 DEF Using, Starved, IInv, RingInv
    <3>3. boundary \in Nat /\ Base(using_idx) \in Nat /\ current[using_idx] \in Nat
        BY <3>2, Indices, Kinds, ChunkInMemory
    <3> QED BY <1>2, <3>2, <3>3
  <2> QED BY <1>2, <2>1 DEF Chain, UsingOK, Linked
<1> QED BY <1>1, <1>2 DEF Pending

\* The replay's own chunks are not those being loaded.
LEMMA OwnTailApart ==
    ASSUME IInv, Chain, LoaderIn(Loading), NEW t \in loading_idx .. loading_idx + needed - 1
    PROVE  ~OwnTail(t)
<1>1. t \in Chunk /\ status[t] = "LOADING"
    BY LoadingChunks
<1>2. CASE Using /\ boundary > Base(using_idx) /\ t \in using_idx + 1 .. EndOf(using_idx, boundary) - 1
  <2>1. PICK u \in Chunk, hi \in Nat : u = using_idx /\ hi = boundary
      BY <1>2, Indices DEF Using
  <2>2. hi > Base(u) /\ Group(u, hi) /\ status[u] = "USING"
      BY <1>2, <2>1, ChunkInMemory DEF Chain, UsingOK, Starved, Using
  <2>3. u # loading_idx
      BY <2>2, LoadingChunks
  <2>4. EndOf(u, hi) <= loading_idx \/ loading_idx + needed <= u
      BY <2>2, <2>3, LoaderApart DEF Chain
  <2>5. EndOf(u, hi) \in 1 .. ChunkCount /\ u \in Nat
      BY <2>2, GroupShape, ChunkInMemory
  <2>6. loading_idx \in Nat /\ needed \in Nat
      BY LoadingChunks
  <2> QED BY <1>2, <2>1, <2>4, <2>5, <2>6
<1>3. CASE ReplayIn(Releasing) /\ t \in j .. using_idx + occupied - 1
    BY <1>1, <1>3 DEF Chain, ReleaseOK, LoaderIn, Loading
<1> QED BY <1>2, <1>3 DEF OwnTail

\* The loading thread moves current_address past the packet it has loaded and
\* reads the header of the next one.
LEMMA LoadedStep ==
    ASSUME IInv, Chain, L_Loaded
    PROVE  /\ pc[Loader] = "loaded" /\ pc'[Loader] = "load" /\ pc'[Replay] = pc[Replay]
           /\ UNCHANGED <<input, status, mem, exceed, exiting, skipped_to_first, loading_idx,
                          needed, i, using_idx, boundary, occupied, j, delivered>>
           /\ next' = next + 1 /\ next \in 1 .. PacketCount
           /\ LoaderIn(Loading) /\ LoaderIn(Loading)' /\ ~LoaderIn({"share"}) /\ ~LoaderIn({"share"})'
           /\ ~Broken /\ NextSize = input.size[next] /\ NextSize \in Nat \ {0}
           /\ \A c \in Chunk : current'[c] = IF c = loading_idx THEN current[loading_idx] + NextSize
                                                                ELSE current[c]
           /\ mem[current[loading_idx]] = next
           /\ \A x \in current[loading_idx] + 1 .. current[loading_idx] + NextSize - 1 : mem[x] = 0
<1>1. pc \in [Thread -> LoaderPlaces \union ReplayPlaces] /\ Loader \in Thread /\ Replay \in Thread
    BY DEF IInv, TypeOK, TypeControl, Thread
<1>2. /\ pc[Loader] = "loaded" /\ pc'[Loader] = "load" /\ pc'[Replay] = pc[Replay]
      /\ UNCHANGED <<input, status, mem, exceed, exiting, skipped_to_first, loading_idx,
                     needed, i, using_idx, boundary, occupied, j, delivered>>
      /\ next' = next + 1
      /\ current' = [current EXCEPT ![loading_idx] = @ + NextSize]
    BY <1>1 DEF L_Loaded, At, Goto, Loader, Replay, skipVars, loadVars, fullVars,
         resultVars, replayVars
<1>3. LoaderIn({"loaded"}) /\ LoaderIn(Loading) /\ LoaderIn(Loading)' /\ ~LoaderIn({"share"}) /\ ~LoaderIn({"share"})'
    BY <1>2 DEF LoaderIn, Loading
<1>4. ~NoMorePackets
    BY <1>3 DEF IInv, LoaderInv
<1>5. next \in 1 .. PacketCount /\ NextSize = input.size[next] /\ NextSize \in Nat \ {0}
    BY <1>4, PlannedChunks, Kinds DEF NoMorePackets, NextSize
<1>6. /\ ~Broken /\ mem[current[loading_idx]] = next
      /\ \A x \in current[loading_idx] + 1 .. current[loading_idx] + NextSize - 1 : mem[x] = 0
    BY <1>3 DEF Chain, LoadOK
<1>7. \A c \in Chunk : current'[c] = IF c = loading_idx THEN current[loading_idx] + NextSize
                                                        ELSE current[c]
  <2>1. loading_idx \in Chunk
      BY <1>3, LoadingChunks
  <2> QED BY <1>2, <2>1, Kinds
<1> QED BY <1>2, <1>3, <1>5, <1>6, <1>7

\* Where the packets of the chunk end before and after.
LEMMA LoadedEnds ==
    ASSUME IInv, Chain, L_Loaded,
           NEW l \in Chunk, l = loading_idx, NEW cur \in Nat, cur = current[l],
           NEW e \in Nat, e = l + needed, NEW new \in Nat, new = cur + NextSize
    PROVE  /\ e <= ChunkCount /\ l < e /\ Base(l) <= cur /\ Base(l) \in Nat
           /\ EndOf(l, new) = e /\ Base(e - 1) < new /\ new < Base(e) /\ Base(l) < new
           /\ mem[Base(l)] # 0
           /\ \A t \in l .. e - 1 : t \in Chunk /\ status[t] = "LOADING"
           /\ \/ cur = Base(l) /\ ~Leads(l) /\ LoaderPos = l
              \/ /\ Leads(l) /\ EndOf(l, cur) = e /\ LoaderPos = Wrapped(e)
                 /\ \A a \in Base(l) .. cur - 1 :
                      mem[a] # 0 /\ a + input.size[mem[a]] = cur => mem[a] + 1 = next
<1>1. PICK n \in Nat \ {0} : n = needed
    BY LoadedStep, LoadingChunks
<1>2. /\ e = l + n /\ e \in 1 .. ChunkCount /\ Base(l) \in Nat /\ Base(e) \in Nat
      /\ \A t \in l .. e - 1 : t \in Chunk /\ status[t] = "LOADING"
      /\ status[l] = "LOADING" /\ l \in Nat
    BY <1>1, LoadedStep, LoadingChunks, ChunkInMemory
<1>3. NextSize \in Nat \ {0} /\ LoaderIn(Loading) /\ LoaderIn({"loaded"})
    BY LoadedStep DEF LoaderIn
<1>4. new < Base(e)
    BY <1>3 DEF Chain, LoadOK
<1>5. CASE cur = Base(l) /\ n = ChunksFor(NextSize)
  <2>1. PICK size \in Nat \ {0} : size = NextSize
      BY <1>3
  <2>2. new = Base(l) + size /\ new > Base(l)
      BY <1>2, <1>5, <2>1
  <2>3. new - Base(l) = size
      BY <1>2, <2>2
  <2>4. EndOf(l, new) = l + n
      BY <1>5, <2>1, <2>3 DEF EndOf
  <2>5. Base(EndOf(l, new) - 1) < new
      BY <1>2, <2>2, EndBounds
  <2>6. mem[Base(l)] # 0
    <3>1. next \in 1 .. PacketCount + 1 /\ PacketCount \in Nat
        BY Kinds
    <3>2. mem[cur] = next
        BY LoadedStep
    <3> QED BY <1>5, <3>1, <3>2
  <2>7. ~Leads(l) /\ LoaderPos = l
    <3>1. pc[Loader] = "loaded"
        BY LoadedStep
    <3>2. LoaderPos = Wrapped(l)
        BY <1>5, <3>1 DEF LoaderPos, LoaderIn, Skipping
    <3>3. l # ChunkCount
        BY Kinds
    <3> QED BY <1>2, <1>5, <3>2, <3>3 DEF Leads, Wrapped
  <2> QED BY <1>1, <1>2, <1>4, <1>5, <2>2, <2>4, <2>5, <2>6, <2>7
<1>6. CASE ~(cur = Base(l) /\ n = ChunksFor(NextSize))
  <2>1. /\ cur > Base(loading_idx + needed - 1) /\ cur < Base(loading_idx + needed)
        /\ mem[Base(l)] # 0
        /\ \A a \in Base(l) .. cur - 1 :
             mem[a] # 0 /\ a + input.size[mem[a]] = cur => mem[a] + 1 = next
      BY <1>1, <1>3, <1>6 DEF Chain, FilledOK
  <2>2. EndOf(l, cur) = e /\ cur > Base(l)
      BY <1>3, <2>1, FilledEnd
  <2>3. Base(e - 1) < cur /\ cur < Base(e)
    <3>1. loading_idx \in Nat /\ needed \in Nat
        BY <1>3, LoadingChunks
    <3>2. e - 1 = loading_idx + needed - 1 /\ e = loading_idx + needed
        BY <3>1
    <3> QED BY <2>1, <3>2
  <2>4. PICK m \in Nat : m = e - 1
      BY <1>2
  <2>5. Base(m) \in Nat /\ Base(m) < new
      BY <2>3, <2>4, <1>3, BaseNat
  <2>6. EndOf(l, new) = e
    <3>1. l + n - 1 = m
        BY <1>2, <2>4
    <3>2. Base(l + n - 1) < new /\ new <= Base(l + n)
        BY <1>2, <1>4, <2>5, <3>1
    <3>3. EndOf(l, new) = l + n
      <4>1. l \in Nat
          BY <1>2
      <4> QED BY <4>1, <3>2, EndIs
    <3> QED BY <1>2, <3>3
  <2>7. Leads(l) /\ LoaderPos = Wrapped(e)
      BY <1>2, <1>3, <2>1, <2>2, LoadedStep DEF Leads, LoaderPos, LoaderIn, Skipping
  <2> QED BY <1>1, <1>2, <1>3, <1>4, <2>1, <2>2, <2>4, <2>5, <2>6, <2>7
<1> QED BY <1>5, <1>6

\* No group but the one being loaded ends where its chunks do.
LEMMA EndsApart ==
    ASSUME IInv, BaseOK, LoaderIn(Loading),
           NEW c \in Chunk, c # loading_idx, NEW hi \in Nat, hi > Base(c), Group(c, hi),
           Leads(c) \/ status[c] = "USING"
    PROVE  Wrapped(EndOf(c, hi)) # Wrapped(loading_idx + needed)
<1>1. EndOf(c, hi) <= loading_idx \/ loading_idx + needed <= c
    BY LoaderApart
<1>2. EndOf(c, hi) \in 1 .. ChunkCount /\ EndOf(c, hi) > c
    BY GroupShape
<1>3. loading_idx \in Nat /\ needed \in Nat \ {0} /\ loading_idx + needed \in 1 .. ChunkCount /\ c \in Nat
    BY LoadingChunks, ChunkInMemory
<1> QED BY <1>1, <1>2, <1>3, ConstantsAssumption DEF Wrapped

\* After the step that counts a packet as loaded, a chunk still leads to what it
\* led to, but for the chunk behind, and the packet that was next.
LEMMA LoadedExpects ==
    ASSUME IInv, IInv', Chain, L_Loaded,
           NEW d \in Chunk, NEW k \in Delivered + 1 .. next, Expects(d, k)
    PROVE  \/ Expects(d, k)'
           \/ k = next /\ Leads(loading_idx) /\ d = Wrapped(loading_idx + needed)
<1>1. PICK l \in Chunk, cur \in Nat, e \in Nat, new \in Nat :
         l = loading_idx /\ cur = current[l] /\ e = l + needed /\ new = cur + NextSize
  <2>1. loading_idx \in Chunk /\ current[loading_idx] \in Nat /\ loading_idx + needed \in Nat
      BY LoadedStep, LoadingChunks, Kinds
  <2>2. current[loading_idx] + NextSize \in Nat
      BY <2>1, LoadedStep
  <2> QED BY <2>1, <2>2
<1>2. /\ e <= ChunkCount /\ l < e /\ Base(l) \in Nat /\ Base(l) < new /\ mem[Base(l)] # 0
      /\ \A t \in l .. e - 1 : t \in Chunk /\ status[t] = "LOADING"
      /\ \/ cur = Base(l) /\ ~Leads(l) /\ LoaderPos = l
         \/ Leads(l) /\ EndOf(l, cur) = e /\ LoaderPos = Wrapped(e)
    BY <1>1, LoadedEnds
<1>3. /\ UNCHANGED <<status, mem, loading_idx, needed>> /\ next' = next + 1 /\ ~Broken
      /\ \A c \in Chunk : current'[c] = IF c = l THEN new ELSE current[c]
      /\ mem[cur] = next
    BY <1>1, LoadedStep
<1>4. ASSUME NEW c \in Chunk, Leads(c) PROVE Leads(c)'
  <2>1. current'[c] = new \/ current'[c] = current[c]
      BY <1>3
  <2>2. c = l => current'[c] = new
      BY <1>3
  <2>3. current'[c] > Base(c)
      BY <1>2, <1>3, <1>4 DEF Leads
  <2> QED BY <1>3, <1>4, <2>3 DEF Leads, Base
<1>5. Leads(l)'
  <2>1. status[l] = "LOADING" /\ current'[l] = new
      BY <1>1, <1>3, LoadedStep, LoadingChunks
  <2> QED BY <1>2, <1>3, <2>1 DEF Leads, Base
<1>6. LoaderPos' = Wrapped(e)
  <2>1. pc'[Loader] = "load" /\ current'[l] = new /\ loading_idx' = l /\ needed' = needed /\ LoaderIn(Loading)'
      BY <1>1, <1>3, LoadedStep
  <2> QED BY <1>1, <1>2, <2>1 DEF LoaderPos, LoaderIn, Skipping, Wrapped, Base
<1>7. status[d] = "SKIPPED" => Wrapped(e) # 0
  <2> SUFFICES ASSUME status[d] = "SKIPPED", e = ChunkCount PROVE FALSE
      BY <1>2, ChunkInMemory DEF Wrapped
  <2>1. d = ChunkCount - 1
      BY DEF Chain, SkipOK
  <2>2. d \in l .. e - 1
      BY <1>2, <2>1, ChunkInMemory
  <2> QED BY <1>2, <2>2
<1>8. CASE Leads(d) /\ k = mem[Base(d)]
    BY <1>3, <1>4, <1>8 DEF Expects, Base
<1>9. CASE status[d] = "SKIPPED" /\ LoaderPos # 0 /\ Leads(0) /\ k = mem[Base(0)]
    BY <1>3, <1>4, <1>6, <1>7, <1>9, Kinds DEF Expects, Base
<1>10. CASE k = next /\ (LoaderPos = d \/ (status[d] = "SKIPPED" /\ LoaderPos = 0))
  <2>1. CASE cur = Base(l) /\ ~Leads(l) /\ LoaderPos = l
    <3>1. mem'[Base(l)] = k
        BY <1>3, <1>10, <2>1
    <3> QED BY <1>3, <1>5, <1>6, <1>7, <1>10, <2>1, <3>1 DEF Expects, Base
  <2>2. CASE Leads(l) /\ EndOf(l, cur) = e /\ LoaderPos = Wrapped(e)
      BY <1>1, <1>7, <1>10, <2>2
  <2> QED BY <1>2, <2>1, <2>2
<1> QED BY <1>3, <1>8, <1>9, <1>10 DEF Expects

\* The links of another group.
LEMMA LoadedLinks ==
    ASSUME IInv, IInv', Chain, L_Loaded,
           NEW c \in Chunk, c # loading_idx, NEW hi \in Nat, hi > Base(c), Group(c, hi),
           Leads(c) \/ status[c] = "USING",
           NEW lo \in Nat, Base(c) <= lo, Linked(c, lo, hi)
    PROVE  Linked(c, lo, hi)'
<1>1. /\ UNCHANGED <<mem, input, delivered>> /\ next' = next + 1 /\ LoaderIn(Loading)
    BY LoadedStep
<1> SUFFICES ASSUME NEW a \in lo .. hi - 1, mem[a] # 0
             PROVE  /\ mem[a] \in Delivered + 1 .. next
                    /\ a + input.size[mem[a]] <= hi
                    /\ a + input.size[mem[a]] < hi => mem[a + input.size[mem[a]]] = mem[a] + 1
                    /\ a + input.size[mem[a]] = hi => Expects(Wrapped(EndOf(c, hi)), mem[a] + 1)'
  <2>1. next' - 1 = next /\ Delivered' = Delivered
      BY <1>1, Kinds DEF Delivered
  <2> QED BY <1>1, <2>1 DEF Linked, EndOf, ChunksFor, Base, Wrapped
<1>2. /\ mem[a] \in Delivered + 1 .. next - 1
      /\ a + input.size[mem[a]] <= hi
      /\ a + input.size[mem[a]] < hi => mem[a + input.size[mem[a]]] = mem[a] + 1
      /\ a + input.size[mem[a]] = hi => Expects(Wrapped(EndOf(c, hi)), mem[a] + 1)
    BY DEF Linked
<1>3. Wrapped(EndOf(c, hi)) # Wrapped(loading_idx + needed)
    BY <1>1, EndsApart DEF Chain
<1>4. Wrapped(EndOf(c, hi)) \in Chunk
  <2>1. EndOf(c, hi) \in 1 .. ChunkCount
      BY GroupShape
  <2> QED BY <2>1, Kinds DEF Wrapped
<1>5. mem[a] + 1 \in Delivered + 1 .. next /\ mem[a] \in Delivered + 1 .. next
  <2>1. Delivered \in Nat /\ next \in Nat
      BY Kinds
  <2> QED BY <1>2, <2>1
<1>6. PICK d \in Chunk, k \in Delivered + 1 .. next : d = Wrapped(EndOf(c, hi)) /\ k = mem[a] + 1
    BY <1>4, <1>5
<1>7. Expects(d, k) => Expects(d, k)'
    BY <1>3, <1>6, LoadedExpects
<1>8. (d = Wrapped(EndOf(c, hi)) /\ k = mem[a] + 1)'
    BY <1>1, <1>6 DEF Wrapped, EndOf, ChunksFor, Base
<1>9. Expects(d, k)' => Expects(Wrapped(EndOf(c, hi)), mem[a] + 1)'
    BY <1>8
<1> QED BY <1>2, <1>5, <1>6, <1>7, <1>9

\* The links of the chunk itself, with the new packet at their end.
LEMMA LoadedOwnLinks ==
    ASSUME IInv, IInv', Chain, L_Loaded,
           NEW l \in Chunk, l = loading_idx, NEW cur \in Nat, cur = current[l],
           NEW e \in Nat, e = l + needed, NEW new \in Nat, new = cur + NextSize
    PROVE  /\ Linked(l, Base(l), new)'
           /\ \A a \in Base(l) .. new - 1 :
                mem[a] # 0 /\ a + input.size[mem[a]] = new => mem[a] = next
<1>1. /\ e <= ChunkCount /\ l < e /\ Base(l) <= cur /\ Base(l) \in Nat
      /\ EndOf(l, new) = e
      /\ \/ cur = Base(l)
         \/ /\ Leads(l) /\ EndOf(l, cur) = e
            /\ \A a \in Base(l) .. cur - 1 :
                 mem[a] # 0 /\ a + input.size[mem[a]] = cur => mem[a] + 1 = next
    BY LoadedEnds
<1>2. /\ UNCHANGED <<mem, input, delivered, loading_idx, needed>> /\ next' = next + 1 /\ next \in Nat
      /\ mem[cur] = next /\ NextSize = input.size[next] /\ NextSize \in Nat \ {0}
      /\ \A x \in cur + 1 .. cur + NextSize - 1 : mem[x] = 0
    BY LoadedStep, Kinds
<1>3. Delivered \in Nat /\ Delivered < next
    BY BehindLoader, Kinds DEF Chain
<1>a. Wrapped(e) \in Nat
    BY DEF Wrapped
<1>b. next + 1 \in Nat
    BY <1>2
<1> PICK d \in Nat, k \in Nat : d = Wrapped(e) /\ k = next + 1
    BY <1>a, <1>b
<1>4. Expects(d, k)'
  <2>1. LoaderPos' = d
    <3>1. pc'[Loader] = "load" /\ current'[l] = new /\ loading_idx' = l /\ needed' = needed /\ LoaderIn(Loading)'
        BY LoadedStep
    <3>2. Base(l) < new
        BY LoadedEnds
    <3> QED BY <1>1, <3>1, <3>2 DEF LoaderPos, LoaderIn, Skipping, Wrapped, Base
  <2> QED BY <1>2, <2>1 DEF Expects
<1>5. ASSUME NEW a \in Base(l) .. new - 1, mem[a] # 0
      PROVE  /\ mem[a] \in Delivered + 1 .. next
             /\ a + input.size[mem[a]] <= new
             /\ a + input.size[mem[a]] < new => mem[a + input.size[mem[a]]] = mem[a] + 1
             /\ a + input.size[mem[a]] = new => mem[a] = next
  <2>1. CASE a >= cur
    <3>1. a = cur
        BY <1>1, <1>2, <1>5, <2>1
    <3> QED BY <1>2, <1>3, <3>1
  <2>2. CASE a < cur
    <3>1. Leads(l) /\ \A x \in Base(l) .. cur - 1 :
                 mem[x] # 0 /\ x + input.size[mem[x]] = cur => mem[x] + 1 = next
        BY <1>1, <2>2
    <3>2. a \in Base(l) .. cur - 1
        BY <1>1, <2>2
    <3>3. Linked(l, Base(l), cur)
        BY <3>1 DEF Chain, LeadersOK
    <3>4. /\ mem[a] \in Delivered + 1 .. next - 1
          /\ a + input.size[mem[a]] <= cur
          /\ a + input.size[mem[a]] < cur => mem[a + input.size[mem[a]]] = mem[a] + 1
        BY <1>5, <3>2, <3>3 DEF Linked
    <3>5. mem[a] \in 1 .. PacketCount /\ input.size[mem[a]] \in Nat \ {0}
      <4>1. mem[a] \in 1 .. PacketCount
        <5>1. next \in 1 .. PacketCount + 1 /\ PacketCount \in Nat
            BY Kinds
        <5> QED BY <3>4, <1>3, <5>1
      <4> QED BY <4>1, Kinds
    <3>6. a + input.size[mem[a]] = cur => mem[a] + 1 = next
        BY <1>5, <3>1, <3>2
    <3>7. a + input.size[mem[a]] < new
        BY <1>2, <3>4, <3>5
    <3>8. a + input.size[mem[a]] = cur => mem[a + input.size[mem[a]]] = mem[a] + 1
        BY <1>2, <3>6
    <3> QED BY <1>2, <1>3, <3>4, <3>5, <3>7, <3>8
  <2> QED BY <1>1, <2>1, <2>2
<1>6. Linked(l, Base(l), new)'
  <2> SUFFICES ASSUME NEW a \in Base(l) .. new - 1, mem[a] # 0
             PROVE  /\ mem[a] \in Delivered + 1 .. next
                    /\ a + input.size[mem[a]] <= new
                    /\ a + input.size[mem[a]] < new => mem[a + input.size[mem[a]]] = mem[a] + 1
                    /\ a + input.size[mem[a]] = new => Expects(Wrapped(EndOf(l, new)), mem[a] + 1)'
    <3>1. next' - 1 = next /\ Delivered' = Delivered
        BY <1>2 DEF Delivered
    <3> QED BY <1>2, <3>1 DEF Linked, EndOf, ChunksFor, Base, Wrapped
  <2>1. ASSUME a + input.size[mem[a]] = new PROVE Expects(Wrapped(EndOf(l, new)), mem[a] + 1)'
    <3>1. mem[a] = next
        BY <1>5, <2>1
    <3>4. (d = Wrapped(EndOf(l, new)) /\ k = mem[a] + 1)'
        BY <1>1, <1>2, <3>1 DEF EndOf, ChunksFor, Base, Wrapped
    <3> QED BY <1>4, <3>4
  <2> QED BY <1>5, <2>1
<1> QED BY <1>5, <1>6

\* Counting the packet as loaded.
LEMMA LoadedKeepsChain ==
    ASSUME IInv, IInv', Chain, L_Loaded
    PROVE  Chain'
<1>1. PICK l \in Chunk, cur \in Nat, e \in Nat, new \in Nat :
         l = loading_idx /\ cur = current[l] /\ e = l + needed /\ new = cur + NextSize
  <2>1. loading_idx \in Chunk /\ current[loading_idx] \in Nat /\ loading_idx + needed \in Nat
      BY LoadedStep, LoadingChunks, Kinds
  <2>2. current[loading_idx] + NextSize \in Nat
      BY <2>1, LoadedStep
  <2> QED BY <2>1, <2>2
<1>2. /\ e <= ChunkCount /\ l < e /\ Base(l) <= cur /\ Base(l) \in Nat
      /\ EndOf(l, new) = e /\ Base(e - 1) < new /\ new < Base(e) /\ Base(l) < new
      /\ mem[Base(l)] # 0
      /\ \A t \in l .. e - 1 : t \in Chunk /\ status[t] = "LOADING"
      /\ \/ cur = Base(l) /\ ~Leads(l) /\ LoaderPos = l
         \/ Leads(l) /\ EndOf(l, cur) = e /\ LoaderPos = Wrapped(e)
    BY <1>1, LoadedEnds
<1>3. /\ pc'[Loader] = "load" /\ pc[Loader] = "loaded" /\ pc'[Replay] = pc[Replay]
      /\ UNCHANGED <<input, status, mem, exceed, exiting, skipped_to_first, loading_idx,
                     needed, i, using_idx, boundary, occupied, j, delivered>>
      /\ next' = next + 1 /\ next \in Nat /\ ~Broken
      /\ \A c \in Chunk : current'[c] = IF c = l THEN new ELSE current[c]
      /\ mem[cur] = next /\ NextSize \in Nat \ {0}
      /\ \A x \in cur + 1 .. cur + NextSize - 1 : mem[x] = 0
      /\ LoaderIn(Loading) /\ LoaderIn(Loading)' /\ ~LoaderIn({"share"}) /\ ~LoaderIn({"share"})'
    BY <1>1, LoadedStep, Kinds
<1>4. /\ LeadersOK /\ UsingOK /\ ReleaseOK /\ PosOK /\ Distinct /\ ReadyOK /\ SkipOK /\ BaseOK
      /\ FilledOK /\ LoadOK /\ ~exiting /\ Delivered \in Nat /\ Delivered < next
    BY BehindLoader, Kinds DEF Chain
<1>5. Delivered' = Delivered /\ ReplayPos' = ReplayPos /\ (Using' <=> Using)
    BY <1>3 DEF Delivered, ReplayPos, Using, ReplayIn, Wrapped, Chunk
<1>6. Leads(l)' /\ status[l] = "LOADING" /\ current'[l] = new
  <2>1. status[l] = "LOADING" /\ current'[l] = new
      BY <1>1, <1>3, LoadingChunks
  <2> QED BY <1>2, <1>3, <2>1 DEF Leads, Base
<1>7. \A c \in Chunk : c # l => current'[c] = current[c] /\ (Leads(c)' <=> Leads(c))
    BY <1>3 DEF Leads, Base
<1>8. \A c \in Chunk : status[c] = "USING" => c # l
    BY <1>6
<1>9. \A t : OwnTail(t)' <=> OwnTail(t)
    BY <1>3, <1>5 DEF OwnTail, EndOf, ChunksFor, Base, ReplayIn
<1>10. \A c, hi : Group(c, hi) => Group(c, hi)'
    BY <1>3 DEF Group, EndOf, ChunksFor, Base
<1>11. Group(l, new)'
  <2>1. ASSUME NEW t \in l + 1 .. e - 1
        PROVE  status[t] = "LOADING" /\ mem[Base(t)] = 0
    <3>1. status[t] = "LOADING" /\ t \in Chunk
        BY <1>2, <2>1, ChunkInMemory
    <3>2. CASE cur = Base(l)
      <4>1. t \in Nat /\ l \in Nat /\ l < t /\ t <= e - 1
          BY <3>1, ChunkInMemory
      <4>2. Base(l) + ChunkSize <= Base(t) /\ Base(t) \in Nat
          BY <4>1, BaseStrict
      <4>3. PICK m \in Nat : m = e - 1
          BY <4>1
      <4>4. Base(t) <= Base(m) /\ Base(m) \in Nat
          BY <4>1, <4>3, BaseMonotone, BaseNat
      <4>5. Base(t) \in cur + 1 .. cur + NextSize - 1
        <5>1. Base(l) \in Nat /\ Base(l) < Base(t)
            BY <4>1, <4>2, BaseNat, ConstantsAssumption
        <5>2. Base(t) < cur + NextSize
            BY <1>1, <1>2, <1>3, <4>2, <4>3, <4>4
        <5>3. NextSize \in Nat
            BY <1>2, <1>3
        <5> QED BY <3>2, <4>2, <5>1, <5>2, <5>3
      <4> QED BY <1>3, <3>1, <4>5
    <3>3. CASE Leads(l) /\ EndOf(l, cur) = e
      <4>1. Group(l, cur)
          BY <1>1, <1>4, <3>3 DEF LeadersOK
      <4> QED BY <3>1, <3>3, <4>1 DEF Group
    <3> QED BY <1>2, <3>2, <3>3
  <2> QED BY <1>1, <1>2, <1>3, <2>1 DEF Group, EndOf, ChunksFor, Base
<1>12. LeadersOK'
  <2> SUFFICES ASSUME NEW c \in Chunk, Leads(c)'
               PROVE  (/\ Group(c, current[c])
                       /\ Linked(c, Base(c), current[c])
                       /\ \A t \in c + 1 .. EndOf(c, current[c]) - 1 : ~OwnTail(t))'
      BY DEF LeadersOK, Chunk
  <2>1. CASE c = l
    <3>1. Linked(l, Base(l), new)'
        BY <1>1, LoadedOwnLinks
    <3>2. \A t \in l + 1 .. e - 1 : ~OwnTail(t)'
      <4>1. \A t \in l + 1 .. e - 1 : t \in loading_idx .. loading_idx + needed - 1
        <5>1. l \in Nat /\ needed \in Nat
            BY <1>3, LoadingChunks, ChunkInMemory
        <5> QED BY <1>1, <5>1
      <4> QED BY <1>3, <1>9, <4>1, OwnTailApart
    <3>3. (EndOf(l, new) = e)'
        BY <1>2 DEF EndOf, ChunksFor, Base
    <3> QED BY <1>6, <1>11, <2>1, <3>1, <3>2, <3>3
  <2>2. CASE c # l
    <3>1. Leads(c) /\ current'[c] = current[c]
        BY <1>7, <2>2
    <3>2. PICK hi \in Nat, lo \in Nat : hi = current[c] /\ lo = Base(c)
        BY <1>4, <3>1, LeaderFacts
    <3>3. /\ Group(c, hi) /\ Linked(c, lo, hi) /\ hi > Base(c)
          /\ \A t \in c + 1 .. EndOf(c, hi) - 1 : ~OwnTail(t)
        BY <1>4, <3>1, <3>2 DEF LeadersOK, Leads
    <3>4. Linked(c, lo, hi)'
        BY <1>1, <2>2, <3>1, <3>2, <3>3, LoadedLinks
    <3>5. Group(c, hi)'
        BY <1>10, <3>3
    <3>6. \A t \in c + 1 .. EndOf(c, hi) - 1 : ~OwnTail(t)'
        BY <1>9, <3>3
    <3>7. (lo = Base(c))' /\ current'[c] = hi /\ EndOf(c, hi)' = EndOf(c, hi)
        BY <3>1, <3>2 DEF Base, EndOf, ChunksFor
    <3> QED BY <3>4, <3>5, <3>6, <3>7
  <2> QED BY <2>1, <2>2
<1>13. UsingOK'
  <2> SUFFICES ASSUME Using
               PROVE  (/\ boundary > Base(using_idx)
                       /\ Group(using_idx, boundary)
                       /\ current[using_idx] <= boundary
                       /\ Linked(using_idx, current[using_idx], boundary)
                       /\ current[using_idx] < boundary =>
                            ~ReplayIn({"emptied"}) /\ mem[current[using_idx]] = Delivered + 1
                       /\ current[using_idx] = boundary =>
                            /\ ReplayIn({"emptied"})
                            /\ Expects(Wrapped(EndOf(using_idx, boundary)), Delivered + 1))'
      BY <1>5 DEF UsingOK
  <2>1. ~Starved
      BY <1>3 DEF Starved
  <2>2. PICK u \in Chunk, lo \in Nat, hi \in Nat : u = using_idx /\ lo = current[u] /\ hi = boundary
      BY <2>1, <1>4, UsingFacts
  <2>3. /\ hi > Base(u) /\ Group(u, hi) /\ lo <= hi /\ Linked(u, lo, hi)
        /\ lo < hi => ~ReplayIn({"emptied"}) /\ mem[lo] = Delivered + 1
        /\ lo = hi => ReplayIn({"emptied"}) /\ Expects(Wrapped(EndOf(u, hi)), Delivered + 1)
      BY <1>4, <2>1, <2>2 DEF UsingOK
  <2>4. status[u] = "USING" /\ u # l /\ u # loading_idx /\ Base(u) <= lo
      BY <1>1, <1>8, <2>2 DEF Using, IInv, RingInv
  <2>5. Linked(u, lo, hi)'
      BY <2>2, <2>3, <2>4, LoadedLinks
  <2>6. current'[u] = lo /\ (u = using_idx)' /\ (hi = boundary)'
      BY <1>3, <1>7, <2>2, <2>4
  <2>7. ASSUME lo = hi PROVE Expects(Wrapped(EndOf(u, hi)), Delivered + 1)'
    <3>1. PICK d \in Nat, k \in Nat : d = Wrapped(EndOf(u, hi)) /\ k = Delivered + 1
      <4>1. EndOf(u, hi) \in 1 .. ChunkCount
          BY <2>3, GroupShape
      <4> QED BY <1>4, <4>1, Kinds DEF Wrapped
    <3>2. d \in Chunk /\ k \in Delivered + 1 .. next
      <4>1. EndOf(u, hi) \in 1 .. ChunkCount
          BY <2>3, GroupShape
      <4>2. d \in Chunk
          BY <3>1, <4>1, Kinds DEF Wrapped
      <4> QED BY <1>3, <1>4, <3>1, <4>2
    <3>3. d # Wrapped(loading_idx + needed)
        BY <1>3, <1>4, <2>3, <2>4, <3>1, EndsApart
    <3>4. Expects(d, k)'
        BY <2>3, <2>7, <3>1, <3>2, <3>3, LoadedExpects
    <3>5. (d = Wrapped(EndOf(u, hi)) /\ k = Delivered + 1)'
        BY <1>5, <3>1 DEF Wrapped, EndOf, ChunksFor, Base
    <3> QED BY <3>4, <3>5
  <2>8. Group(u, hi)'
      BY <1>10, <2>3
  <2>9. (ReplayIn({"emptied"})' <=> ReplayIn({"emptied"})) /\ (hi > Base(u))' /\ mem'[lo] = mem[lo]
      BY <1>3, <2>3 DEF ReplayIn, Base
  <2> QED BY <1>5, <2>3, <2>5, <2>6, <2>7, <2>8, <2>9
<1>14. ReleaseOK'
    BY <1>3, <1>4 DEF ReleaseOK, ReplayIn, LoaderIn, Base
<1>15. PosOK'
  <2> SUFFICES ASSUME ~Using PROVE Expects(ReplayPos, Delivered + 1)'
      BY <1>5 DEF PosOK
  <2>1. PICK d \in Chunk, k \in Nat : d = ReplayPos /\ k = Delivered + 1
      BY Positions, Kinds
  <2>2. k \in Delivered + 1 .. next
      BY <1>3, <1>4, <2>1
  <2>3. Expects(d, k)
      BY <1>4, <2>1 DEF PosOK
  <2>4. Leads(loading_idx) => k # next
      BY <1>1, <1>3, <1>4, <2>1, LeaderFacts
  <2>5. Expects(d, k)'
      BY <2>2, <2>3, <2>4, LoadedExpects
  <2>6. (d = ReplayPos /\ k = Delivered + 1)'
      BY <1>5, <2>1
  <2> QED BY <2>5, <2>6
<1>16. Distinct'
  <2>1. ASSUME NEW a \in Address, Pending(a)', mem[a] # 0
        PROVE  \/ Pending(a) /\ mem[a] < next
               \/ a = cur /\ mem[a] = next
    <3>1. CASE Pending(a)
        BY <1>4, <2>1, <3>1, PendingRange, Kinds
    <3>2. CASE ~Pending(a)
      <4>1. ~(Using' /\ a \in current'[using_idx'] .. boundary' - 1)
          BY <1>3, <1>5, <1>7, <1>8, <3>2 DEF Pending, Using
      <4>2. PICK c \in Chunk : Leads(c)' /\ a \in Base(c) .. current'[c] - 1
          BY <2>1, <4>1 DEF Pending, Base, Chunk
      <4>3. c = l /\ a \in Base(l) .. new - 1
          BY <1>6, <1>7, <3>2, <4>2 DEF Pending
      <4>4. a >= cur
        <5>1. Leads(l) => a \notin Base(l) .. cur - 1
            BY <1>1, <3>2 DEF Pending
        <5> QED BY <1>2, <4>3, <5>1
      <4>5. a = cur
          BY <1>1, <1>2, <1>3, <2>1, <4>3, <4>4
      <4> QED BY <1>3, <4>5
    <3> QED BY <3>1, <3>2
  <2>2. \A a \in Address : mem[a] = next => ~(mem[a] < next)
      BY <1>3
  <2> SUFFICES ASSUME NEW a \in Address, NEW b \in Address, Pending(a)', Pending(b)',
                      mem[a] = mem[b], mem[a] # 0
               PROVE  a = b
      BY <1>3 DEF Distinct, Address
  <2> QED BY <1>4, <2>1, <2>2 DEF Distinct
<1>17. \A c \in Chunk : Grouped(c) => Grouped(c)'
  <2> SUFFICES ASSUME NEW c \in Chunk, NEW h \in Chunk, Leads(h), c \in h .. EndOf(h, current[h]) - 1
               PROVE  Leads(h)' /\ c \in h .. EndOf(h, current'[h]) - 1
      BY <1>9 DEF Grouped, EndOf, ChunksFor, Base, Chunk
  <2>1. CASE h = l
      BY <1>1, <1>2, <1>6, <2>1
  <2>2. CASE h # l
      BY <1>7, <2>2
  <2> QED BY <2>1, <2>2
<1>18. ReadyOK'
    BY <1>3, <1>4, <1>17 DEF ReadyOK, Covered, Chunk
<1>19. ShareOK' /\ exiting' = FALSE
    BY <1>3 DEF ShareOK, Chain, IInv, TypeOK, TypeFlag
<1>20. BaseOK'
    BY <1>1, <1>3, <1>4, <1>6, <1>7 DEF BaseOK, Base, Chunk
<1>21. FilledOK'
  <2>1. \A a \in Base(l) .. new - 1 :
           mem[a] # 0 /\ a + input.size[mem[a]] = new => mem[a] + 1 = next'
    <3>1. \A a \in Base(l) .. new - 1 :
             mem[a] # 0 /\ a + input.size[mem[a]] = new => mem[a] = next
        BY <1>1, LoadedOwnLinks
    <3> QED BY <1>3, <3>1
  <2>2. new > Base(l + needed - 1) /\ new < Base(l + needed)
    <3>1. l \in Nat /\ needed \in Nat
        BY <1>3, LoadingChunks, ChunkInMemory
    <3>2. e - 1 = l + needed - 1 /\ e = l + needed
        BY <1>1, <3>1
    <3>3. PICK m \in Nat : m = e - 1
        BY <1>2, <3>1
    <3>4. Base(m) \in Nat
        BY BaseNat
    <3> QED BY <1>2, <3>2, <3>3, <3>4
  <2> QED BY <1>1, <1>2, <1>3, <1>6, <2>1, <2>2 DEF FilledOK, Base
<1>22. LoadOK'
  <2>1. input.bad # 0 => next' <= input.bad
      BY <1>3, <1>4, Kinds DEF LoadOK, Broken
  <2> QED BY <1>3, <2>1 DEF LoadOK, LoaderIn, Grabbing
<1>23. SkipOK'
  <2>1. LoaderPos' = Wrapped(e)
      BY <1>1, <1>2, <1>3, <1>6 DEF LoaderPos, LoaderIn, Skipping, Wrapped, Base
  <2>2. ASSUME NEW c \in Chunk, status[c] = "SKIPPED"
        PROVE  Wrapped(e) > 0 /\ Wrapped(e) <= ReplayPos /\ Leads(0)'
    <3>1. /\ c = ChunkCount - 1
          /\ \/ LoaderPos = 0 /\ (ReplayPos = 0 => Leads(0) \/ Using)
             \/ LoaderPos > 0 /\ LoaderPos <= ReplayPos /\ Leads(0)
        BY <1>3, <1>4, <2>2 DEF SkipOK
    <3>2. l \in Nat /\ ReplayPos \in Nat /\ c \in Nat /\ ReplayPos \in Chunk /\ c \notin l .. e - 1
        BY <1>2, <2>2, Positions, ChunkInMemory
    <3>3. Wrapped(e) = e /\ e > 0
        BY <1>2, <3>1, <3>2, ConstantsAssumption DEF Wrapped
    <3>4. CASE Leads(l) /\ LoaderPos = Wrapped(e)
      <4>1. Leads(0) => Leads(0)'
          BY <1>6, <1>7, Kinds
      <4> QED BY <3>1, <3>3, <3>4, <4>1
    <3>5. CASE cur = Base(l) /\ ~Leads(l) /\ LoaderPos = l
      <4>1. Leads(0)'
          BY <1>6, <1>7, <3>1, <3>5, Kinds
      <4>2. Using => ReplayPos \notin l .. e - 1
        <5>1. Using => ReplayPos = using_idx
            BY UsingPlace
        <5> QED BY <1>2, <5>1 DEF Using
      <4>3. ASSUME ~Using, ReplayPos \in l .. e - 1 PROVE FALSE
        <5>1. PICK r \in Chunk : r = ReplayPos
            BY <3>2
        <5>2. Expects(r, Delivered + 1) /\ status[r] = "LOADING"
            BY <1>2, <1>4, <4>3, <5>1 DEF PosOK
        <5>3. ~Leads(r)
          <6>1. r # l => current[r] = Base(r)
              BY <1>1, <1>4, <5>2 DEF BaseOK
          <6>2. r \in Chunk /\ Base(r) \in Nat
              BY ChunkInMemory
          <6> QED BY <3>5, <6>1, <6>2 DEF Leads
        <5>4. Delivered + 1 = next /\ r = l
            BY <1>3, <3>5, <5>2, <5>3 DEF Expects
        <5>5. Leads(0) => Delivered + 1 < next
            BY <1>4, Kinds, LeaderFacts
        <5>6. CASE LoaderPos = 0
            BY <3>1, <3>5, <4>3, <5>1, <5>4, <5>6
        <5>7. CASE LoaderPos > 0 /\ Leads(0)
            BY <1>3, <1>4, <5>4, <5>5, <5>7
        <5> QED BY <3>1, <5>6, <5>7
      <4>4. ReplayPos >= l
          BY <3>1, <3>2, <3>5
      <4> QED BY <1>2, <3>2, <3>3, <4>1, <4>2, <4>3, <4>4
    <3> QED BY <1>2, <3>4, <3>5
  <2> QED BY <1>3, <1>4, <1>5, <2>1, <2>2 DEF SkipOK, LoaderIn, ReplayIn, Chunk, Skipping
<1> QED BY <1>12, <1>13, <1>14, <1>15, <1>16, <1>18, <1>19, <1>20, <1>21, <1>22, <1>23 DEF Chain

\* No step of the loading thread breaks the chain.
LEMMA LoaderKeepsChain ==
    ASSUME IInv, IInv', Chain, AllFit, PacketsFit, LoaderStep
    PROVE  Chain'
<1>1. ~LoaderIn({"skipNotify", "skipNone", "skipGet", "skipLock", "skipMark"})
    BY DEF Chain, SkipOK, LoaderIn, Skipping
<1>2. ~L_SkipNotify /\ ~L_SkipNone /\ ~L_SkipGet /\ ~L_SkipLock /\ ~L_SkipMark
    BY <1>1 DEF L_SkipNotify, L_SkipNone, L_SkipGet, L_SkipLock, L_SkipMark, Awake, At, LoaderIn
<1>3. ~L_SkipNext
  <2>1. SUFFICES ASSUME L_SkipNext PROVE FALSE
      OBVIOUS
  <2>2. LoaderIn(Skipping) /\ i < ChunkCount
      BY <2>1 DEF L_SkipNext, At, LoaderIn, Skipping
  <2>3. i = ChunkCount
      BY <2>2 DEF Chain, SkipOK
  <2> QED BY <2>2, <2>3, ConstantsAssumption
<1>4. CASE L_Exit \/ L_Wrap \/ L_Turn \/ L_Status \/ L_Lock \/ L_PlanLoad
             \/ L_GrabNext \/ L_GrabGet \/ L_SkipDone \/ L_Bump \/ L_Finish \/ L_Again
    BY <1>4, IdleLoaderKeepsChain
<1>5. CASE L_GrabLock \/ L_Begin
    BY <1>5, GrabStepsKeepChain
<1>6. CASE L_PlanSkip
    BY <1>6, PlanSkipKeepsChain
<1>7. CASE L_Load \/ L_LoadFail
    BY <1>7, LoadKeepsChain
<1>8. CASE L_Loaded
    BY <1>8, LoadedKeepsChain
<1>9. CASE L_Ready
    BY <1>9, ReadyKeepsChain
<1>10. CASE L_Share
    BY <1>10, ShareKeepsChain
<1> QED BY <1>2, <1>3, <1>4, <1>5, <1>6, <1>7, <1>8, <1>9, <1>10 DEF LoaderStep

-----------------------------------------------------------------------------
(* The steps of the replay thread.                                         *)

\* The replay thread moves on and changes no chunk.
LEMMA ReplayIdle ==
    ASSUME IInv, IInv', Chain,
           UNCHANGED <<input, status, current, mem, next, exceed, exiting, skipped_to_first,
                       loading_idx, needed, i, boundary, delivered>>,
           pc'[Loader] = pc[Loader], ReplayPos' = ReplayPos, Using' <=> Using,
           Using => /\ using_idx' = using_idx /\ ~Starved
                    /\ ReplayIn({"emptied"})' <=> ReplayIn({"emptied"}),
           \A t \in Chunk : OwnTail(t)' <=> OwnTail(t),
           ReleaseOK', ~ReplayIn({"skipClear"})'
    PROVE  Chain'
<1>1. /\ LoaderPos' = LoaderPos /\ Delivered' = Delivered
      /\ \A c : Leads(c)' <=> Leads(c)
    BY DEF LoaderPos, Delivered, Leads, LoaderIn, Wrapped, Base
<1>2. \A c, k : Expects(c, k)' <=> Expects(c, k)
    BY <1>1 DEF Expects, Broken, Base
<1>3. /\ \A c, lo, hi : Linked(c, lo, hi)' <=> Linked(c, lo, hi)
      /\ \A c, hi : Group(c, hi)' <=> Group(c, hi)
    BY <1>1, <1>2 DEF Linked, Group, EndOf, ChunksFor, Base, Wrapped
<1>4. \A c \in Chunk : Leads(c) =>
        \A t \in c + 1 .. EndOf(c, current[c]) - 1 : t \in Chunk /\ ~OwnTail(t)
    BY LeaderFacts, GroupShape DEF Chain, LeadersOK
<1>5. LeadersOK'
  <2> SUFFICES ASSUME NEW c \in Chunk, Leads(c)
               PROVE  (/\ Group(c, current[c])
                       /\ Linked(c, Base(c), current[c])
                       /\ \A t \in c + 1 .. EndOf(c, current[c]) - 1 : ~OwnTail(t))'
      BY <1>1 DEF LeadersOK, Chunk
  <2>1. Group(c, current[c])' /\ Linked(c, Base(c), current[c])'
      BY <1>3 DEF Chain, LeadersOK, Base
  <2>2. (\A t \in c + 1 .. EndOf(c, current[c]) - 1 : ~OwnTail(t))'
      BY <1>4 DEF EndOf, ChunksFor, Base
  <2> QED BY <2>1, <2>2
<1>6. UsingOK'
  <2>1. UsingOK
      BY DEF Chain
  <2>2. (EndOf(using_idx, boundary))' = EndOf(using_idx', boundary)
      BY DEF EndOf, ChunksFor, Base
  <2> QED BY <1>1, <1>2, <1>3, <2>1, <2>2 DEF UsingOK, Base, Wrapped
<1>7. PosOK' /\ Distinct'
  <2>1. PosOK'
      BY <1>1, <1>2 DEF Chain, PosOK
  <2>2. \A a : Pending(a)' <=> Pending(a)
      BY <1>1 DEF Pending, Base
  <2> QED BY <2>1, <2>2 DEF Chain, Distinct
<1>8. \A c \in Chunk : (Grouped(c)' <=> Grouped(c)) /\ (Covered(c)' <=> Covered(c))
    BY <1>1 DEF Covered, Grouped, Broken, EndOf, ChunksFor, Base
<1>9. ReadyOK'
    BY <1>8 DEF Chain, ReadyOK, Chunk
<1>10. ShareOK'
  <2>1. LoaderIn({"share"}) => loading_idx + i .. loading_idx + needed - 1 \subseteq Chunk
    <3> SUFFICES ASSUME LoaderIn({"share"}), NEW t \in loading_idx + i .. loading_idx + needed - 1
                 PROVE  t \in 0 .. ChunkCount - 1
        BY DEF Chunk
    <3>1. loading_idx + needed <= ChunkCount
        BY Indices DEF LoaderIn
    <3>2. loading_idx \in 0 .. ChunkCount /\ needed \in 1 .. ChunkCount /\ i \in 1 .. ChunkCount
        BY Indices
    <3> QED BY <3>1, <3>2, ConstantsAssumption
  <2>2. LoaderIn({"share"})' <=> LoaderIn({"share"})
      BY DEF LoaderIn
  <2> QED BY <1>8, <2>1, <2>2 DEF Chain, ShareOK, Hollow, Broken, Base
<1>11. SkipOK'
    BY <1>1, Kinds DEF Chain, SkipOK, Broken, LoaderIn, ReplayIn
<1>12. BaseOK' /\ FilledOK' /\ LoadOK' /\ exiting' = FALSE
    BY DEF Chain, BaseOK, FilledOK, LoadOK, Broken, LoaderIn, Base, NextSize, NoMorePackets, PacketCount,
       ChunksFor, IInv, TypeOK, TypeFlag
<1> QED BY <1>5, <1>6, <1>7, <1>9, <1>10, <1>11, <1>12 DEF Chain

\* The steps with which the replay only looks for its next packet.
LEMMA IdleReplayKeepsChain ==
    ASSUME IInv, IInv', Chain, ~StatusReread, Active',
           R_Start \/ R_Call \/ R_SkipDone \/ R_Head \/ R_IsReady \/ R_IsEmpty \/ R_Lock
             \/ R_ReleaseNext \/ R_ReleaseReady \/ R_Advance \/ R_Throttled
    PROVE  Chain'
<1> USE DEF At, Goto, Jump, Awake, Loader, Replay, ringVars, fileVars, skipVars, loadVars,
            fullVars, resultVars, replayVars, sharedVars, dataVars
<1>1. pc \in [Thread -> LoaderPlaces \union ReplayPlaces] /\ "loader" \in Thread /\ "replay" \in Thread
    BY DEF IInv, TypeOK, TypeControl, Thread
<1>2. /\ UNCHANGED <<input, status, current, mem, next, exceed, exiting, skipped_to_first,
                     loading_idx, needed, i, boundary, delivered, occupied, j>>
      /\ pc'["loader"] = pc["loader"]
    BY <1>1 DEF R_Start, R_Call, R_SkipDone, R_Head, R_IsReady, R_IsEmpty, R_Lock,
         R_ReleaseNext, R_ReleaseReady, R_Advance, R_Throttled
<1> DEFINE from == pc["replay"]
           to == pc'["replay"]
<1>3. \/ from = "start" /\ to = "call" /\ using_idx' = using_idx
      \/ /\ from = "call" /\ to \in {"skipWait", "lock", "null", "take"}
         /\ using_idx' = IF using_idx = ChunkCount THEN 0 ELSE using_idx
         /\ to = "take" => status[using_idx'] \notin {"READY", "LOADING", "EMPTY", "SKIPPED"}
      \/ from = "skipClear" /\ to \in {"headWait", "isReady"} /\ using_idx' = 0
      \/ from = "headWait" /\ to = "isReady" /\ using_idx' = using_idx
      \/ /\ from = "isReady" /\ to \in {"lock", "null", "take"} /\ using_idx' = using_idx
         /\ to = "take" => status[using_idx] \notin {"READY", "LOADING", "EMPTY"}
      \/ from = "lock" /\ to = "locked" /\ using_idx' = using_idx
      \/ from \in {"release", "readyWait"} /\ to \in {"releaseLock", "readyWait"} /\ using_idx' = using_idx
      \/ from = "release" /\ to \in {"throttle", "call"} /\ using_idx' = using_idx + occupied
         /\ j >= using_idx + occupied
      \/ from = "throttle" /\ to = "call" /\ using_idx' = using_idx
  <2>1. ~R_IsEmpty
      BY DEF R_IsEmpty, IInv, ReplayInv, ReplayIn
  <2>2. CASE R_Start \/ R_Head \/ R_Throttled
      BY <1>1, <2>2 DEF R_Start, R_Head, R_Throttled
  <2>3. CASE R_Call
      BY <1>1, <2>3 DEF R_Call, Branch
  <2>4. CASE R_SkipDone
      BY <1>1, <2>4 DEF R_SkipDone
  <2>5. CASE R_IsReady
      BY <1>1, <2>5 DEF R_IsReady, Branch
  <2>6. CASE R_Lock
      BY <1>1, <2>6 DEF R_Lock
  <2>7. CASE R_ReleaseNext \/ R_ReleaseReady
      BY <1>1, <2>7 DEF R_ReleaseNext, R_ReleaseReady
  <2>8. CASE R_Advance
      BY <1>1, <2>8 DEF R_Advance
  <2> QED BY <2>1, <2>2, <2>3, <2>4, <2>5, <2>6, <2>7, <2>8
<1> HIDE DEF from, to
<1>4. /\ from = "call" \/ ~Using
      /\ to # "null"
      /\ \A c \in Chunk : status[c] = "USING" => c = using_idx /\ from = "call"
      /\ status[0] # "SKIPPED"
      /\ from = "isReady" => using_idx = 0
  <2>1. \A c \in Chunk : status[c] = "USING" =>
           c = using_idx /\ from \in {"call", "take", "emptied", "exit", "crashed"}
      BY DEF IInv, RingInv, ReplayIn, from
  <2>2. \A c \in Chunk : status[c] = "USING" => c = using_idx /\ from = "call"
      BY <1>3, <2>1
  <2> QED BY <2>2 DEF Using, Active, ReplayIn, IInv, RingInv, ReplayInv, from, to
<1>5. using_idx \in 0 .. ChunkCount /\ Chunk = 0 .. ChunkCount - 1 /\ ChunkCount \in Nat \ {0}
      /\ status \in [Chunk -> Status] /\ occupied \in 1 .. ChunkCount /\ j \in 0 .. ChunkCount
    BY Indices, Kinds
<1>6. /\ from = "release" => using_idx + occupied <= ChunkCount
      /\ to = "take" => from = "call"
  <2>1. from = "release" => using_idx + occupied <= ChunkCount
      BY DEF IInv, ReplayInv, ReplayIn, Releasing, from
  <2>2. ASSUME from = "isReady", to = "take" PROVE FALSE
    <3>1. status[0] \notin {"READY", "LOADING", "EMPTY", "SKIPPED", "USING"}
        BY <1>3, <1>4, <1>5, <2>2
    <3> QED BY <1>5, <3>1 DEF Status
  <2> QED BY <1>3, <2>1, <2>2
<1>7. ReplayPos' = ReplayPos
    BY <1>2, <1>3, <1>5 DEF ReplayPos, ReplayIn, Releasing, Wrapped, from, to
<1>8. Using' <=> Using
  <2>1. Using => using_idx' = using_idx
      BY <1>3, <1>4, <1>5 DEF Using
  <2>2. ASSUME Using' PROVE Using
    <3>1. using_idx' \in Chunk /\ status[using_idx'] = "USING"
        BY <1>2, <2>2 DEF Using, Chunk
    <3> QED BY <1>4, <3>1 DEF Using
  <2> QED BY <1>2, <2>1, <2>2 DEF Using, Chunk
<1>9. Using => /\ using_idx' = using_idx /\ ~Starved
               /\ ReplayIn({"emptied"})' <=> ReplayIn({"emptied"})
    BY <1>3, <1>4, <1>5 DEF Using, Starved, ReplayIn, from, to
<1>10. \A t \in Chunk : OwnTail(t)' <=> OwnTail(t)
  <2> TAKE t \in Chunk
  <2>1. (ReplayIn(Releasing) /\ t \in j .. using_idx + occupied - 1)'
           <=> (ReplayIn(Releasing) /\ t \in j .. using_idx + occupied - 1)
    <3>1. t \in Nat
        BY <1>5
    <3> QED BY <1>2, <1>3, <1>5, <3>1 DEF ReplayIn, Releasing, from, to
  <2>2. Using => /\ EndOf(using_idx, boundary)' = EndOf(using_idx, boundary)
                 /\ Base(using_idx)' = Base(using_idx)
      BY <1>2, <1>9 DEF EndOf, ChunksFor, Base
  <2> QED BY <1>2, <1>8, <1>9, <2>1, <2>2 DEF OwnTail
<1>11. ReleaseOK'
  <2>1. ReplayIn(Releasing)' => ReplayIn(Releasing) /\ using_idx' = using_idx
      BY <1>3 DEF ReplayIn, Releasing, from, to
  <2> QED BY <1>2, <2>1 DEF ReleaseOK, Chain, LoaderIn, Base
<1>12. ~ReplayIn({"skipClear"})'
    BY <1>3 DEF ReplayIn, to
<1> QED BY <1>2, <1>7, <1>8, <1>9, <1>10, <1>11, <1>12, ReplayIdle

\* A step of the replay thread that takes, uses up or gives back chunk x leaves
\* alone what the loading thread is doing.
LEMMA ReplayTouches ==
    ASSUME IInv, IInv', Chain,
           UNCHANGED <<input, mem, next, exceed, exiting, skipped_to_first, loading_idx, needed, i>>,
           pc'[Loader] = pc[Loader],
           NEW x \in Chunk, status[x] # "LOADING",
           status'[x] = "USING" \/ (status'[x] = "EMPTY" /\ current'[x] = Base(x)),
           \A c \in Chunk : c # x => status'[c] = status[c] /\ current'[c] = current[c]
    PROVE  /\ LoaderPos' = LoaderPos /\ (Broken' <=> Broken)
           /\ BaseOK' /\ FilledOK' /\ LoadOK' /\ exiting' = FALSE
           /\ ~Leads(x)' /\ \A c \in Chunk : c # x => (Leads(c)' <=> Leads(c))
           /\ \A d \in Chunk : \A k : Expects(d, k) =>
                \/ Expects(d, k)'
                \/ Leads(x) /\ k = mem[Base(x)]
                \/ status[x] = "SKIPPED" /\ d = x
           /\ LoaderIn({"share"})' <=> LoaderIn({"share"})
           /\ \A t \in Chunk : LoaderIn({"share"}) /\ t \in loading_idx + i .. loading_idx + needed - 1
                => status[t] = "LOADING" /\ t # x
<1>1. LoaderIn(Loading) => loading_idx \in Chunk /\ loading_idx # x
    BY LoadingChunks
<1>2. LoaderIn(Loading) => current'[loading_idx] = current[loading_idx]
    BY <1>1
<1>3. LoaderPos' = LoaderPos /\ (Broken' <=> Broken)
    BY <1>2 DEF LoaderPos, LoaderIn, Wrapped, Base, Broken
<1>4. BaseOK'
    BY DEF Chain, BaseOK, LoaderIn, Base, Chunk
<1>5. FilledOK' /\ LoadOK' /\ exiting' = FALSE
  <2>1. /\ NextSize' = NextSize /\ (NoMorePackets' <=> NoMorePackets)
        /\ ChunksFor(NextSize)' = ChunksFor(NextSize)
      BY DEF NextSize, NoMorePackets, PacketCount, ChunksFor
  <2>2. FilledOK'
      BY <1>2, <2>1 DEF Chain, FilledOK, LoaderIn, Base
  <2>3. LoaderIn({"loaded"}) => LoaderIn(Loading)
      BY DEF LoaderIn, Loading
  <2>4. LoadOK'
      BY <1>2, <1>3, <2>1, <2>3 DEF Chain, LoadOK, LoaderIn, Base
  <2> QED BY <2>2, <2>4 DEF Chain, IInv, TypeOK, TypeFlag
<1>6. ~Leads(x)' /\ \A c \in Chunk : c # x => (Leads(c)' <=> Leads(c))
    BY DEF Leads, Base
<1>7. ASSUME NEW d \in Chunk, NEW k, Expects(d, k)
      PROVE  \/ Expects(d, k)'
             \/ Leads(x) /\ k = mem[Base(x)]
             \/ status[x] = "SKIPPED" /\ d = x
  <2>1. CASE Leads(d) /\ k = mem[Base(d)]
      BY <1>6, <2>1 DEF Expects, Base
  <2>2. CASE status[d] = "SKIPPED" /\ LoaderPos # 0 /\ Leads(0) /\ k = mem[Base(0)]
      BY <1>3, <1>6, <2>2, Kinds DEF Expects, Base
  <2>3. CASE k = next /\ (LoaderPos = d \/ (status[d] = "SKIPPED" /\ LoaderPos = 0) \/ Broken)
      BY <1>3, <2>3 DEF Expects
  <2> QED BY <1>7, <2>1, <2>2, <2>3 DEF Expects
<1>8. \A t \in Chunk : LoaderIn({"share"}) /\ t \in loading_idx + i .. loading_idx + needed - 1
                => status[t] = "LOADING" /\ t # x
    BY DEF IInv, RingInv, MarkedLoading
<1>9. LoaderIn({"share"})' <=> LoaderIn({"share"})
    BY DEF LoaderIn
<1> QED BY <1>3, <1>4, <1>5, <1>6, <1>7, <1>8, <1>9

\* The chunks still to be shared.
LEMMA ShareKept ==
    ASSUME IInv, ShareOK,
           UNCHANGED <<mem, loading_idx, needed, i>>, LoaderIn({"share"})' <=> LoaderIn({"share"}),
           \A t \in Chunk : LoaderIn({"share"}) /\ t \in loading_idx + i .. loading_idx + needed - 1
                => (Grouped(t) => Grouped(t)'),
           LoaderIn({"share"}) /\ Hollow => Hollow'
    PROVE  ShareOK'
<1> SUFFICES ASSUME LoaderIn({"share"}), NEW t \in loading_idx + i .. loading_idx + needed - 1
             PROVE  (Grouped(t)' /\ mem[Base(t)] = 0) \/ Hollow'
    BY DEF ShareOK, Base
<1>1. t \in Chunk
  <2>1. loading_idx + needed <= ChunkCount
      BY Indices DEF LoaderIn
  <2>2. loading_idx \in 0 .. ChunkCount /\ needed \in 1 .. ChunkCount /\ i \in 1 .. ChunkCount
      BY Indices
  <2> QED BY <2>1, <2>2, ConstantsAssumption DEF Chunk
<1> QED BY <1>1 DEF ShareOK

\* The replay skips the last chunk of the ring.
LEMMA SkipEmptyKeepsChain ==
    ASSUME IInv, IInv', Chain, R_SkipEmpty
    PROVE  Chain'
<1>1. /\ pc[Replay] = "skipWait" /\ pc'[Replay] = "skipClear" /\ pc'[Loader] = pc[Loader]
      /\ UNCHANGED <<input, current, mem, next, exceed, exiting, skipped_to_first, loading_idx,
                     needed, i, using_idx, boundary, occupied, delivered>>
      /\ status' = [status EXCEPT ![using_idx] = "EMPTY"] /\ j' = using_idx + 1
  <2>1. pc \in [Thread -> LoaderPlaces \union ReplayPlaces] /\ Loader \in Thread /\ Replay \in Thread
      BY DEF IInv, TypeOK, TypeControl, Thread
  <2> QED BY <2>1 DEF R_SkipEmpty, Awake, Goto, Loader, Replay, fileVars, skipVars, loadVars, fullVars,
           resultVars, sharedVars
<1>2. PICK u \in Chunk : u = using_idx
    BY <1>1 DEF IInv, ReplayInv, ReplayIn
<1>3. /\ status[u] = "SKIPPED" /\ status'[u] = "EMPTY" /\ current'[u] = Base(u)
      /\ \A c \in Chunk : c # u => status'[c] = status[c] /\ current'[c] = current[c]
  <2>1. status[u] = "SKIPPED"
      BY <1>1, <1>2 DEF IInv, ReplayInv, ReplayIn
  <2>2. current[u] = Base(u)
      BY <2>1 DEF Chain, BaseOK
  <2> QED BY <1>1, <1>2, <2>1, <2>2, Kinds
<1>4. u = ChunkCount - 1 /\ u # 0
    BY <1>3 DEF Chain, SkipOK, IInv, RingInv
<1>5. /\ ~Using /\ ~Using' /\ ReplayPos = u /\ ReplayPos' = 0
      /\ \A t \in Chunk : ~OwnTail(t) /\ ~OwnTail(t)'
    BY <1>1, <1>2, <1>3, Kinds DEF Using, ReplayPos, ReplayIn, Releasing, Wrapped, OwnTail
<1>6. Delivered' = Delivered /\ Delivered \in Nat /\ next \in Nat
    BY <1>1, Kinds DEF Delivered
<1>7. /\ LoaderPos' = LoaderPos /\ (Broken' <=> Broken)
      /\ BaseOK' /\ FilledOK' /\ LoadOK' /\ exiting' = FALSE
      /\ ~Leads(u)' /\ \A c \in Chunk : c # u => (Leads(c)' <=> Leads(c))
      /\ \A d \in Chunk : \A k : Expects(d, k) =>
           \/ Expects(d, k)'
           \/ Leads(u) /\ k = mem[Base(u)]
           \/ status[u] = "SKIPPED" /\ d = u
      /\ LoaderIn({"share"})' <=> LoaderIn({"share"})
    BY <1>1, <1>3, ReplayTouches
<1>8. ~Leads(u)
    BY <1>3 DEF Leads
<1>9. Expects(u, Delivered + 1)
    BY <1>5 DEF Chain, PosOK
<1>10. Leads(0) => Delivered + 1 < next
    BY LeaderFacts, Kinds DEF Chain
<1>11. \A d \in Chunk : \A k \in Delivered + 2 .. next : Expects(d, k) => Expects(d, k)'
  <2> SUFFICES ASSUME NEW k \in Delivered + 2 .. next, Expects(u, k), ~Broken, LoaderPos # u PROVE FALSE
    <3>1. Broken \/ LoaderPos = u => \A k : k = next => Expects(u, k)'
        BY <1>1, <1>7 DEF Expects
    <3>2. LoaderPos = u => \A k : k # next => ~Expects(u, k) \/ k = mem[Base(0)]
        BY <1>8 DEF Expects
    <3>3. \A k : Expects(u, k) => k = next \/ (Leads(0) /\ k = mem[Base(0)] /\ LoaderPos # 0)
        BY <1>8 DEF Expects
    <3>4. \A k \in Delivered + 2 .. next : Expects(u, k) /\ k # next => FALSE
      <4> SUFFICES ASSUME NEW k \in Delivered + 2 .. next, Expects(u, k), k # next PROVE FALSE
          OBVIOUS
      <4>1. Leads(0) /\ k = mem[Base(0)]
          BY <3>3
      <4>2. Delivered + 1 = mem[Base(0)]
          BY <1>6, <1>8, <1>9, <1>10, <4>1 DEF Expects
      <4> QED BY <1>6, <4>1, <4>2
    <3>5. \A k \in Delivered + 2 .. next : Expects(u, k) => Broken \/ LoaderPos = u
        OBVIOUS
    <3> QED BY <1>7, <1>8, <3>1, <3>4, <3>5
  <2>1. Delivered + 1 # next
      BY <1>6
  <2>2. Leads(0) /\ Delivered + 1 = mem[Base(0)] /\ LoaderPos # 0
      BY <1>8, <1>9, <2>1 DEF Expects
  <2>3. k = mem[Base(0)]
      BY <1>8, <2>2 DEF Expects
  <2> QED BY <1>6, <2>2, <2>3
<1>12. LeadersOK'
  <2>1. \A c \in Chunk : Leads(c)' =>
              /\ Leads(c) /\ current'[c] = current[c]
              /\ \A a \in Base(c) .. current[c] - 1 : mem'[a] = mem[a]
              /\ \A t \in c + 1 .. EndOf(c, current[c]) - 1 :
                    /\ mem'[Base(t)] = 0 /\ ~OwnTail(t)'
                    /\ status'[t] = "READY" \/ (status'[t] = "LOADING" /\ loading_idx' = c)
    <3> SUFFICES ASSUME NEW c \in Chunk, Leads(c), NEW t \in c + 1 .. EndOf(c, current[c]) - 1
                 PROVE  /\ mem[Base(t)] = 0 /\ ~OwnTail(t)'
                        /\ status'[t] = "READY" \/ (status'[t] = "LOADING" /\ loading_idx = c)
        BY <1>1, <1>7
    <3>1. t \in Chunk
        BY LeaderFacts, GroupShape DEF Chain, LeadersOK
    <3>2. mem[Base(t)] = 0 /\ (status[t] = "READY" \/ (status[t] = "LOADING" /\ loading_idx = c))
        BY DEF Chain, LeadersOK, Group
    <3> QED BY <1>3, <1>5, <3>1, <3>2
  <2> QED BY <1>1, <1>6, <1>11, <2>1, LeadersKept DEF Chain
<1>13. UsingOK' /\ ReleaseOK'
    BY <1>1, <1>5 DEF UsingOK, ReleaseOK, ReplayIn, Releasing
<1>14. PosOK'
  <2>1. Expects(0, Delivered + 1)'
    <3>1. CASE Leads(0) /\ Delivered + 1 = mem[Base(0)]
        BY <1>1, <1>4, <1>6, <1>7, <3>1, Kinds DEF Expects, Base
    <3>2. CASE Delivered + 1 = next /\ (LoaderPos = u \/ LoaderPos = 0 \/ Broken)
      <4>1. LoaderPos = 0 \/ Broken
          BY <1>3, <1>4, <1>6, <1>10, <3>2 DEF Chain, SkipOK
      <4> QED BY <1>1, <1>6, <1>7, <3>2, <4>1 DEF Expects
    <3> QED BY <1>8, <1>9, <3>1, <3>2 DEF Expects
  <2> QED BY <1>5, <2>1 DEF PosOK
<1>15. Distinct'
  <2>1. \A a : Pending(a)' => Pending(a)
      BY <1>1, <1>5, <1>7 DEF Pending, Base, Chunk
  <2> QED BY <1>1, <2>1 DEF Chain, Distinct, Address
<1>16. \A c \in Chunk : Grouped(c) => Grouped(c)'
    BY <1>1, <1>5, <1>7, <1>8 DEF Grouped, EndOf, ChunksFor, Base, Chunk
<1>17. ReadyOK'
    BY <1>1, <1>3, <1>7, <1>16 DEF Chain, ReadyOK, Covered, Base, Chunk
<1>18. ShareOK'
  <2>1. Hollow => Hollow'
    <3>1. status'[loading_idx] = "USING" => status[loading_idx] = "USING"
      <4>1. CASE loading_idx \in Chunk
          BY <1>3, <4>1
      <4>2. CASE loading_idx \notin Chunk
          BY <1>1, <1>2, <4>2, Kinds
      <4> QED BY <4>1, <4>2
    <3> QED BY <1>1, <1>7, <3>1 DEF Hollow, Base
  <2> QED BY <1>1, <1>7, <1>16, <2>1, ShareKept DEF Chain
<1>19. SkipOK'
  <2>1. \A c \in Chunk : status'[c] # "SKIPPED"
      BY <1>3, <1>4 DEF Chain, SkipOK
  <2>2. j' = ChunkCount
      BY <1>1, <1>2, <1>4, ConstantsAssumption
  <2> QED BY <1>1, <2>1, <2>2 DEF Chain, SkipOK, LoaderIn, ReplayIn, Chunk
<1> QED BY <1>7, <1>12, <1>13, <1>14, <1>15, <1>17, <1>18, <1>19 DEF Chain

\* Two groups of loaded packets have no chunk in common.
LEMMA LeadersApart ==
    ASSUME IInv, LeadersOK, NEW c \in Chunk, NEW d \in Chunk, c # d, Leads(c), Leads(d)
    PROVE  EndOf(c, current[c]) <= d \/ EndOf(d, current[d]) <= c
<1>1. PICK m \in Nat, n \in Nat : m = current[c] /\ n = current[d]
    BY LeaderFacts
<1>2. m > Base(c) /\ n > Base(d) /\ Group(c, m) /\ Group(d, n)
    BY <1>1, LeaderFacts DEF LeadersOK
<1>3. EndOf(c, m) \in 1 .. ChunkCount /\ EndOf(d, n) \in 1 .. ChunkCount
    BY <1>2, GroupShape
<1>4. c \in Nat /\ d \in Nat
    BY ChunkInMemory
<1>5. d \notin c + 1 .. EndOf(c, m) - 1 /\ c \notin d + 1 .. EndOf(d, n) - 1
    BY <1>2 DEF Group, Leads
<1> QED BY <1>1, <1>3, <1>4, <1>5

\* The replay begins to use a chunk: its packets are those it expects, or it has
\* got all and loading has failed.
LEMMA UseStep ==
    ASSUME IInv, IInv', Chain, R_Use
    PROVE  /\ using_idx \in Chunk /\ status[using_idx] = "READY" /\ ~Using
           /\ \A t \in Chunk : ~OwnTail(t)
           /\ ReplayPos = using_idx
           /\ Expects(using_idx, Delivered + 1)
           /\ Leads(using_idx) => mem[Base(using_idx)] = Delivered + 1 /\ Delivered + 1 < next
           /\ ~Leads(using_idx) =>
                /\ Delivered + 1 = next /\ Broken /\ current[using_idx] <= Base(using_idx)
                /\ \A c \in Chunk : ~Leads(c)
<1>1. pc[Replay] = "locked"
    BY DEF R_Use, At
<1>2. PICK u \in Chunk : u = using_idx
    BY <1>1 DEF IInv, ReplayInv, ReplayIn
<1>3. status[u] = "READY"
    BY <1>1, <1>2 DEF IInv, ReplayInv, ReplayIn
<1>4. /\ ~Using /\ ReplayPos = u /\ \A t \in Chunk : ~OwnTail(t)
    BY <1>1, <1>2, <1>3, Kinds DEF Using, ReplayPos, ReplayIn, Releasing, Wrapped, OwnTail
<1>5. Expects(u, Delivered + 1)
    BY <1>4 DEF Chain, PosOK
<1>6. ASSUME Leads(u) PROVE mem[Base(u)] = Delivered + 1 /\ Delivered + 1 < next
  <2>1. Delivered + 1 < next
      BY <1>6, LeaderFacts DEF Chain
  <2> QED BY <1>3, <1>5, <2>1, Kinds DEF Expects
<1>7. ASSUME ~Leads(u)
      PROVE  /\ Delivered + 1 = next /\ Broken /\ current[u] <= Base(u)
             /\ \A c \in Chunk : ~Leads(c)
  <2>1. Delivered + 1 = next
      BY <1>3, <1>5, <1>7 DEF Expects
  <2>2. \A c \in Chunk : ~Leads(c)
    <3> SUFFICES ASSUME NEW c \in Chunk, Leads(c) PROVE FALSE
        OBVIOUS
    <3>1. Delivered + 1 < next
        BY LeaderFacts DEF Chain
    <3> QED BY <2>1, <3>1, Kinds
  <2>3. Covered(u)
      BY <1>3 DEF Chain, ReadyOK
  <2> QED BY <1>4, <2>1, <2>2, <2>3 DEF Covered, Grouped
<1> QED BY <1>2, <1>3, <1>4, <1>5, <1>6, <1>7

\* It uses the chunk.
LEMMA UseKeepsChain ==
    ASSUME IInv, IInv', Chain, R_Use
    PROVE  Chain'
<1>1. /\ pc[Replay] = "locked" /\ pc'[Replay] = "take" /\ pc'[Loader] = pc[Loader]
      /\ UNCHANGED <<input, mem, next, exceed, exiting, skipped_to_first, loading_idx,
                     needed, i, using_idx, occupied, j, delivered>>
      /\ status' = [status EXCEPT ![using_idx] = "USING"]
      /\ current' = [current EXCEPT ![using_idx] = Base(using_idx)]
      /\ boundary' = current[using_idx]
  <2>1. pc \in [Thread -> LoaderPlaces \union ReplayPlaces] /\ Loader \in Thread /\ Replay \in Thread
      BY DEF IInv, TypeOK, TypeControl, Thread
  <2> QED BY <2>1 DEF R_Use, At, Goto, Loader, Replay, fileVars, skipVars, loadVars, fullVars,
           resultVars, sharedVars
<1>2. PICK u \in Chunk : u = using_idx
    BY UseStep
<1>3. PICK hi \in Nat : hi = current[u]
    BY Kinds
<1>4. /\ status[u] = "READY" /\ status'[u] = "USING" /\ current'[u] = Base(u) /\ boundary' = hi
      /\ \A c \in Chunk : c # u => status'[c] = status[c] /\ current'[c] = current[c]
    BY <1>1, <1>2, <1>3, UseStep, Kinds
<1>5. /\ ~Using /\ Using' /\ ReplayPos = u /\ ReplayPos' = u
      /\ \A t \in Chunk : ~OwnTail(t)
      /\ \A t : OwnTail(t)' <=> hi > Base(u) /\ t \in u + 1 .. EndOf(u, hi) - 1
  <2>1. Using' /\ ReplayPos' = u
      BY <1>1, <1>2, <1>4, Kinds DEF Using, ReplayPos, ReplayIn, Releasing, Wrapped, Chunk
  <2>2. ~Using /\ ReplayPos = u /\ \A t \in Chunk : ~OwnTail(t)
      BY <1>2, UseStep
  <2>3. ~ReplayIn(Releasing)'
      BY <1>1 DEF ReplayIn, Releasing
  <2>4. \A t : OwnTail(t)' <=> boundary' > Base(using_idx') /\ t \in using_idx' + 1 .. EndOf(using_idx', boundary') - 1
      BY <2>1, <2>3 DEF OwnTail, EndOf, ChunksFor, Base
  <2> QED BY <1>1, <1>2, <1>4, <2>1, <2>2, <2>4
<1>6. Delivered' = Delivered /\ Delivered \in Nat /\ next \in Nat
    BY <1>1, Kinds DEF Delivered
<1>7. /\ LoaderPos' = LoaderPos /\ (Broken' <=> Broken)
      /\ BaseOK' /\ FilledOK' /\ LoadOK' /\ exiting' = FALSE
      /\ ~Leads(u)' /\ \A c \in Chunk : c # u => (Leads(c)' <=> Leads(c))
      /\ \A d \in Chunk : \A k : Expects(d, k) =>
           \/ Expects(d, k)'
           \/ Leads(u) /\ k = mem[Base(u)]
           \/ status[u] = "SKIPPED" /\ d = u
      /\ LoaderIn({"share"})' <=> LoaderIn({"share"})
      /\ \A t \in Chunk : LoaderIn({"share"}) /\ t \in loading_idx + i .. loading_idx + needed - 1
                => status[t] = "LOADING" /\ t # u
    BY <1>1, <1>4, ReplayTouches
<1>8. /\ Leads(u) => mem[Base(u)] = Delivered + 1 /\ Delivered + 1 < next
      /\ ~Leads(u) => /\ Delivered + 1 = next /\ Broken /\ hi <= Base(u)
                      /\ \A c \in Chunk : ~Leads(c)
    BY <1>2, <1>3, UseStep
<1>9. \A d \in Chunk : \A k \in Delivered + 2 .. next : Expects(d, k) => Expects(d, k)'
    BY <1>4, <1>6, <1>7, <1>8
<1>10. u \in Nat /\ Base(u) \in Nat
    BY ChunkInMemory
<1>11. Leads(u) => /\ hi > Base(u) /\ Group(u, hi) /\ Linked(u, Base(u), hi)
                   /\ EndOf(u, hi) \in 1 .. ChunkCount
                   /\ Base(u) .. hi - 1 \subseteq Address
    BY <1>3, LeaderFacts, GroupShape DEF Chain, LeadersOK
<1>12. LeadersOK'
  <2>1. \A c \in Chunk : Leads(c)' =>
              /\ Leads(c) /\ current'[c] = current[c]
              /\ \A a \in Base(c) .. current[c] - 1 : mem'[a] = mem[a]
              /\ \A t \in c + 1 .. EndOf(c, current[c]) - 1 :
                    /\ mem'[Base(t)] = 0 /\ ~OwnTail(t)'
                    /\ status'[t] = "READY" \/ (status'[t] = "LOADING" /\ loading_idx' = c)
    <3> SUFFICES ASSUME NEW c \in Chunk, Leads(c), c # u, NEW t \in c + 1 .. EndOf(c, current[c]) - 1
                 PROVE  /\ mem[Base(t)] = 0 /\ ~OwnTail(t)'
                        /\ status'[t] = "READY" \/ (status'[t] = "LOADING" /\ loading_idx = c)
        BY <1>1, <1>4, <1>7
    <3>1. t \in Chunk /\ t \in Nat /\ c \in Nat
        BY LeaderFacts, GroupShape, ChunkInMemory DEF Chain, LeadersOK
    <3>2. mem[Base(t)] = 0 /\ (status[t] = "READY" \/ (status[t] = "LOADING" /\ loading_idx = c))
        BY DEF Chain, LeadersOK, Group
    <3>3. Leads(u)
        BY <1>8
    <3>4. EndOf(c, current[c]) <= u \/ EndOf(u, hi) <= c
        BY <1>3, <3>3, LeadersApart DEF Chain
    <3>5. EndOf(c, current[c]) \in Int /\ EndOf(u, hi) \in Int
        BY <1>11, <3>3, LeaderFacts, GroupShape DEF Chain, LeadersOK
    <3>6. t # u /\ t \notin u + 1 .. EndOf(u, hi) - 1
        BY <1>10, <3>1, <3>3, <3>2, <3>4, <3>5 DEF Leads
    <3> QED BY <1>4, <1>5, <3>1, <3>2, <3>6
  <2> QED BY <1>1, <1>6, <1>9, <2>1, LeadersKept DEF Chain
<1>13. UsingOK'
  <2>1. CASE ~Leads(u)
    <3>1. Starved'
        BY <1>1, <1>2, <1>4, <1>6, <1>7, <1>8, <2>1 DEF Starved, ReplayIn, Base
    <3> QED BY <3>1 DEF UsingOK
  <2>2. CASE Leads(u)
    <3>1. PICK lo \in Nat : lo = Base(u)
        BY <1>10
    <3>2. Linked(u, lo, hi)'
        BY <1>1, <1>6, <1>9, <1>11, <2>2, <3>1, LinkedKept
    <3>3. Group(u, hi)'
      <4>1. Group(u, hi)
          BY <1>11, <2>2
      <4>2. \A t \in u + 1 .. EndOf(u, hi) - 1 : t \in Chunk /\ t # u
        <5>1. u + 1 .. EndOf(u, hi) - 1 \subseteq Chunk
            BY <1>11, <2>2, GroupShape
        <5> QED BY <1>10, <5>1
      <4> QED BY <1>1, <1>4, <4>1, <4>2 DEF Group, EndOf, ChunksFor, Base
    <3>4. /\ using_idx' = u /\ boundary' = hi /\ current'[using_idx'] = lo /\ hi > lo /\ lo <= hi
          /\ mem'[lo] = Delivered' + 1 /\ ~ReplayIn({"emptied"})' /\ lo = Base(u)
        BY <1>1, <1>2, <1>4, <1>6, <1>8, <1>11, <2>2, <3>1 DEF ReplayIn
    <3>5. hi # lo /\ lo < hi
        BY <3>4
    <3>6. (/\ boundary > Base(using_idx)
           /\ Group(using_idx, boundary)
           /\ current[using_idx] <= boundary
           /\ Linked(using_idx, current[using_idx], boundary))'
      <4>1. boundary' > Base(using_idx') /\ current'[using_idx'] <= boundary'
          BY <3>4
      <4>2. Group(using_idx, boundary)'
          BY <3>3, <3>4 DEF Group, EndOf, ChunksFor, Base
      <4>3. Linked(using_idx, current[using_idx], boundary)'
          BY <3>2, <3>4 DEF Linked, EndOf, ChunksFor, Base, Wrapped
      <4> QED BY <4>1, <4>2, <4>3 DEF Base
    <3> QED BY <3>4, <3>5, <3>6 DEF UsingOK
  <2> QED BY <2>1, <2>2
<1>14. ReleaseOK' /\ PosOK'
    BY <1>1, <1>5 DEF ReleaseOK, PosOK, ReplayIn, Releasing
<1>15. Distinct'
  <2>1. \A a \in Address : Pending(a)' => Pending(a)
    <3> SUFFICES ASSUME NEW a \in Address, Pending(a)' PROVE Pending(a)
        OBVIOUS
    <3>1. CASE \E c \in Chunk : Leads(c)' /\ a \in Base(c) .. current'[c] - 1
        BY <1>4, <1>7, <3>1 DEF Pending
    <3>2. CASE a \in Base(u) .. hi - 1
      <4>1. Leads(u)
          BY <1>3, <1>8, <1>10, <3>2
      <4> QED BY <1>3, <3>2, <4>1 DEF Pending
    <3> QED BY <1>1, <1>2, <1>4, <3>1, <3>2 DEF Pending, Base, Chunk
  <2> QED BY <1>1, <2>1 DEF Chain, Distinct, Address
<1>16. \A c \in Chunk : c # u /\ Grouped(c) => Grouped(c)'
  <2> SUFFICES ASSUME NEW c \in Chunk, c # u, Grouped(c) PROVE Grouped(c)'
      OBVIOUS
  <2>1. PICK h \in Chunk : Leads(h) /\ c \in h .. EndOf(h, current[h]) - 1
      BY <1>5 DEF Grouped
  <2>2. CASE h = u
    <3>1. hi > Base(u) /\ EndOf(u, hi) \in 1 .. ChunkCount
        BY <1>11, <2>1, <2>2
    <3>2. c \in Nat /\ c \in u .. EndOf(u, hi) - 1
        BY <1>3, <2>1, <2>2, ChunkInMemory
    <3>3. c \in u + 1 .. EndOf(u, hi) - 1
        BY <1>10, <3>1, <3>2
    <3> QED BY <1>5, <3>1, <3>3 DEF Grouped
  <2>3. CASE h # u
    <3>1. Leads(h)' /\ current'[h] = current[h]
        BY <1>4, <1>7, <2>1, <2>3
    <3> QED BY <2>1, <3>1 DEF Grouped, EndOf, ChunksFor, Base, Chunk
  <2> QED BY <2>2, <2>3
<1>17. ReadyOK'
    BY <1>1, <1>4, <1>7, <1>16 DEF Chain, ReadyOK, Covered, Base, Chunk
<1>18. ShareOK'
  <2>1. LoaderIn({"share"}) /\ Hollow => Hollow'
    <3> SUFFICES ASSUME LoaderIn({"share"}), Hollow PROVE Hollow'
        OBVIOUS
    <3>1. PICK l \in Chunk : l = loading_idx
        BY Indices DEF LoaderIn
    <3>2. Broken /\ current[l] = Base(l)
        BY <3>1 DEF Hollow
    <3>3. current'[l] = Base(l)
        BY <1>4, <3>2
    <3>4. status'[l] = "USING" => boundary' = Base(l)
      <4>1. status[l] # "USING"
          BY <1>5 DEF IInv, RingInv, Using
      <4> QED BY <1>3, <1>4, <3>2, <4>1
    <3> QED BY <1>1, <1>7, <3>1, <3>2, <3>3, <3>4 DEF Hollow, Base
  <2>2. \A t \in Chunk : LoaderIn({"share"}) /\ t \in loading_idx + i .. loading_idx + needed - 1
                => (Grouped(t) => Grouped(t)')
      BY <1>7, <1>16
  <2> QED BY <1>1, <1>7, <2>1, <2>2, ShareKept DEF Chain
<1>19. SkipOK'
  <2>1. ASSUME NEW c \in Chunk, status'[c] = "SKIPPED"
        PROVE  /\ c = ChunkCount - 1
               /\ \/ LoaderPos' = 0
                  \/ LoaderPos' > 0 /\ LoaderPos' <= ReplayPos' /\ Leads(0)'
                  \/ Broken'
    <3>1. status[c] = "SKIPPED"
        BY <1>4, <2>1
    <3>2. LoaderPos > 0 /\ LoaderPos <= u => u # 0
        BY Positions, Kinds
    <3> QED BY <1>5, <1>7, <3>1, <3>2, Kinds DEF Chain, SkipOK
  <2> QED BY <1>1, <1>5, <2>1 DEF Chain, SkipOK, LoaderIn, ReplayIn, Chunk
<1> QED BY <1>7, <1>12, <1>13, <1>14, <1>15, <1>17, <1>18, <1>19 DEF Chain

\* A group of loaded packets has no chunk and no packet in common with the one
\* the replay is using.
LEMMA UsingApart ==
    ASSUME IInv, LeadersOK, UsingOK, Using, ~Starved, NEW c \in Chunk, Leads(c)
    PROVE  /\ EndOf(c, current[c]) <= using_idx \/ EndOf(using_idx, boundary) <= c
           /\ \A a \in Base(c) .. current[c] - 1 : a \notin current[using_idx] .. boundary - 1
<1>1. PICK u \in Chunk, hi \in Nat, n \in Nat : u = using_idx /\ hi = boundary /\ n = current[c]
    BY UsingFacts, LeaderFacts
<1>2. /\ hi > Base(u) /\ Group(u, hi) /\ n > Base(c) /\ Group(c, n)
      /\ Base(u) <= current[u] /\ current[u] \in Nat
    BY <1>1, UsingFacts, LeaderFacts DEF LeadersOK
<1>3. PICK e \in Nat, f \in Nat : e = EndOf(c, n) /\ f = EndOf(u, hi)
    BY <1>2, GroupShape
<1>4. /\ n < Base(e) /\ hi < Base(f) /\ e > c /\ f > u
      /\ Base(e) \in Nat /\ Base(f) \in Nat /\ Base(c) \in Nat /\ Base(u) \in Nat
    BY <1>2, <1>3, GroupShape
<1>5. u \in Nat /\ c \in Nat /\ c # u
    BY <1>1, ChunkInMemory DEF Using, Leads
<1>6. u \notin c + 1 .. e - 1 /\ c \notin u + 1 .. f - 1
    BY <1>1, <1>2, <1>3 DEF Group, Leads, Using
<1>7. e <= u \/ f <= c
    BY <1>3, <1>4, <1>5, <1>6
<1>8. ASSUME NEW a \in Base(c) .. n - 1 PROVE a \notin current[u] .. hi - 1
  <2>1. CASE e <= u
    <3>1. Base(e) <= Base(u)
        BY <1>3, <1>5, <2>1, BaseMonotone
    <3> QED BY <1>2, <1>4, <3>1
  <2>2. CASE f <= c
    <3>1. Base(f) <= Base(c)
        BY <1>3, <1>5, <2>2, BaseMonotone
    <3> QED BY <1>2, <1>4, <3>1
  <2> QED BY <1>7, <2>1, <2>2
<1> QED BY <1>1, <1>3, <1>7, <1>8

\* Links stay when a packet that is not among them is taken.
LEMMA LinkedTaken ==
    ASSUME IInv, IInv', input' = input, next' = next, mem' = mem, Delivered' = Delivered + 1,
           NEW c \in Chunk, NEW lo \in Nat, NEW hi \in Nat, Linked(c, lo, hi),
           lo .. hi - 1 \subseteq Address, EndOf(c, hi) \in 1 .. ChunkCount,
           \A a \in lo .. hi - 1 : mem[a] # Delivered + 1,
           \A d \in Chunk : \A k \in Delivered + 2 .. next : Expects(d, k) => Expects(d, k)'
    PROVE  Linked(c, lo, hi)'
<1> SUFFICES ASSUME NEW a \in lo .. hi - 1, mem[a] # 0
             PROVE  /\ mem[a] \in Delivered + 2 .. next - 1
                    /\ a + input.size[mem[a]] <= hi
                    /\ a + input.size[mem[a]] < hi => mem[a + input.size[mem[a]]] = mem[a] + 1
                    /\ a + input.size[mem[a]] = hi => Expects(Wrapped(EndOf(c, hi)), mem[a] + 1)'
  <2>1. Delivered' + 1 = Delivered + 2
      BY Kinds
  <2> QED BY <2>1 DEF Linked, EndOf, ChunksFor, Base, Wrapped
<1>1. /\ mem[a] \in Delivered + 1 .. next - 1
      /\ a + input.size[mem[a]] <= hi
      /\ a + input.size[mem[a]] < hi => mem[a + input.size[mem[a]]] = mem[a] + 1
      /\ a + input.size[mem[a]] = hi => Expects(Wrapped(EndOf(c, hi)), mem[a] + 1)
    BY DEF Linked
<1>2. Delivered \in Nat /\ next \in Nat
    BY Kinds
<1>3. mem[a] \in Delivered + 2 .. next - 1 /\ mem[a] + 1 \in Delivered + 2 .. next
    BY <1>1, <1>2
<1>4. Wrapped(EndOf(c, hi)) \in Chunk
    BY Kinds DEF Wrapped
<1> QED BY <1>1, <1>3, <1>4

\* Where the replay takes a packet lies the one it needs, unless loading has
\* failed before.
LEMMA TakePlace ==
    ASSUME IInv, Chain, ReplayIn({"take"})
    PROVE  /\ using_idx \in Chunk /\ Using /\ status[using_idx] = "USING"
           /\ Starved => input.bad # 0 /\ Delivered + 1 = input.bad
           /\ ~Starved => /\ current[using_idx] \in Address /\ current[using_idx] < boundary
                          /\ mem[current[using_idx]] = Delivered + 1
                          /\ HeaderAt(current[using_idx]) = Delivered + 1
<1>1. using_idx \in Chunk /\ status[using_idx] = "USING" /\ Using
    BY DEF IInv, ReplayInv, ReplayIn, Using
<1>2. Starved => input.bad # 0 /\ Delivered + 1 = input.bad
    BY Kinds DEF Starved, Broken
<1>3. ASSUME ~Starved
      PROVE  /\ current[using_idx] \in Address /\ current[using_idx] < boundary
             /\ mem[current[using_idx]] = Delivered + 1
  <2>1. /\ current[using_idx] \in Nat /\ boundary \in Nat /\ current[using_idx] <= boundary
        /\ current[using_idx] .. boundary - 1 \subseteq Address
      BY <1>1, <1>3, UsingFacts DEF Chain
  <2>2. ~ReplayIn({"emptied"})
      BY DEF ReplayIn
  <2>3. current[using_idx] # boundary
      BY <1>1, <1>3, <2>2 DEF Chain, UsingOK
  <2>4. current[using_idx] < boundary /\ current[using_idx] \in current[using_idx] .. boundary - 1
      BY <2>1, <2>3
  <2>5. mem[current[using_idx]] = Delivered + 1
      BY <1>1, <1>3, <2>4 DEF Chain, UsingOK
  <2> QED BY <2>1, <2>4, <2>5
<1> QED BY <1>1, <1>2, <1>3 DEF HeaderAt

\* A packet is taken.
LEMMA TakeStep ==
    ASSUME IInv, IInv', Chain, R_Take, Owes',
           NEW u \in Chunk, u = using_idx, NEW at \in Nat, at = current[u],
           NEW hi \in Nat, hi = boundary, NEW at2 \in Nat, at2 = current'[u]
    PROVE  /\ ~Starved /\ Using /\ status[u] = "USING" /\ mem[at] = Delivered + 1 /\ at < at2
           /\ Delivered' = Delivered + 1 /\ at2 <= hi
           /\ UNCHANGED <<input, status, mem, next, exceed, exiting, skipped_to_first, loading_idx,
                          needed, i, using_idx, boundary, occupied, j>>
           /\ pc'[Loader] = pc[Loader]
           /\ \A c \in Chunk : c # u => current'[c] = current[c]
           /\ at2 < hi => ReplayIn({"call"})' /\ mem[at2] = Delivered + 2
           /\ at2 = hi => ReplayIn({"emptied"})'
                          /\ Expects(Wrapped(EndOf(u, hi)), Delivered + 2)
           /\ ReplayIn({"call", "emptied"})' /\ ReplayIn({"take"})
<1>1. pc \in [Thread -> LoaderPlaces \union ReplayPlaces] /\ Loader \in Thread /\ Replay \in Thread
    BY DEF IInv, TypeOK, TypeControl, Thread
<1>2. ReplayIn({"take"})
    BY DEF R_Take, At, ReplayIn
<1>3. /\ UNCHANGED <<input, status, mem, next, exceed, exiting, skipped_to_first, loading_idx,
                     needed, i, using_idx, boundary, occupied, j>>
      /\ pc'[Loader] = pc[Loader]
      /\ delivered' = Append(delivered, HeaderAt(current[using_idx]))
      /\ current' = [current EXCEPT ![using_idx] = @ + input.size[HeaderAt(current[using_idx])]]
      /\ pc'[Replay] = IF current'[using_idx] >= boundary THEN "emptied" ELSE "call"
    BY <1>1 DEF R_Take, Goto, Loader, Replay, fileVars, skipVars, loadVars, fullVars, sharedVars
<1>4. Delivered' = Delivered + 1 /\ Delivered \in Nat
  <2>1. delivered \in Seq(0 .. PacketCount)
      BY DEF IInv, TypeOK, TypeFile
  <2>2. HeaderAt(current[using_idx]) \in 0 .. PacketCount
      BY Kinds DEF HeaderAt
  <2> QED BY <1>3, <2>1, <2>2 DEF Delivered
<1>5. ~Starved
  <2>1. Starved => input.bad # 0 /\ Delivered + 1 = input.bad
      BY <1>2, TakePlace
  <2> QED BY <1>3, <1>4, <2>1 DEF Owes
<1>6. /\ Using /\ status[u] = "USING" /\ at \in Address /\ at < hi /\ mem[at] = Delivered + 1
      /\ HeaderAt(at) = Delivered + 1
    BY <1>2, <1>5, TakePlace
<1>7. mem[at] \in 1 .. PacketCount /\ input.size[mem[at]] \in Nat \ {0}
    BY <1>4, <1>6, Kinds
<1>8. at2 = at + input.size[mem[at]] /\ \A c \in Chunk : c # u => current'[c] = current[c]
    BY <1>3, <1>6, Kinds
<1>9. Linked(u, at, hi)
    BY <1>5, <1>6 DEF Chain, UsingOK
<1>10. at \in at .. hi - 1 /\ mem[at] # 0
    BY <1>6, <1>7
<1>11. /\ at2 <= hi
       /\ at2 < hi => mem[at2] = mem[at] + 1
       /\ at2 = hi => Expects(Wrapped(EndOf(u, hi)), mem[at] + 1)
    BY <1>8, <1>9, <1>10 DEF Linked
<1>12. mem[at] + 1 = Delivered + 2 /\ at < at2
    BY <1>4, <1>6, <1>7, <1>8
<1> QED BY <1>2, <1>3, <1>4, <1>5, <1>6, <1>8, <1>11, <1>12 DEF ReplayIn

\* It is the one that had to come, and the next one comes after it.
LEMMA TakeKeepsChain ==
    ASSUME IInv, IInv', Chain, R_Take, Owes'
    PROVE  Chain'
<1>1. ReplayIn({"take"})
    BY DEF R_Take, At, ReplayIn
<1>2. PICK u \in Chunk : u = using_idx
    BY <1>1, TakePlace
<1>3. PICK at \in Nat, hi \in Nat, at2 \in Nat : at = current[u] /\ hi = boundary /\ at2 = current'[u]
  <2>1. current'[u] \in Nat
      BY <1>2 DEF IInv, TypeOK, TypeRing, Chunk
  <2> QED BY <2>1, Kinds, Indices
<1>4. /\ ~Starved /\ Using /\ status[u] = "USING" /\ mem[at] = Delivered + 1 /\ at < at2
      /\ Delivered' = Delivered + 1 /\ at2 <= hi
      /\ UNCHANGED <<input, status, mem, next, exceed, exiting, skipped_to_first, loading_idx,
                     needed, i, using_idx, boundary, occupied, j>>
      /\ pc'[Loader] = pc[Loader]
      /\ \A c \in Chunk : c # u => current'[c] = current[c]
      /\ at2 < hi => ReplayIn({"call"})' /\ mem[at2] = Delivered + 2
      /\ at2 = hi => ReplayIn({"emptied"})'
                     /\ Expects(Wrapped(EndOf(u, hi)), Delivered + 2)
      /\ ReplayIn({"call", "emptied"})'
    BY <1>2, <1>3, TakeStep
<1>5. /\ hi > Base(u) /\ Group(u, hi) /\ EndOf(u, hi) \in 1 .. ChunkCount
      /\ Wrapped(EndOf(u, hi)) \in Chunk /\ Base(u) \in Nat /\ Base(u) <= at /\ at <= hi
      /\ at .. hi - 1 \subseteq Address /\ Linked(u, at, hi)
    BY <1>2, <1>3, <1>4, UsingFacts DEF Chain, UsingOK
<1>6. Delivered \in Nat /\ next \in Nat
    BY Kinds
<1>7. /\ LoaderPos' = LoaderPos /\ (Broken' <=> Broken)
      /\ BaseOK' /\ FilledOK' /\ LoadOK' /\ exiting' = FALSE
      /\ ~Leads(u)' /\ \A c \in Chunk : c # u => (Leads(c)' <=> Leads(c))
      /\ \A d \in Chunk : \A k : Expects(d, k) =>
           \/ Expects(d, k)'
           \/ Leads(u) /\ k = mem[Base(u)]
           \/ status[u] = "SKIPPED" /\ d = u
      /\ LoaderIn({"share"})' <=> LoaderIn({"share"})
      /\ \A t \in Chunk : LoaderIn({"share"}) /\ t \in loading_idx + i .. loading_idx + needed - 1
                => status[t] = "LOADING" /\ t # u
    BY <1>4, ReplayTouches
<1>8. ~Leads(u) /\ \A c \in Chunk : Leads(c)' <=> Leads(c)
    BY <1>4, <1>7 DEF Leads
<1>9. \A d \in Chunk : \A k : Expects(d, k) => Expects(d, k)'
    BY <1>4, <1>7, <1>8
<1>10. /\ Using' /\ ReplayPos' = ReplayPos /\ ~ReplayIn(Releasing \union {"skipClear"})'
       /\ \A t \in Chunk : OwnTail(t)' <=> OwnTail(t)
  <2>1. Using' /\ ~ReplayIn(Releasing \union {"skipClear"})' /\ ~ReplayIn(Releasing \union {"skipClear"})
      BY <1>1, <1>4 DEF Using, ReplayIn, Releasing, Chunk
  <2>2. ReplayPos' = ReplayPos
      BY <1>4, <2>1 DEF ReplayPos, ReplayIn, Releasing, Wrapped
  <2>3. \A t \in Chunk : OwnTail(t)' <=> OwnTail(t)
      BY <1>4, <2>1 DEF OwnTail, EndOf, ChunksFor, Base, ReplayIn, Releasing
  <2> QED BY <2>1, <2>2, <2>3
<1>11. \A a \in Address : Pending(a) /\ a # at => mem[a] # Delivered + 1
  <2>1. at \in Address /\ Pending(at)
    <3>1. at \in at .. hi - 1
        BY <1>4, <1>5
    <3> QED BY <1>2, <1>3, <1>4, <1>5, <3>1 DEF Pending
  <2>2. mem[at] # 0
      BY <1>4, <1>6
  <2> QED BY <1>4, <2>1, <2>2 DEF Chain, Distinct
<1>12. LeadersOK'
  <2> SUFFICES ASSUME NEW c \in Chunk, Leads(c), c # u
               PROVE  (/\ Group(c, current[c])
                       /\ Linked(c, Base(c), current[c])
                       /\ \A t \in c + 1 .. EndOf(c, current[c]) - 1 : ~OwnTail(t))'
      BY <1>7, <1>8 DEF LeadersOK, Chunk
  <2>1. PICK lo \in Nat, n \in Nat : lo = Base(c) /\ n = current[c]
      BY LeaderFacts DEF Chain
  <2>2. /\ n > lo /\ Group(c, n) /\ Linked(c, lo, n) /\ current'[c] = n
        /\ \A t \in c + 1 .. EndOf(c, n) - 1 : ~OwnTail(t)
      BY <1>4, <2>1, LeaderFacts DEF Chain, LeadersOK
  <2>3. /\ EndOf(c, n) \in 1 .. ChunkCount /\ lo .. n - 1 \subseteq Address
        /\ c + 1 .. EndOf(c, n) - 1 \subseteq Chunk
      BY <2>1, <2>2, GroupShape
  <2>4. \A a \in lo .. n - 1 : Pending(a) /\ a # at
    <3>1. \A a \in lo .. n - 1 : a \notin at .. hi - 1
        BY <1>2, <1>3, <1>4, <2>1, UsingApart DEF Chain
    <3>2. at \in at .. hi - 1
        BY <1>4, <1>5
    <3>3. \A a \in lo .. n - 1 : Pending(a)
        BY <2>1 DEF Pending
    <3> QED BY <3>1, <3>2, <3>3
  <2>5. \A a \in lo .. n - 1 : mem[a] # Delivered + 1
      BY <1>11, <2>3, <2>4
  <2>6. Linked(c, lo, n)'
      BY <1>4, <1>9, <2>2, <2>3, <2>5, LinkedTaken
  <2>7. Group(c, n)'
      BY <1>4, <2>2 DEF Group, EndOf, ChunksFor, Base
  <2>8. \A t \in c + 1 .. EndOf(c, n) - 1 : ~OwnTail(t)'
      BY <1>10, <2>2, <2>3
  <2> QED BY <2>1, <2>2, <2>6, <2>7, <2>8 DEF Group, Linked, EndOf, ChunksFor, Base, Wrapped
<1>13. UsingOK'
  <2>1. at2 .. hi - 1 \subseteq at .. hi - 1
      BY <1>4
  <2>2. Linked(u, at2, hi)
      BY <1>5, <2>1 DEF Linked
  <2>3. at2 .. hi - 1 \subseteq Address
      BY <1>5, <2>1
  <2>4. \A a \in at2 .. hi - 1 : Pending(a) /\ a # at
      BY <1>2, <1>3, <1>4, <2>1 DEF Pending
  <2>5. \A a \in at2 .. hi - 1 : mem[a] # Delivered + 1
      BY <1>11, <2>3, <2>4
  <2>6. Linked(u, at2, hi)'
      BY <1>4, <1>5, <1>9, <2>2, <2>3, <2>5, LinkedTaken
  <2>7. Group(u, hi)'
      BY <1>4, <1>5 DEF Group, EndOf, ChunksFor, Base
  <2>8. /\ using_idx' = u /\ boundary' = hi /\ current'[using_idx'] = at2
        /\ Delivered' + 1 = Delivered + 2
      BY <1>2, <1>3, <1>4, <1>6
  <2>9. at2 < hi => ~ReplayIn({"emptied"})' /\ mem'[at2] = Delivered' + 1
      BY <1>4, <2>8 DEF ReplayIn
  <2>10. at2 = hi => ReplayIn({"emptied"})' /\ Expects(Wrapped(EndOf(using_idx, boundary)), Delivered + 1)'
    <3>1. PICK d \in Chunk, k \in Nat : d = Wrapped(EndOf(u, hi)) /\ k = Delivered + 2
        BY <1>5, <1>6
    <3>2. Wrapped(EndOf(using_idx, boundary))' = d
        BY <2>8, <3>1 DEF EndOf, ChunksFor, Base, Wrapped
    <3>3. at2 = hi => ReplayIn({"emptied"})' /\ Expects(d, k)'
        BY <1>4, <1>9, <3>1
    <3> QED BY <2>8, <3>1, <3>2, <3>3 DEF Expects, Base
  <2>11. (/\ boundary > Base(using_idx)
          /\ Group(using_idx, boundary)
          /\ Linked(using_idx, current[using_idx], boundary))'
      BY <1>5, <2>6, <2>7, <2>8 DEF Group, Linked, EndOf, ChunksFor, Base, Wrapped
  <2> QED BY <1>4, <2>8, <2>9, <2>10, <2>11 DEF UsingOK
<1>14. ReleaseOK' /\ PosOK'
    BY <1>10 DEF ReleaseOK, PosOK, ReplayIn
<1>15. Distinct'
  <2>1. \A a \in Address : Pending(a)' => Pending(a)
    <3> SUFFICES ASSUME NEW a \in Address, Pending(a)' PROVE Pending(a)
        OBVIOUS
    <3>1. CASE \E c \in Chunk : Leads(c)' /\ a \in Base(c) .. current'[c] - 1
        BY <1>4, <1>7, <1>8, <3>1 DEF Pending
    <3>2. CASE a \in at2 .. hi - 1
      <4>1. a \in at .. hi - 1
          BY <1>4, <3>2
      <4> QED BY <1>2, <1>3, <1>4, <4>1 DEF Pending
    <3> QED BY <1>2, <1>3, <1>4, <3>1, <3>2 DEF Pending, Base, Chunk
  <2> QED BY <1>4, <2>1 DEF Chain, Distinct, Address
<1>16. \A c \in Chunk : Grouped(c) => Grouped(c)'
  <2> SUFFICES ASSUME NEW c \in Chunk, Grouped(c), ~OwnTail(c) PROVE Grouped(c)'
      BY <1>10 DEF Grouped
  <2>1. PICK h \in Chunk : Leads(h) /\ c \in h .. EndOf(h, current[h]) - 1
      BY DEF Grouped
  <2>2. Leads(h)' /\ current'[h] = current[h]
      BY <1>4, <1>8, <2>1
  <2> QED BY <2>1, <2>2 DEF Grouped, EndOf, ChunksFor, Base, Chunk
<1>17. ReadyOK'
    BY <1>4, <1>7, <1>16 DEF Chain, ReadyOK, Covered, Base, Chunk
<1>18. ShareOK'
  <2>1. LoaderIn({"share"}) /\ Hollow => Hollow'
    <3> SUFFICES ASSUME LoaderIn({"share"}), Hollow PROVE Hollow'
        OBVIOUS
    <3>1. PICK l \in Chunk : l = loading_idx
        BY Indices DEF LoaderIn
    <3>2. Broken /\ current[l] = Base(l) /\ (status[l] = "USING" => boundary = Base(l))
        BY <3>1 DEF Hollow
    <3>3. l # u
        BY <1>3, <1>4, <1>5, <3>2
    <3>4. status[l] # "USING"
        BY <1>2, <3>3 DEF IInv, RingInv
    <3> QED BY <1>4, <1>7, <3>1, <3>2, <3>3, <3>4 DEF Hollow, Base
  <2> QED BY <1>4, <1>7, <1>16, <2>1, ShareKept DEF Chain
<1>19. SkipOK'
    BY <1>4, <1>7, <1>8, <1>10, Kinds DEF Chain, SkipOK, LoaderIn, ReplayIn, Chunk
<1> QED BY <1>7, <1>12, <1>13, <1>14, <1>15, <1>17, <1>18, <1>19 DEF Chain

\* The last packet of a chunk has been taken: the replay goes on behind it.
LEMMA EmptiedStep ==
    ASSUME IInv, IInv', Chain, R_Emptied,
           NEW u \in Chunk, u = using_idx, NEW hi \in Nat, hi = boundary, NEW e, e = EndOf(u, hi)
    PROVE  /\ status[u] = "USING" /\ Using /\ ReplayPos = u /\ hi > Base(u) /\ Group(u, hi)
           /\ e \in 1 .. ChunkCount /\ e > u /\ Wrapped(e) \in Chunk
           /\ Expects(Wrapped(e), Delivered + 1)
           /\ UNCHANGED <<input, mem, next, exceed, exiting, skipped_to_first, loading_idx,
                          needed, i, using_idx, boundary, delivered>>
           /\ pc'[Loader] = pc[Loader] /\ pc'[Replay] = "release"
           /\ status'[u] = "EMPTY" /\ current'[u] = Base(u)
           /\ \A c \in Chunk : c # u => status'[c] = status[c] /\ current'[c] = current[c]
           /\ using_idx + occupied' = e /\ j' = u + 1
<1>1. pc[Replay] = "emptied" /\ ReplayIn({"emptied"}) /\ ~ReplayIn({"take"})
    BY DEF R_Emptied, At, ReplayIn
<1>2. status[u] = "USING" /\ Using /\ ReplayPos = u /\ ~Starved
    BY <1>1, UsingPlace DEF IInv, ReplayInv, ReplayIn, Using, Starved
<1>3. /\ hi > Base(u) /\ Group(u, hi) /\ current[u] <= hi /\ current[u] \in Nat
      /\ e \in 1 .. ChunkCount /\ e > u /\ Wrapped(e) \in Chunk
    BY <1>2, UsingFacts DEF Chain
<1>4. current[u] = hi /\ Expects(Wrapped(e), Delivered + 1)
  <2>1. ~(current[u] < hi)
      BY <1>1, <1>2 DEF Chain, UsingOK
  <2>2. current[u] = hi
      BY <1>3, <2>1
  <2> QED BY <1>2, <2>2 DEF Chain, UsingOK
<1>5. /\ UNCHANGED <<input, mem, next, exceed, exiting, skipped_to_first, loading_idx,
                     needed, i, using_idx, boundary, delivered>>
      /\ pc'[Loader] = pc[Loader] /\ pc'[Replay] = "release"
      /\ status' = [status EXCEPT ![using_idx] = "EMPTY"]
      /\ current' = [current EXCEPT ![using_idx] = Base(using_idx)]
      /\ occupied' = ChunksFor(current[using_idx] - Base(using_idx)) /\ j' = using_idx + 1
  <2>1. pc \in [Thread -> LoaderPlaces \union ReplayPlaces] /\ Loader \in Thread /\ Replay \in Thread
      BY DEF IInv, TypeOK, TypeControl, Thread
  <2> QED BY <2>1 DEF R_Emptied, Goto, Loader, Replay, fileVars, skipVars, loadVars, fullVars,
           resultVars, sharedVars
<1>6. using_idx + occupied' = e
    BY <1>4, <1>5 DEF EndOf
<1> QED BY <1>2, <1>3, <1>4, <1>5, <1>6, Kinds

\* It gives its first chunk back.
LEMMA EmptiedKeepsChain ==
    ASSUME IInv, IInv', Chain, R_Emptied
    PROVE  Chain'
<1>1. PICK u \in Chunk : u = using_idx
  <2>1. ReplayIn({"emptied"})
      BY DEF R_Emptied, At, ReplayIn
  <2> QED BY <2>1 DEF IInv, ReplayInv, ReplayIn
<1>2. PICK hi \in Nat : hi = boundary
    BY Indices
<1>3. PICK e : e = EndOf(u, hi)
    OBVIOUS
<1>4. /\ status[u] = "USING" /\ Using /\ ReplayPos = u /\ hi > Base(u) /\ Group(u, hi)
      /\ e \in 1 .. ChunkCount /\ e > u /\ Wrapped(e) \in Chunk
      /\ Expects(Wrapped(e), Delivered + 1)
      /\ UNCHANGED <<input, mem, next, exceed, exiting, skipped_to_first, loading_idx,
                     needed, i, using_idx, boundary, delivered>>
      /\ pc'[Loader] = pc[Loader] /\ pc'[Replay] = "release"
      /\ status'[u] = "EMPTY" /\ current'[u] = Base(u)
      /\ \A c \in Chunk : c # u => status'[c] = status[c] /\ current'[c] = current[c]
      /\ using_idx + occupied' = e /\ j' = u + 1
    BY <1>1, <1>2, <1>3, EmptiedStep
<1>5. u \in Nat /\ Delivered' = Delivered /\ e \in Nat
    BY <1>4, ChunkInMemory, ConstantsAssumption DEF Delivered
<1>5a. j' .. using_idx' + occupied' - 1 = u + 1 .. e - 1
  <2>1. using_idx' \in Nat /\ occupied' \in Nat
      BY ConstantsAssumption DEF IInv, TypeOK, TypeIndex
  <2>2. using_idx' = using_idx /\ using_idx + occupied' = e /\ j' = u + 1
      BY <1>4
  <2>3. PICK x \in Nat, o \in Nat : x = using_idx' /\ o = occupied'
      BY <2>1
  <2>4. x + o = e
      BY <2>2, <2>3
  <2>5. x + o - 1 = e - 1
      BY <2>4
  <2> QED BY <2>2, <2>3, <2>5
<1>6. /\ LoaderPos' = LoaderPos /\ (Broken' <=> Broken)
      /\ BaseOK' /\ FilledOK' /\ LoadOK' /\ exiting' = FALSE
      /\ ~Leads(u)' /\ \A c \in Chunk : c # u => (Leads(c)' <=> Leads(c))
      /\ \A d \in Chunk : \A k : Expects(d, k) =>
           \/ Expects(d, k)'
           \/ Leads(u) /\ k = mem[Base(u)]
           \/ status[u] = "SKIPPED" /\ d = u
      /\ LoaderIn({"share"})' <=> LoaderIn({"share"})
      /\ \A t \in Chunk : LoaderIn({"share"}) /\ t \in loading_idx + i .. loading_idx + needed - 1
                => status[t] = "LOADING" /\ t # u
    BY <1>4, ReplayTouches
<1>7. ~Leads(u) /\ \A c \in Chunk : Leads(c)' <=> Leads(c)
    BY <1>4, <1>6 DEF Leads
<1>8. \A d \in Chunk : \A k : Expects(d, k) => Expects(d, k)'
    BY <1>4, <1>6, <1>7
<1>9. /\ ~Using' /\ ReplayPos' = Wrapped(e) /\ ~ReplayIn({"skipClear"})'
      /\ \A t : OwnTail(t)' <=> OwnTail(t)
  <2>1. ~ReplayIn(Releasing) /\ ReplayIn(Releasing)' /\ ~ReplayIn({"skipClear"})'
      BY <1>4, UsingPlace DEF ReplayIn, Releasing
  <2>2. ~Using'
      BY <1>1, <1>4 DEF Using, Chunk
  <2>3. ReplayPos' = Wrapped(e)
      BY <1>4, <2>1 DEF ReplayPos, Wrapped
  <2>4. \A t : OwnTail(t)' <=> t \in u + 1 .. e - 1
    <3>1. \A t : OwnTail(t)' <=> t \in j' .. using_idx' + occupied' - 1
        BY <2>1, <2>2 DEF OwnTail
    <3> QED BY <1>5a, <3>1
  <2>5. \A t : OwnTail(t) <=> t \in u + 1 .. e - 1
      BY <1>1, <1>2, <1>3, <1>4, <2>1 DEF OwnTail
  <2> QED BY <2>1, <2>2, <2>3, <2>4, <2>5
<1>10. \A t \in u + 1 .. e - 1 :
          /\ t \in Chunk /\ t # u /\ mem[Base(t)] = 0
          /\ status[t] = "READY" \/ (status[t] = "LOADING" /\ loading_idx = u)
  <2>1. u + 1 .. e - 1 \subseteq Chunk
      BY <1>3, <1>4, GroupShape
  <2> QED BY <1>3, <1>4, <1>5, <2>1 DEF Group
<1>11. LeadersOK'
  <2>1. \A c \in Chunk : Leads(c)' =>
              /\ Leads(c) /\ current'[c] = current[c]
              /\ \A a \in Base(c) .. current[c] - 1 : mem'[a] = mem[a]
              /\ \A t \in c + 1 .. EndOf(c, current[c]) - 1 :
                    /\ mem'[Base(t)] = 0 /\ ~OwnTail(t)'
                    /\ status'[t] = "READY" \/ (status'[t] = "LOADING" /\ loading_idx' = c)
    <3> SUFFICES ASSUME NEW c \in Chunk, Leads(c), c # u, NEW t \in c + 1 .. EndOf(c, current[c]) - 1
                 PROVE  /\ mem[Base(t)] = 0 /\ ~OwnTail(t)'
                        /\ status'[t] = "READY" \/ (status'[t] = "LOADING" /\ loading_idx = c)
        BY <1>4, <1>6, <1>7
    <3>1. t \in Chunk
        BY LeaderFacts, GroupShape DEF Chain, LeadersOK
    <3>2. /\ mem[Base(t)] = 0 /\ (status[t] = "READY" \/ (status[t] = "LOADING" /\ loading_idx = c))
          /\ ~OwnTail(t)
        BY DEF Chain, LeadersOK, Group
    <3> QED BY <1>4, <1>9, <3>1, <3>2
  <2> QED BY <1>4, <1>5, <1>8, <2>1, LeadersKept DEF Chain
<1>12. UsingOK' /\ PosOK'
  <2>1. PICK d, k : d = Wrapped(e) /\ k = Delivered + 1
      BY <1>4
  <2>2. Expects(d, k)'
      BY <1>4, <1>8, <2>1
  <2>3. ReplayPos' = d /\ Delivered' + 1 = k
      BY <1>5, <1>9, <2>1
  <2>4. Expects(ReplayPos, Delivered + 1)'
      BY <2>2, <2>3 DEF Expects, Base
  <2> QED BY <1>9, <2>4 DEF UsingOK, PosOK
<1>13. ReleaseOK'
  <2> SUFFICES ASSUME NEW t \in u + 1 .. e - 1
               PROVE  /\ status'[t] = "READY" \/ (status'[t] = "LOADING" /\ LoaderIn({"share"})')
                      /\ mem'[Base(t)] = 0
    <3> QED BY <1>5a DEF ReleaseOK, Base
  <2>1. ASSUME status[t] = "LOADING", loading_idx = u PROVE LoaderIn({"share"})
    <3>1. MarkedLoading(t)
        BY <1>10, <2>1 DEF IInv, RingInv
    <3>2. ~LoaderIn(Grabbing)
        BY <1>4, <2>1 DEF IInv, LoaderInv, LoaderIn
    <3>3. ~LoaderIn(Loading)
        BY <1>4, <2>1, LoadingChunks
    <3> QED BY <3>1, <3>2, <3>3 DEF MarkedLoading
  <2> QED BY <1>4, <1>6, <1>10, <2>1
<1>14. Distinct'
  <2>1. \A a \in Address : Pending(a)' => Pending(a)
      BY <1>4, <1>6, <1>9 DEF Pending, Base, Chunk
  <2> QED BY <1>4, <2>1 DEF Chain, Distinct, Address
<1>15. \A c \in Chunk : Grouped(c) => Grouped(c)'
  <2> SUFFICES ASSUME NEW c \in Chunk, Grouped(c), ~OwnTail(c) PROVE Grouped(c)'
      BY <1>9 DEF Grouped
  <2>1. PICK h \in Chunk : Leads(h) /\ c \in h .. EndOf(h, current[h]) - 1
      BY DEF Grouped
  <2>2. Leads(h)' /\ current'[h] = current[h]
      BY <1>4, <1>7, <2>1
  <2> QED BY <2>1, <2>2 DEF Grouped, EndOf, ChunksFor, Base, Chunk
<1>16. ReadyOK'
    BY <1>4, <1>6, <1>15 DEF Chain, ReadyOK, Covered, Base, Chunk
<1>17. ShareOK'
  <2>1. LoaderIn({"share"}) /\ Hollow => Hollow'
    <3> SUFFICES ASSUME LoaderIn({"share"}), Hollow PROVE Hollow'
        OBVIOUS
    <3>1. PICK l \in Chunk : l = loading_idx
        BY Indices DEF LoaderIn
    <3>2. Broken /\ current'[l] = Base(l)
        BY <1>4, <3>1 DEF Hollow
    <3>3. status'[l] # "USING"
        BY <1>1, <1>4 DEF IInv, RingInv
    <3> QED BY <1>4, <1>6, <3>1, <3>2, <3>3 DEF Hollow, Base
  <2> QED BY <1>4, <1>6, <1>15, <2>1, ShareKept DEF Chain
<1>18. SkipOK'
  <2>1. ASSUME NEW c \in Chunk, status'[c] = "SKIPPED"
        PROVE  /\ c = ChunkCount - 1
               /\ \/ LoaderPos' = 0 /\ ReplayPos' # 0
                  \/ LoaderPos' > 0 /\ LoaderPos' <= ReplayPos' /\ Leads(0)'
                  \/ Broken'
    <3>1. status[c] = "SKIPPED" /\ c # u
        BY <1>4, <2>1
    <3>2. c = ChunkCount - 1
        BY <3>1 DEF Chain, SkipOK
    <3>3. e # ChunkCount
      <4> SUFFICES ASSUME e = ChunkCount PROVE FALSE
          OBVIOUS
      <4>1. c \in u + 1 .. e - 1
          BY <1>4, <1>5, <3>1, <3>2, ConstantsAssumption
      <4> QED BY <1>10, <3>1, <4>1
    <3>4. ReplayPos' = e /\ e # 0 /\ e > u
        BY <1>4, <1>9, <3>3 DEF Wrapped
    <3>5. LoaderPos > 0 /\ LoaderPos <= ReplayPos => LoaderPos <= e
        BY <1>4, <1>5, <3>4, Positions, Kinds
    <3>6. Leads(0) => Leads(0)'
        BY <1>7, Kinds
    <3>7. \/ LoaderPos = 0
          \/ LoaderPos > 0 /\ LoaderPos <= ReplayPos /\ Leads(0)
          \/ Broken
        BY <3>1 DEF Chain, SkipOK
    <3> QED BY <1>6, <3>2, <3>4, <3>5, <3>6, <3>7
  <2> QED BY <1>4, <1>6, <1>9, <2>1 DEF Chain, SkipOK, LoaderIn, ReplayIn, Chunk
<1> QED BY <1>6, <1>11, <1>12, <1>13, <1>14, <1>16, <1>17, <1>18 DEF Chain

\* A chunk that the last packet extended over is given back.
LEMMA ReleaseStep ==
    ASSUME IInv, IInv', Chain, R_ReleaseLock
    PROVE  /\ j \in Chunk /\ j \in Nat /\ j + 1 \in Nat
           /\ status[j] = "READY" /\ mem[Base(j)] = 0 /\ OwnTail(j)
           /\ UNCHANGED <<input, mem, next, exceed, exiting, skipped_to_first, loading_idx,
                          needed, i, using_idx, boundary, occupied, delivered>>
           /\ pc'[Loader] = pc[Loader] /\ ReplayIn(Releasing) /\ ReplayIn(Releasing)'
           /\ status'[j] = "EMPTY" /\ current'[j] = Base(j) /\ j' = j + 1
           /\ \A c \in Chunk : c # j => status'[c] = status[c] /\ current'[c] = current[c]
<1>1. ReplayIn(Releasing) /\ j \in j .. using_idx + occupied - 1 /\ j \in Chunk
  <2>1. pc[Replay] = "releaseLock"
      BY DEF R_ReleaseLock, At
  <2>2. ReplayIn(Releasing) /\ j < using_idx + occupied
      BY <2>1 DEF IInv, ReplayInv, ReplayIn, Releasing
  <2>3. /\ using_idx + occupied <= ChunkCount /\ using_idx \in Nat /\ occupied \in Nat
        /\ j \in Nat
      BY <2>2, Indices, Kinds
  <2> QED BY <2>2, <2>3, Kinds
<1>2. status[j] = "READY" \/ status[j] = "LOADING"
    BY <1>1 DEF Chain, ReleaseOK
<1>3. mem[Base(j)] = 0 /\ OwnTail(j)
    BY <1>1 DEF Chain, ReleaseOK, OwnTail
<1>4. status[j] # "LOADING"
  <2>1. mtx[j] # Loader
      BY DEF R_ReleaseLock, Free, Loader
  <2>2. ~MarkedLoading(j)
      BY <1>1, <2>1 DEF IInv, RingInv, MarkedLoading, HeldByLoader, LoaderIn, TypeOK, TypeIndex
  <2> QED BY <1>1, <2>2 DEF IInv, RingInv
<1>5. /\ UNCHANGED <<input, mem, next, exceed, exiting, skipped_to_first, loading_idx,
                     needed, i, using_idx, boundary, occupied, delivered>>
      /\ pc'[Loader] = pc[Loader] /\ pc'[Replay] = "release"
      /\ status' = [status EXCEPT ![j] = "EMPTY"]
      /\ current' = [current EXCEPT ![j] = Base(j)] /\ j' = j + 1
  <2>1. pc \in [Thread -> LoaderPlaces \union ReplayPlaces] /\ Loader \in Thread /\ Replay \in Thread
      BY DEF IInv, TypeOK, TypeControl, Thread
  <2> QED BY <2>1 DEF R_ReleaseLock, Goto, Loader, Replay, fileVars, skipVars, loadVars, fullVars,
           resultVars, sharedVars
<1>6. ReplayIn(Releasing)'
    BY <1>5 DEF ReplayIn, Releasing
<1> QED BY <1>1, <1>2, <1>3, <1>4, <1>5, <1>6, Kinds, ChunkInMemory

\* No packet begins there that is still to come.
LEMMA ReleaseKeepsChain ==
    ASSUME IInv, IInv', Chain, R_ReleaseLock
    PROVE  Chain'
<1>1. PICK x \in Chunk : x = j
    BY ReleaseStep
<1>2. /\ x \in Nat /\ status[x] = "READY" /\ mem[Base(x)] = 0 /\ OwnTail(x)
      /\ UNCHANGED <<input, mem, next, exceed, exiting, skipped_to_first, loading_idx,
                     needed, i, using_idx, boundary, occupied, delivered>>
      /\ pc'[Loader] = pc[Loader] /\ ReplayIn(Releasing) /\ ReplayIn(Releasing)'
      /\ status'[x] = "EMPTY" /\ current'[x] = Base(x) /\ j' = x + 1
      /\ \A c \in Chunk : c # x => status'[c] = status[c] /\ current'[c] = current[c]
    BY <1>1, ReleaseStep
<1>3. /\ LoaderPos' = LoaderPos /\ (Broken' <=> Broken)
      /\ BaseOK' /\ FilledOK' /\ LoadOK' /\ exiting' = FALSE
      /\ ~Leads(x)' /\ \A c \in Chunk : c # x => (Leads(c)' <=> Leads(c))
      /\ \A d \in Chunk : \A k : Expects(d, k) =>
           \/ Expects(d, k)'
           \/ Leads(x) /\ k = mem[Base(x)]
           \/ status[x] = "SKIPPED" /\ d = x
      /\ LoaderIn({"share"})' <=> LoaderIn({"share"})
      /\ \A t \in Chunk : LoaderIn({"share"}) /\ t \in loading_idx + i .. loading_idx + needed - 1
                => status[t] = "LOADING" /\ t # x
    BY <1>2, ReplayTouches
<1>4. ~Leads(x) /\ \A c \in Chunk : Leads(c)' <=> Leads(c)
    BY <1>2, <1>3 DEF Leads
<1>5. \A d \in Chunk : \A k : Expects(d, k) => Expects(d, k)'
    BY <1>2, <1>3, <1>4
<1>6. ~Using /\ ~Using' /\ Delivered' = Delivered
  <2>1. \A c \in Chunk : status[c] # "USING"
      BY <1>2 DEF IInv, RingInv, ReplayIn, Releasing
  <2>2. \A c \in Chunk : status'[c] # "USING"
      BY <1>2, <2>1
  <2> QED BY <1>2, <2>1, <2>2 DEF Using, Chunk, Delivered
<1>7. PICK u \in Nat, o \in Nat : u = using_idx /\ o = occupied
    BY Indices, ConstantsAssumption
<1>8. /\ \A t : OwnTail(t) <=> t \in x .. u + o - 1
      /\ \A t : OwnTail(t)' <=> t \in x + 1 .. u + o - 1
      /\ ReplayPos' = ReplayPos
  <2>1. \A t : OwnTail(t) <=> t \in x .. u + o - 1
      BY <1>1, <1>2, <1>6, <1>7 DEF OwnTail
  <2>2. \A t : OwnTail(t)' <=> t \in j' .. using_idx' + occupied' - 1
      BY <1>2, <1>6 DEF OwnTail
  <2>3. j' = x + 1 /\ using_idx' = u /\ occupied' = o
      BY <1>2, <1>7
  <2>4. ReplayPos' = ReplayPos
    <3>1. ~ReplayIn({"skipClear"}) /\ ~ReplayIn({"skipClear"})'
        BY <1>2 DEF ReplayIn, Releasing
    <3> QED BY <1>2, <3>1 DEF ReplayPos, Wrapped
  <2> QED BY <2>1, <2>2, <2>3, <2>4
<1>9. \A t \in Chunk : OwnTail(t) /\ t # x => OwnTail(t)'
  <2> SUFFICES ASSUME NEW t \in Chunk, t \in x .. u + o - 1, t # x PROVE t \in x + 1 .. u + o - 1
      BY <1>8
  <2>1. t \in Nat
      BY ChunkInMemory
  <2> QED BY <1>2, <2>1
<1>10. \A t \in Chunk : OwnTail(t)' => OwnTail(t) /\ t # x
  <2> SUFFICES ASSUME NEW t \in Chunk, t \in x + 1 .. u + o - 1 PROVE t \in x .. u + o - 1 /\ t # x
      BY <1>8
  <2>1. t \in Nat
      BY ChunkInMemory
  <2> QED BY <1>2, <2>1
<1>11. LeadersOK'
  <2>1. \A c \in Chunk : Leads(c)' =>
              /\ Leads(c) /\ current'[c] = current[c]
              /\ \A a \in Base(c) .. current[c] - 1 : mem'[a] = mem[a]
              /\ \A t \in c + 1 .. EndOf(c, current[c]) - 1 :
                    /\ mem'[Base(t)] = 0 /\ ~OwnTail(t)'
                    /\ status'[t] = "READY" \/ (status'[t] = "LOADING" /\ loading_idx' = c)
    <3> SUFFICES ASSUME NEW c \in Chunk, Leads(c), c # x, NEW t \in c + 1 .. EndOf(c, current[c]) - 1
                 PROVE  /\ mem[Base(t)] = 0 /\ ~OwnTail(t)'
                        /\ status'[t] = "READY" \/ (status'[t] = "LOADING" /\ loading_idx = c)
        BY <1>2, <1>3, <1>4
    <3>1. t \in Chunk
        BY LeaderFacts, GroupShape DEF Chain, LeadersOK
    <3>2. /\ mem[Base(t)] = 0 /\ (status[t] = "READY" \/ (status[t] = "LOADING" /\ loading_idx = c))
          /\ ~OwnTail(t)
        BY DEF Chain, LeadersOK, Group
    <3>3. t # x
        BY <1>2, <3>2
    <3> QED BY <1>2, <1>10, <3>1, <3>2, <3>3
  <2> QED BY <1>2, <1>5, <1>6, <2>1, LeadersKept DEF Chain
<1>12. UsingOK' /\ PosOK'
  <2>1. PICK d, k : d \in Chunk /\ d = ReplayPos /\ k = Delivered + 1
      BY Positions
  <2>2. Expects(d, k)'
      BY <1>5, <1>6, <2>1 DEF Chain, PosOK
  <2>3. ReplayPos' = d /\ Delivered' + 1 = k
      BY <1>6, <1>8, <2>1
  <2>4. Expects(ReplayPos, Delivered + 1)'
      BY <2>2, <2>3 DEF Expects, Base
  <2> QED BY <1>6, <2>4 DEF UsingOK, PosOK
<1>13. ReleaseOK'
  <2>1. j' = x + 1 /\ using_idx' = u /\ occupied' = o
      BY <1>2, <1>7
  <2> SUFFICES ASSUME NEW t \in x + 1 .. u + o - 1
               PROVE  /\ status'[t] = "READY" \/ (status'[t] = "LOADING" /\ LoaderIn({"share"})')
                      /\ mem'[Base(t)] = 0
      BY <2>1 DEF ReleaseOK, Base
  <2>2. t \in x .. u + o - 1 /\ t \in Nat /\ t # x
      BY <1>2, <1>7
  <2>3. t \in Chunk
      BY <1>8, <2>2, OwnTailFacts DEF Chain
  <2>4. /\ status[t] = "READY" \/ (status[t] = "LOADING" /\ LoaderIn({"share"}))
        /\ mem[Base(t)] = 0
      BY <1>1, <1>2, <1>7, <2>2 DEF Chain, ReleaseOK
  <2> QED BY <1>2, <1>3, <2>2, <2>3, <2>4
<1>14. Distinct'
  <2>1. \A a \in Address : Pending(a)' => Pending(a)
      BY <1>2, <1>3, <1>6 DEF Pending, Base, Chunk
  <2> QED BY <1>2, <2>1 DEF Chain, Distinct, Address
<1>15. \A c \in Chunk : c # x /\ Grouped(c) => Grouped(c)'
  <2> SUFFICES ASSUME NEW c \in Chunk, c # x, Grouped(c), ~OwnTail(c) PROVE Grouped(c)'
      BY <1>9 DEF Grouped
  <2>1. PICK h \in Chunk : Leads(h) /\ c \in h .. EndOf(h, current[h]) - 1
      BY DEF Grouped
  <2>2. Leads(h)' /\ current'[h] = current[h]
      BY <1>2, <1>4, <2>1
  <2> QED BY <2>1, <2>2 DEF Grouped, EndOf, ChunksFor, Base, Chunk
<1>16. ReadyOK'
    BY <1>2, <1>3, <1>15 DEF Chain, ReadyOK, Covered, Base, Chunk
<1>17. ShareOK'
  <2>1. LoaderIn({"share"}) /\ Hollow => Hollow'
    <3> SUFFICES ASSUME LoaderIn({"share"}), Hollow PROVE Hollow'
        OBVIOUS
    <3>1. PICK l \in Chunk : l = loading_idx
        BY Indices DEF LoaderIn
    <3>2. Broken /\ current'[l] = Base(l)
        BY <1>2, <3>1 DEF Hollow
    <3>3. status'[l] # "USING"
        BY <1>2 DEF IInv, RingInv, ReplayIn, Releasing
    <3> QED BY <1>2, <1>3, <3>1, <3>2, <3>3 DEF Hollow, Base
  <2>2. \A t \in Chunk : LoaderIn({"share"}) /\ t \in loading_idx + i .. loading_idx + needed - 1
                => (Grouped(t) => Grouped(t)')
      BY <1>3, <1>15
  <2> QED BY <1>2, <1>3, <2>1, <2>2, ShareKept DEF Chain
<1>18. SkipOK'
  <2>1. \A c \in Chunk : status'[c] = "SKIPPED" => status[c] = "SKIPPED"
      BY <1>2
  <2>2. ~ReplayIn({"skipClear"})' /\ (Leads(0)' <=> Leads(0))
      BY <1>2, <1>4, Kinds DEF ReplayIn, Releasing
  <2> QED BY <1>2, <1>3, <1>6, <1>8, <2>1, <2>2 DEF Chain, SkipOK, LoaderIn, Chunk
<1> QED BY <1>3, <1>11, <1>12, <1>13, <1>14, <1>16, <1>17, <1>18 DEF Chain

-----------------------------------------------------------------------------
(* The order of the packets.                                               *)

\* The loading thread neither delivers packets nor moves the replay thread.
LEMMA LoaderDeliversNothing ==
    ASSUME IInv, LoaderStep
    PROVE  UNCHANGED <<input, delivered>> /\ pc'[Replay] = pc[Replay]
<1> USE DEF Goto, Jump, Loader, Replay, ringVars, fileVars, skipVars, loadVars, fullVars,
            resultVars, replayVars, sharedVars, dataVars
<1>1. pc \in [Thread -> LoaderPlaces \union ReplayPlaces] /\ "loader" \in Thread /\ "replay" \in Thread
    BY DEF IInv, TypeOK, TypeControl, Thread
<1>2. CASE L_Exit \/ L_Wrap \/ L_Turn \/ L_SkipNotify \/ L_SkipNone \/ L_Status \/ L_Lock
    BY <1>1, <1>2 DEF L_Exit, L_Wrap, L_Turn, L_SkipNotify, L_SkipNone, L_Status, L_Lock
<1>3. CASE L_PlanSkip \/ L_PlanLoad \/ L_SkipNext \/ L_SkipGet \/ L_SkipLock \/ L_SkipMark \/ L_SkipDone
    BY <1>1, <1>3 DEF L_PlanSkip, L_PlanLoad, L_SkipNext, L_SkipGet, L_SkipLock, L_SkipMark, L_SkipDone
<1>4. CASE L_GrabNext \/ L_GrabGet \/ L_GrabLock \/ L_Begin \/ L_Load \/ L_LoadFail \/ L_Loaded
    BY <1>1, <1>4 DEF L_GrabNext, L_GrabGet, L_GrabLock, L_Begin, L_Load, L_LoadFail, L_Loaded
<1>5. CASE L_Ready \/ L_Share \/ L_Bump \/ L_Finish \/ L_Again
    BY <1>1, <1>5 DEF L_Ready, L_Share, L_Bump, L_Finish, L_Again
<1> QED BY <1>2, <1>3, <1>4, <1>5 DEF LoaderStep

\* The replay thread delivers packets where it takes them, and once it has
\* stopped it asks for no more.
LEMMA ReplayDelivers ==
    ASSUME IInv, ReplayStep
    PROVE  /\ input' = input
           /\ R_Take \/ R_Garbage \/ delivered' = delivered
           /\ ~Active => ~Active'
           /\ R_Null \/ R_Stop \/ R_ExitPreload \/ R_Join \/ R_Garbage => ~Active'
<1> USE DEF At, Goto, Jump, Awake, Loader, Replay, ringVars, fileVars, skipVars, loadVars, fullVars,
            resultVars, replayVars, sharedVars, dataVars, Active, ReplayIn, ReplayPlaces
<1>1. pc \in [Thread -> LoaderPlaces \union ReplayPlaces] /\ "loader" \in Thread /\ "replay" \in Thread
    BY DEF IInv, TypeOK, TypeControl, Thread
<1>2. CASE R_Start \/ R_Call \/ R_SkipEmpty \/ R_SkipClear \/ R_SkipDone \/ R_Head \/ R_IsReady \/ R_IsEmpty
    BY <1>1, <1>2 DEF R_Start, R_Call, R_SkipEmpty, R_SkipClear, R_SkipDone, R_Head, R_IsReady, R_IsEmpty,
       R_Null, R_Stop, R_ExitPreload, R_Join, R_Garbage
<1>3. CASE R_Lock \/ R_Use \/ R_Emptied \/ R_ReleaseNext \/ R_ReleaseReady \/ R_ReleaseLock
             \/ R_Advance \/ R_Throttled
    BY <1>1, <1>3 DEF R_Lock, R_Use, R_Emptied, R_ReleaseNext, R_ReleaseReady, R_ReleaseLock,
       R_Advance, R_Throttled, R_Null, R_Stop, R_ExitPreload, R_Join, R_Garbage
<1>4. CASE R_Take
    BY <1>1, <1>4 DEF R_Take, R_Null, R_Stop, R_ExitPreload, R_Join, R_Garbage
<1>5. CASE R_Garbage \/ R_Null \/ R_Stop \/ R_ExitPreload \/ R_Join
    BY <1>1, <1>5 DEF R_Garbage, R_Null, R_Stop, R_ExitPreload, R_Join
<1> QED BY <1>2, <1>3, <1>4, <1>5 DEF ReplayStep

\* No step of the replay thread breaks the chain either.
LEMMA ReplayKeepsChain ==
    ASSUME IInv, IInv', Chain, ~StatusReread, ReplayStep, Active', Owes'
    PROVE  Chain'
<1>1. ~R_SkipClear
  <2> SUFFICES ASSUME R_SkipClear PROVE FALSE
      OBVIOUS
  <2>1. ReplayIn({"skipClear"}) /\ j < ChunkCount
      BY DEF R_SkipClear, At, ReplayIn
  <2>2. j = ChunkCount
      BY <2>1 DEF Chain, SkipOK
  <2> QED BY <2>1, <2>2, ConstantsAssumption
<1>2. ~R_Null /\ ~R_Stop /\ ~R_ExitPreload /\ ~R_Join /\ ~R_Garbage
    BY ReplayDelivers
<1>3. CASE R_Start \/ R_Call \/ R_SkipDone \/ R_Head \/ R_IsReady \/ R_IsEmpty \/ R_Lock
             \/ R_ReleaseNext \/ R_ReleaseReady \/ R_Advance \/ R_Throttled
    BY <1>3, IdleReplayKeepsChain
<1>4. CASE R_SkipEmpty
    BY <1>4, SkipEmptyKeepsChain
<1>5. CASE R_Use
    BY <1>5, UseKeepsChain
<1>6. CASE R_Take
    BY <1>6, TakeKeepsChain
<1>7. CASE R_Emptied
    BY <1>7, EmptiedKeepsChain
<1>8. CASE R_ReleaseLock
    BY <1>8, ReleaseKeepsChain
<1> QED BY <1>1, <1>2, <1>3, <1>4, <1>5, <1>6, <1>7, <1>8 DEF ReplayStep

\* What is taken is the next packet in order, unless nothing more is owed.
LEMMA TakeInOrder ==
    ASSUME IInv, OrderInv, R_Take \/ R_Garbage
    PROVE  InOrder' /\ Delivered' = Delivered + 1
<1>1. input' = input /\ delivered' = Append(delivered, HeaderAt(current[using_idx]))
  <2>1. CASE R_Take
      BY <2>1 DEF R_Take, sharedVars
  <2>2. CASE R_Garbage
      BY <2>2 DEF R_Garbage, sharedVars
  <2> QED BY <2>1, <2>2
<1>2. delivered \in Seq(0 .. PacketCount) /\ HeaderAt(current[using_idx]) \in 0 .. PacketCount
    BY Kinds DEF IInv, TypeOK, TypeFile, HeaderAt
<1>3. /\ Delivered' = Delivered + 1 /\ Delivered \in Nat /\ DOMAIN delivered' = 1 .. Delivered + 1
      /\ \A k \in 1 .. Delivered : delivered'[k] = delivered[k] /\ k \in DOMAIN delivered
      /\ delivered'[Delivered + 1] = HeaderAt(current[using_idx])
    BY <1>1, <1>2 DEF Delivered
<1>4. input.bad = 0 \/ Delivered + 1 < input.bad => HeaderAt(current[using_idx]) = Delivered + 1
  <2> SUFFICES ASSUME input.bad = 0 \/ Delivered + 1 < input.bad
               PROVE  HeaderAt(current[using_idx]) = Delivered + 1
      OBVIOUS
  <2>1. ReplayIn({"take"})
      BY DEF R_Take, R_Garbage, At, ReplayIn
  <2>2. Active
      BY <2>1 DEF Active, ReplayIn, ReplayPlaces
  <2>3. Owes
      BY <1>3, Kinds DEF Owes
  <2>4. Chain
      BY <2>2, <2>3 DEF OrderInv
  <2> QED BY <1>3, <2>1, <2>4, TakePlace, Kinds
<1>5. ASSUME NEW k \in DOMAIN delivered', input.bad = 0 \/ k < input.bad
      PROVE  delivered'[k] = k
  <2>1. CASE k = Delivered + 1
      BY <1>3, <1>4, <1>5, <2>1
  <2>2. CASE k # Delivered + 1
    <3>1. k \in 1 .. Delivered
        BY <1>3, <2>2
    <3> QED BY <1>3, <1>5, <3>1 DEF OrderInv, InOrder
  <2> QED BY <2>1, <2>2
<1> QED BY <1>1, <1>3, <1>5 DEF InOrder

\* The invariant of the order holds at the start.
LEMMA InitOrder ==
    ASSUME Init, IInv, PacketsFit
    PROVE  OrderInv
<1>1. /\ ChunkCount \in Nat \ {0} /\ Chunk = 0 .. ChunkCount - 1 /\ PacketCount \in Nat
      /\ \A c \in Chunk : status[c] = "EMPTY" /\ current[c] = Base(c)
      /\ loading_idx = 0 /\ using_idx = ChunkCount /\ next = 1 /\ Delivered = 0
      /\ pc[Loader] = "top" /\ pc[Replay] = "start"
  <2>1. pc[Loader] = "top" /\ pc[Replay] = "start"
      BY DEF Init, Thread, Loader, Replay
  <2> QED BY <2>1, Kinds DEF Init, Delivered
<1>2. InOrder
    BY DEF Init, InOrder
<1>3. PacketCount # 0
    BY Kinds DEF PacketsFit, PacketCount, IInv, TypeOK, TypeRing
<1>4. ~Using /\ LoaderPos = 0 /\ ReplayPos = 0 /\ \A c \in Chunk : ~Leads(c)
    BY <1>1 DEF Using, LoaderPos, ReplayPos, LoaderIn, ReplayIn, Skipping, Loading, Releasing, Wrapped, Leads
<1>5. \A t : ~OwnTail(t)
    BY <1>1, <1>4 DEF OwnTail, ReplayIn, Releasing
<1>6. LeadersOK /\ UsingOK /\ ReleaseOK /\ ReadyOK /\ BaseOK
    BY <1>1, <1>4 DEF LeadersOK, UsingOK, ReleaseOK, ReadyOK, BaseOK, ReplayIn, Releasing
<1>7. PosOK /\ Distinct
    BY <1>1, <1>4 DEF PosOK, Expects, Distinct, Pending
<1>8. ShareOK /\ SkipOK /\ FilledOK /\ LoadOK /\ ~exiting
  <2>1. ShareOK /\ FilledOK
      BY <1>1 DEF ShareOK, FilledOK, LoaderIn, Loading
  <2>2. skipped_to_first = "NONE" /\ exceed = FALSE /\ exiting = FALSE
      BY DEF Init
  <2>3. SkipOK
      BY <1>1, <2>2 DEF SkipOK, LoaderIn, ReplayIn, Skipping
  <2>4. ~NoMorePackets
      BY <1>1, <1>3 DEF NoMorePackets
  <2>5. LoadOK
      BY <1>1, <2>2, <2>4, Kinds DEF LoadOK, LoaderIn, Grabbing
  <2> QED BY <2>1, <2>2, <2>3, <2>5
<1> QED BY <1>2, <1>6, <1>7, <1>8 DEF OrderInv, Chain

\* Every step keeps the invariant of the order.
LEMMA NextKeepsOrder ==
    ASSUME IInv, IInv', OrderInv, AllFit, PacketsFit, ~StatusReread, [Next]_vars
    PROVE  OrderInv'
<1>1. CASE LoaderStep
  <2>1. InOrder' /\ (Active' => Active) /\ (Owes' => Owes)
      BY <1>1, LoaderDeliversNothing DEF OrderInv, InOrder, Active, Owes, Delivered, ReplayIn
  <2>2. Active /\ Owes => Chain'
      BY <1>1, LoaderKeepsChain DEF OrderInv
  <2> QED BY <2>1, <2>2 DEF OrderInv
<1>2. CASE ReplayStep
  <2>1. InOrder' /\ (Owes' => Owes)
    <3>1. CASE R_Take \/ R_Garbage
      <4>1. Owes' => Owes
          BY <1>2, <3>1, TakeInOrder, ReplayDelivers, Kinds DEF Owes
      <4> QED BY <3>1, <4>1, TakeInOrder
    <3>2. CASE delivered' = delivered
        BY <1>2, <3>2, ReplayDelivers DEF OrderInv, InOrder, Owes, Delivered
    <3> QED BY <1>2, <3>1, <3>2, ReplayDelivers
  <2>2. Active' => Active
      BY <1>2, ReplayDelivers
  <2>3. Chain /\ Active' /\ Owes' => Chain'
      BY <1>2, ReplayKeepsChain
  <2> QED BY <2>1, <2>2, <2>3 DEF OrderInv
<1>3. CASE UNCHANGED <<dataVars, pc>>
  <2>1. UNCHANGED <<input, status, current, mem, next, exceed, exiting, skipped_to_first,
                    loading_idx, needed, i, using_idx, boundary, occupied, j, delivered, pc>>
      BY <1>3 DEF ringVars, fileVars, skipVars, loadVars, fullVars, resultVars, replayVars,
         sharedVars, dataVars
  <2>2. InOrder' /\ (Active' <=> Active) /\ (Owes' <=> Owes)
      BY <2>1 DEF OrderInv, InOrder, Active, Owes, Delivered, ReplayIn
  <2>3. Chain => Chain'
      BY <2>1, ChainStutters
  <2> QED BY <2>2, <2>3 DEF OrderInv
<1>4. CASE \E t \in Thread : CondvarStep(t)
    BY <1>3, <1>4 DEF CondvarStep, EvalFalse, Block, SpuriousWakeup
<1>5. CASE Terminated \/ UNCHANGED vars
    BY <1>3, <1>5 DEF Terminated, vars
<1> QED BY <1>1, <1>2, <1>4, <1>5 DEF Next

\* If no packet needs more than two chunks or fills its chunks exactly, the
\* replay thread gets the packets of the file in their order, none twice and
\* none left out, up to one that does not load: for every ring they fit into,
\* and however the two threads, the wakeups and the end of the replay interleave.
THEOREM PacketsInOrder == AllFit /\ ~StatusReread /\ PacketsFit => (Spec => []InOrder)
<1> SUFFICES ASSUME AllFit, ~StatusReread, PacketsFit PROVE Spec => []InOrder
    OBVIOUS
<1>1. Init /\ IInv => OrderInv
    BY InitOrder
<1>2. IInv /\ IInv' /\ OrderInv /\ [Next]_vars => OrderInv'
    BY NextKeepsOrder
<1>3. OrderInv => InOrder
    BY DEF OrderInv
<1>4. Spec => []IInv
    BY Invariance
<1> QED BY <1>1, <1>2, <1>3, <1>4, PTL DEF Spec


-----------------------------------------------------------------------------
(* When the replay is told that there is no packet left.                   *)

\* Where nothing is lost, the replay that has not reached the packet that does
\* not load is owed one.
LEMMA AllOwed ==
    ASSUME AllLoad, IInv
    PROVE  input.bad = 0 /\ Owes /\ ~Broken
<1>1. input \in Inputs /\ next \in 1 .. PacketCount + 1 /\ PacketCount \in Nat
    BY Kinds
<1>2. input.bad = 0
    BY <1>1 DEF AllLoad
<1> QED BY <1>1, <1>2 DEF Owes, Broken

\* What the loading thread has in its hands while it loads is a leader.
LEMMA FilledLeads ==
    ASSUME IInv, Chain, LoaderIn(Loading), current[loading_idx] > Base(loading_idx)
    PROVE  Leads(loading_idx)
<1>1. status[loading_idx] = "LOADING" /\ current[loading_idx] \in Nat /\ Base(loading_idx) \in Nat
    BY LoadingChunks
<1>2. mem[Base(loading_idx)] # 0
    BY <1>1 DEF Chain, FilledOK
<1> QED BY <1>1, <1>2 DEF Leads

\* When the replay goes to a chunk that is EMPTY, it has had all that has been
\* loaded, and the loading thread is to fill that chunk.
LEMMA Drained ==
    ASSUME IInv, Chain, AllLoad, NEW p \in Chunk, status[p] = "EMPTY", Expects(p, Delivered + 1)
    PROVE  /\ Delivered + 1 = next /\ LoaderPos = p
           /\ \A c \in Chunk : ~Leads(c)
<1>1. Delivered + 1 = next /\ LoaderPos = p
    BY AllOwed DEF Expects, Leads
<1>2. ASSUME NEW c \in Chunk, Leads(c) PROVE FALSE
  <2>1. Delivered + 1 < next
      BY <1>2, LeaderFacts DEF Chain
  <2> QED BY <1>1, <2>1, Kinds
<1> QED BY <1>1, <1>2

\* Unless it skips or lags behind, the loading thread stands at that chunk.
LEMMA LoaderStands ==
    ASSUME IInv, Chain, LoaderPos \in Chunk, \A c \in Chunk : ~Leads(c),
           ~LoaderIn({"share"}), loading_idx # ChunkCount, ~LoaderIn(Skipping)
    PROVE  loading_idx = LoaderPos
<1>1. ~(LoaderIn(Loading) /\ current[loading_idx] > Base(loading_idx))
    BY FilledLeads, LoadingChunks
<1> QED BY <1>1 DEF LoaderPos, Wrapped

\* The chunks a packet extends over while it is being loaded.
LEMMA NeedsHalf ==
    ASSUME IInv, Chain, HalfRing, LoaderIn(Grabbing)
    PROVE  2 * needed <= ChunkCount
<1>1. needed = ChunksFor(NextSize) /\ ~NoMorePackets
    BY DEF Chain, LoadOK, Grabbing, LoaderIn
<1>2. input \in Inputs /\ next \in 1 .. PacketCount + 1 /\ PacketCount \in Nat
    BY Kinds
<1>3. next \in DOMAIN input.size /\ NextSize = input.size[next]
  <2>1. input.size \in Seq(Nat \ {0})
      BY <1>2, ConstantsAssumption
  <2> QED BY <1>1, <1>2, <2>1 DEF NextSize, NoMorePackets, PacketCount
<1> QED BY <1>1, <1>2, <1>3 DEF HalfRing

\* The replay that has caught up sleeps (throttle) until the chunk it comes to
\* is taken: the one it has just given back is only taken later.
LEMMA ThrottledLate ==
    ASSUME IInv, Chain, AllLoad, HalfRing, ShortOK, ThrottleOK, ReplayIn({"throttle"}),
           status[using_idx - occupied] # "EMPTY"
    PROVE  status[Wrapped(using_idx)] # "EMPTY"
<1> SUFFICES ASSUME status[Wrapped(using_idx)] = "EMPTY" PROVE FALSE
    OBVIOUS
<1>1. ~Using /\ ReplayPos = Wrapped(using_idx) /\ ~ReplayIn(Releasing)
    BY UsingPlace DEF ReplayIn, ReplayPos, Releasing
<1>2. PICK u \in Chunk : u = using_idx - occupied
    BY DEF ThrottleOK
<1>3. PICK p \in Chunk : p = ReplayPos
    BY Positions
<1>4. /\ Delivered + 1 = next /\ LoaderPos = p
      /\ \A c \in Chunk : ~Leads(c)
    BY <1>1, <1>3, Drained DEF Chain, PosOK
<1>5. \A c \in Chunk : ~Grouped(c)
    BY <1>1, <1>4 DEF Grouped, OwnTail
<1>6. status[u] # "READY" /\ status[u] # "USING"
  <2>1. status[u] # "READY"
      BY <1>5, AllOwed DEF Chain, ReadyOK, Covered
  <2>2. status[u] # "USING"
      BY <1>1, UsingPlace DEF Using, IInv, RingInv
  <2> QED BY <2>1, <2>2
<1>7. status[u] # "SKIPPED"
  <2> SUFFICES ASSUME status[u] = "SKIPPED" PROVE FALSE
      OBVIOUS
  <2>1. \/ LoaderPos = 0 /\ (ReplayPos = 0 => Leads(0) \/ Using)
        \/ Leads(0)
      BY AllOwed DEF Chain, SkipOK
  <2> QED BY <1>1, <1>3, <1>4, <2>1, Kinds
<1>8. status[u] = "LOADING"
    BY <1>2, <1>6, <1>7, Kinds DEF Status
<1>9. MarkedLoading(u)
    BY <1>8 DEF IInv, RingInv
<1>10. ~LoaderIn({"share"})
  <2> SUFFICES ASSUME LoaderIn({"share"}) PROVE FALSE
      OBVIOUS
  <2>1. u \in loading_idx + i .. loading_idx + needed - 1
      BY <1>9 DEF MarkedLoading, LoaderIn, Grabbing, Loading
  <2>2. Grouped(u) \/ Hollow
      BY <2>1 DEF Chain, ShareOK
  <2> QED BY <1>5, <2>2, AllOwed DEF Hollow
<1>11. LoaderIn(Grabbing)
  <2> SUFFICES ASSUME LoaderIn(Loading) PROVE FALSE
      BY <1>9, <1>10 DEF MarkedLoading
  <2>1. ~Leads(loading_idx) /\ status[loading_idx] = "LOADING" /\ loading_idx \in Chunk
      BY <1>4, LoadingChunks
  <2>2. LoaderPos = Wrapped(loading_idx) /\ loading_idx # ChunkCount
    <3>1. ~(current[loading_idx] > Base(loading_idx))
        BY <2>1, FilledLeads
    <3>2. loading_idx # ChunkCount
        BY <2>1, Kinds
    <3> QED BY <3>1, <3>2, <1>10 DEF LoaderPos, LoaderIn, Loading, Skipping
  <2> QED BY <1>1, <1>3, <1>4, <2>1, <2>2 DEF Wrapped
<1>12. /\ loading_idx = p /\ u \in loading_idx + 1 .. loading_idx + i - 1
       /\ i <= needed /\ 2 * needed <= ChunkCount /\ 2 * occupied <= ChunkCount
  <2>1. loading_idx \in Chunk /\ ~LoaderIn(Skipping) /\ ~LoaderIn(Loading)
      BY <1>11, Indices DEF LoaderIn, Grabbing, Loading, Skipping
  <2>2. loading_idx # ChunkCount
      BY <2>1, Kinds
  <2>3. i <= needed
    <3>1. LoaderIn({"grab"}) \/ LoaderIn({"grabGet", "grabLock"})
        BY <1>11 DEF LoaderIn, Grabbing
    <3>2. i \in 1 .. ChunkCount /\ needed \in 1 .. ChunkCount
        BY Indices
    <3>3. i <= needed \/ i < needed
        BY <3>1 DEF IInv, LoaderInv, LoaderIn
    <3> QED BY <3>2, <3>3, ConstantsAssumption
  <2>4. loading_idx = LoaderPos
      BY <1>3, <1>4, <1>10, <2>1, <2>2, LoaderStands
  <2>5. u \in loading_idx + 1 .. loading_idx + i - 1
      BY <1>9, <1>10, <2>1 DEF MarkedLoading
  <2>6. 2 * occupied <= ChunkCount
      BY DEF ShortOK, ReplayIn
  <2> QED BY <1>4, <1>11, <2>3, <2>4, <2>5, <2>6, NeedsHalf
<1>13. /\ p = IF using_idx = ChunkCount THEN 0 ELSE using_idx
       /\ using_idx \in 0 .. ChunkCount /\ occupied \in 1 .. ChunkCount
       /\ i \in 1 .. ChunkCount /\ needed \in 1 .. ChunkCount
    BY <1>1, <1>3, Indices DEF Wrapped
<1> QED BY <1>2, <1>12, <1>13, ConstantsAssumption DEF Chunk

\* A ring in which a packet takes no more than half has two chunks.
LEMMA BigRing ==
    ASSUME IInv, HalfRing, PacketsFit
    PROVE  ChunkCount > 1
<1>1. input \in Inputs /\ input.size \in Seq(Nat \ {0}) /\ input.size # << >>
    BY Kinds, ConstantsAssumption DEF PacketsFit
<1>2. 1 \in DOMAIN input.size /\ input.size[1] \in Nat \ {0}
    BY <1>1
<1>3. 2 * ChunksFor(input.size[1]) <= ChunkCount
    BY <1>1, <1>2 DEF HalfRing
<1>4. ChunksFor(input.size[1]) \in Nat \ {0}
    BY <1>2, ChunksForPositive
<1> QED BY <1>3, <1>4, ConstantsAssumption

\* What no step of the loading thread changes, and what it only changes one way.
LEMMA LoaderFacts ==
    ASSUME IInv, IInv', Chain, LoaderStep
    PROVE  /\ UNCHANGED <<input, using_idx, boundary, occupied, j, delivered, exiting>>
           /\ pc'[Replay] = pc[Replay]
           /\ \A c \in Chunk : (status'[c] = "EMPTY" => status[c] = "EMPTY")
                               /\ (status'[c] = "USING" => status[c] = "USING")
           /\ Finished => Finished'
<1> USE DEF At, Goto, Jump, Awake, Loader, Replay, ringVars, fileVars, skipVars, loadVars,
            fullVars, resultVars, replayVars, sharedVars, dataVars
<1>1. pc \in [Thread -> LoaderPlaces \union ReplayPlaces] /\ Loader \in Thread /\ Replay \in Thread
    BY DEF IInv, TypeOK, TypeControl, Thread
<1>2. status \in [Chunk -> Status]
    BY Kinds
<1>3. CASE L_Exit \/ L_Wrap \/ L_Turn \/ L_SkipNotify \/ L_SkipNone \/ L_Status \/ L_Lock
    BY <1>1, <1>3 DEF L_Exit, L_Wrap, L_Turn, L_SkipNotify, L_SkipNone, L_Status, L_Lock,
       Finished, NoMorePackets, PacketCount
<1>4. CASE L_PlanSkip \/ L_PlanLoad \/ L_SkipNext \/ L_SkipGet \/ L_SkipLock
    BY <1>1, <1>2, <1>4 DEF L_PlanSkip, L_PlanLoad, L_SkipNext, L_SkipGet, L_SkipLock,
       Finished, NoMorePackets, PacketCount
<1>5. CASE L_SkipMark \/ L_SkipDone \/ L_GrabNext \/ L_GrabGet \/ L_GrabLock \/ L_Begin
    BY <1>1, <1>2, <1>5 DEF L_SkipMark, L_SkipDone, L_GrabNext, L_GrabGet, L_GrabLock, L_Begin,
       Finished, NoMorePackets, PacketCount
<1>6. CASE L_Load \/ L_LoadFail
    BY <1>1, <1>6 DEF L_Load, L_LoadFail, MayLoad, Finished, NoMorePackets, PacketCount
<1>7. CASE L_Loaded
    BY <1>1, <1>7, Kinds DEF L_Loaded, Finished, NoMorePackets, PacketCount
<1>8. CASE L_Ready \/ L_Share \/ L_Bump \/ L_Finish \/ L_Again
    BY <1>1, <1>2, <1>8 DEF L_Ready, L_Share, L_Bump, L_Finish, L_Again,
       Finished, NoMorePackets, PacketCount
<1> QED BY <1>3, <1>4, <1>5, <1>6, <1>7, <1>8 DEF LoaderStep

\* The steps the loading thread takes where only the last chunk is skipped and
\* everything loads.
LEMMA LoaderTakes ==
    ASSUME IInv, Chain, AllLoad, LoaderStep
    PROVE  \/ L_Wrap \/ L_Turn \/ L_Status \/ L_Lock \/ L_PlanSkip \/ L_PlanLoad \/ L_SkipDone
           \/ L_GrabNext \/ L_GrabGet \/ L_GrabLock \/ L_Begin \/ L_Load \/ L_Loaded
           \/ L_Ready /\ LoaderIn({"load"}) /\ ~MayLoad
           \/ L_Share \/ L_Bump \/ L_Finish \/ L_Again
<1>1. ~LoaderIn({"skipNotify", "skipNone", "skipGet", "skipLock", "skipMark"})
    BY DEF Chain, SkipOK, LoaderIn, Skipping
<1>2. ~L_SkipNotify /\ ~L_SkipNone /\ ~L_SkipGet /\ ~L_SkipLock /\ ~L_SkipMark
    BY <1>1 DEF L_SkipNotify, L_SkipNone, L_SkipGet, L_SkipLock, L_SkipMark, Awake, At, LoaderIn
<1>3. ~L_SkipNext
  <2>1. SUFFICES ASSUME L_SkipNext PROVE FALSE
      OBVIOUS
  <2>2. LoaderIn(Skipping) /\ i < ChunkCount
      BY <2>1 DEF L_SkipNext, At, LoaderIn, Skipping
  <2>3. i = ChunkCount
      BY <2>2 DEF Chain, SkipOK
  <2> QED BY <2>2, <2>3, ConstantsAssumption
<1>4. ~L_Exit
    BY DEF L_Exit, Chain
<1>5. ~L_LoadFail
    BY AllOwed DEF L_LoadFail, Broken
<1>6. ~LoaderIn({"ready"})
    BY AllOwed DEF Chain, LoadOK
<1>7. L_Ready => LoaderIn({"load"}) /\ ~MayLoad
    BY <1>6 DEF L_Ready, At, LoaderIn
<1> QED BY <1>2, <1>3, <1>4, <1>5, <1>7 DEF LoaderStep

\* While it loads, the chunks of a large packet stay within half of the ring.
LEMMA LoaderKeepsShort ==
    ASSUME IInv, IInv', Chain, Chain', AllLoad, HalfRing, LoaderStep, ShortOK
    PROVE  ShortOK'
<1>1. /\ UNCHANGED <<using_idx, boundary, occupied>> /\ pc'[Replay] = pc[Replay]
      /\ \A c \in Chunk : status'[c] = "USING" => status[c] = "USING"
    BY LoaderFacts
<1>2. (ReplayIn(Releasing \union {"throttle"}) => 2 * occupied <= ChunkCount)'
    BY <1>1 DEF ShortOK, ReplayIn
<1>3. (Using => 2 * (EndOf(using_idx, boundary) - using_idx) <= ChunkCount)'
    BY <1>1 DEF ShortOK, Using, EndOf, ChunksFor, Base, Chunk
<1>4. LoaderIn(Loading)' => 2 * needed' <= ChunkCount /\ (needed' = needed)
  <2> SUFFICES ASSUME LoaderIn(Loading)' PROVE 2 * needed' <= ChunkCount /\ needed' = needed
      OBVIOUS
  <2> USE DEF LoaderIn, Loading, Goto, Jump, At, Awake, Loader, loadVars, sharedVars, dataVars
  <2>1. pc \in [Thread -> LoaderPlaces \union ReplayPlaces] /\ Loader \in Thread
      BY DEF IInv, TypeOK, TypeControl, Thread
  <2>2. L_Begin \/ L_Load \/ L_Loaded
      BY <2>1, LoaderTakes DEF L_Wrap, L_Turn, L_Status, L_Lock, L_PlanSkip, L_PlanLoad, L_SkipDone,
         L_GrabNext, L_GrabGet, L_GrabLock, L_Ready, L_Share, L_Bump, L_Finish, L_Again
  <2>3. CASE L_Begin
      BY <2>3, NeedsHalf DEF L_Begin, Grabbing
  <2>4. CASE L_Load \/ L_Loaded
      BY <2>4 DEF L_Load, L_Loaded, ShortOK
  <2> QED BY <2>2, <2>3, <2>4
<1>5. \A c \in Chunk : Leads(c)' =>
         \/ Leads(c) /\ current'[c] = current[c]
         \/ LoaderIn(Loading) /\ 2 * (EndOf(c, current'[c]) - c) <= ChunkCount
  <2> SUFFICES ASSUME NEW c \in Chunk, Leads(c)'
               PROVE  \/ Leads(c) /\ current'[c] = current[c]
                      \/ LoaderIn(Loading) /\ 2 * (EndOf(c, current'[c]) - c) <= ChunkCount
      BY DEF Chunk
  <2> USE DEF At, Goto, Jump, Awake, ringVars, fileVars, loadVars, sharedVars, dataVars
  <2>1. /\ status \in [Chunk -> Status] /\ current \in [Chunk -> Nat] /\ Base(c) \in Nat /\ Base(c)' = Base(c)
      BY Kinds, ChunkInMemory DEF Base
  <2>2. CASE L_Wrap \/ L_Turn \/ L_Status \/ L_Lock \/ L_PlanLoad \/ L_SkipDone
      BY <2>2 DEF L_Wrap, L_Turn, L_Status, L_Lock, L_PlanLoad, L_SkipDone, Leads, Base
  <2>3. CASE L_GrabNext \/ L_GrabGet \/ L_Bump \/ L_Finish \/ L_Again
      BY <2>3 DEF L_GrabNext, L_GrabGet, L_Bump, L_Finish, L_Again, Leads, Base
  <2>4. CASE L_PlanSkip
      BY <2>1, <2>4 DEF L_PlanSkip, Leads, Base
  <2>5. CASE L_GrabLock
    <3>1. LoaderIn({"grab"})' /\ ~LoaderIn(Loading)'
      <4>1. pc'[Loader] = "grab"
          BY <2>5 DEF L_GrabLock, IInv, TypeOK, TypeControl, Thread
      <4> QED BY <4>1 DEF LoaderIn, Loading
    <3>2. status'[c] = "LOADING" => current'[c] = Base(c)
        BY <2>1, <3>1 DEF Chain, BaseOK, Chunk
    <3>3. status'[c] # "LOADING"
        BY <2>1, <2>5, <3>2 DEF L_GrabLock, Leads
    <3> QED BY <2>1, <2>5, <3>3 DEF L_GrabLock, Leads
  <2>6. CASE L_Begin
    <3>1. c # loading_idx
      <4>1. status[loading_idx] = "EMPTY"
          BY <2>6 DEF L_Begin, IInv, LoaderInv, LoaderIn, Grabbing
      <4>2. c = loading_idx => current[c] = Base(c)
          BY <4>1 DEF Chain, BaseOK
      <4> QED BY <2>1, <2>6, <4>2 DEF L_Begin, Leads
    <3> QED BY <2>1, <2>6, <3>1 DEF L_Begin, Leads
  <2>7. CASE L_Load
    <3>1. LoaderIn({"load"}) /\ MayLoad /\ mem' \in {mem, Written(current[loading_idx], NextSize, next)}
        BY <2>7 DEF L_Load, LoaderIn
    <3>2. status' = status /\ current' = current
        BY <2>7 DEF L_Load
    <3> QED BY <2>1, <3>1, <3>2, WriteKeeps DEF Leads
  <2>8. CASE L_Loaded
    <3>1. PICK l \in Chunk, cur \in Nat, e \in Nat, new \in Nat :
             l = loading_idx /\ cur = current[l] /\ e = l + needed /\ new = cur + NextSize
      <4>1. LoaderIn(Loading) /\ NextSize \in Nat
          BY <2>8, LoadedStep
      <4>2. loading_idx \in Chunk /\ current[loading_idx] \in Nat /\ loading_idx + needed \in Nat
            /\ current[loading_idx] + NextSize \in Nat
          BY <4>1, LoadingChunks
      <4> QED BY <4>2
    <3>2. EndOf(l, new) = l + needed /\ l \in Nat
        BY <2>8, <3>1, LoadedEnds, ChunkInMemory
    <3>3. LoaderIn(Loading) /\ current'[l] = new
        BY <2>8, <3>1, LoadedStep
    <3>4. 2 * (EndOf(l, new) - l) <= ChunkCount
      <4>1. 2 * needed <= ChunkCount
          BY <3>3 DEF ShortOK
      <4> QED BY <3>1, <3>2, <4>1, Indices
    <3>5. CASE c # l
        BY <2>1, <2>8, <3>1, <3>5, LoadedStep DEF Leads
    <3> QED BY <3>3, <3>4, <3>5
  <2>9. CASE L_Ready
    <3>1. c = loading_idx => status[c] = "LOADING"
        BY <2>9, LoadingChunks DEF L_Ready, LoaderIn, Loading
    <3> QED BY <2>1, <2>9, <3>1 DEF L_Ready, Leads
  <2>10. CASE L_Share
    <3>1. i < needed /\ LoaderIn({"share"}) /\ mem' = mem
          /\ current' = [current EXCEPT ![loading_idx + i] = current[loading_idx]]
          /\ status' = [status EXCEPT ![loading_idx + i] = "READY"]
        BY <2>10 DEF L_Share, LoaderIn
    <3>2. loading_idx + i \in loading_idx + i .. loading_idx + needed - 1
        BY <3>1, Indices
    <3>3. mem[Base(loading_idx + i)] = 0
        BY <3>1, <3>2, AllOwed DEF Chain, ShareOK, Hollow
    <3>4. c # loading_idx + i
        BY <2>1, <3>1, <3>3 DEF Leads
    <3> QED BY <2>1, <3>1, <3>4 DEF Leads
  <2> QED BY <2>2, <2>3, <2>4, <2>5, <2>6, <2>7, <2>8, <2>9, <2>10, LoaderTakes
<1>6. (\A c \in Chunk : Leads(c) => 2 * (EndOf(c, current[c]) - c) <= ChunkCount)'
  <2> SUFFICES ASSUME NEW c \in Chunk, Leads(c)'
               PROVE  2 * (EndOf(c, current'[c]) - c) <= ChunkCount
      BY DEF Chunk, EndOf, ChunksFor, Base
  <2> QED BY <1>5 DEF ShortOK
<1> QED BY <1>2, <1>3, <1>4, <1>6 DEF ShortOK

\* What the loading thread knows at the end of the ring, of the trace and of
\* the frame range.
LEMMA LoaderKeepsPlaces ==
    ASSUME IInv, IInv', Chain, AllLoad, PacketsFit, LoaderStep, LoaderOK
    PROVE  LoaderOK'
<1> USE DEF LoaderIn, Goto, Jump, At, Awake, Loader, ringVars, fileVars, loadVars, sharedVars, dataVars
<1>1. pc \in [Thread -> LoaderPlaces \union ReplayPlaces] /\ Loader \in Thread
    BY DEF IInv, TypeOK, TypeControl, Thread
<1>2. LoaderIn(Skipping)' => /\ loading_idx' = ChunkCount' - 1
                             /\ status'[loading_idx'] \in {"SKIPPED", "EMPTY"}
  <2> SUFFICES ASSUME LoaderIn(Skipping)'
               PROVE  loading_idx' = ChunkCount - 1 /\ status'[loading_idx'] \in {"SKIPPED", "EMPTY"}
      OBVIOUS
  <2>1. L_PlanSkip
      BY <1>1, LoaderTakes DEF Skipping, L_Wrap, L_Turn, L_Status, L_Lock, L_PlanLoad, L_SkipDone,
         L_GrabNext, L_GrabGet, L_GrabLock, L_Begin, L_Load, L_Loaded, L_Ready, L_Share, L_Bump,
         L_Finish, L_Again
  <2>2. loading_idx \in Chunk /\ status \in [Chunk -> Status]
      BY <2>1, Indices, Kinds DEF L_PlanSkip
  <2>3. status'[loading_idx'] = "SKIPPED" /\ loading_idx' = loading_idx
      BY <2>1, <2>2 DEF L_PlanSkip
  <2>4. ChunksFor(NextSize) \in 0 .. 2
    <3>1. input \in Inputs /\ next \in 1 .. PacketCount + 1 /\ PacketCount \in Nat /\ NextSize > ChunkSize
        BY <2>1, Kinds DEF L_PlanSkip, DoesNotFit, IsLarge
    <3>2. input.size \in Seq(Nat \ {0})
        BY <3>1, ConstantsAssumption
    <3>3. next \in DOMAIN input.size /\ NextSize = input.size[next]
        BY <3>1, <3>2, ConstantsAssumption DEF NextSize, NoMorePackets, PacketCount
    <3>4. ChunksFor(NextSize) <= 2
        BY <3>1, <3>3 DEF PacketsFit
    <3>5. NextSize \in Nat \ {0}
        BY <3>2, <3>3
    <3> QED BY <3>4, <3>5, ChunksForPositive
  <2>5. loading_idx + ChunksFor(NextSize) > ChunkCount
      BY <2>1 DEF L_PlanSkip, DoesNotFit
  <2> QED BY <2>2, <2>3, <2>4, <2>5, ConstantsAssumption DEF Chunk
<1>3. (LoaderIn({"done"}) => Finished)'
  <2> SUFFICES ASSUME LoaderIn({"done"})' PROVE Finished'
      OBVIOUS
  <2>1. L_Finish
      BY <1>1, LoaderTakes DEF L_Wrap, L_Turn, L_Status, L_Lock, L_PlanSkip, L_PlanLoad, L_SkipDone,
         L_GrabNext, L_GrabGet, L_GrabLock, L_Begin, L_Load, L_Loaded, L_Ready, L_Share, L_Bump,
         L_Again
  <2> QED BY <2>1, LoaderFacts DEF L_Finish, Finished
<1>4. (exceed => /\ input.last # 0
                 /\ next = IF LoaderIn({"loaded"}) THEN input.last ELSE input.last + 1)'
  <2>1. input' = input
      BY LoaderFacts
  <2>2. CASE L_Load
    <3>1. next # 0
        BY Kinds
    <3> QED BY <1>1, <2>1, <2>2, <3>1 DEF L_Load
  <2>3. CASE L_Loaded
      BY <1>1, <2>1, <2>3 DEF L_Loaded, LoaderOK
  <2>4. CASE ~L_Load /\ ~L_Loaded
    <3>1. exceed' = exceed /\ next' = next /\ ~LoaderIn({"loaded"})' /\ ~LoaderIn({"loaded"})
      <4>1. CASE L_Wrap \/ L_Turn \/ L_Status \/ L_Lock \/ L_PlanSkip \/ L_PlanLoad \/ L_SkipDone
          BY <1>1, <4>1 DEF L_Wrap, L_Turn, L_Status, L_Lock, L_PlanSkip, L_PlanLoad, L_SkipDone
      <4>2. CASE L_GrabNext \/ L_GrabGet \/ L_GrabLock \/ L_Begin
          BY <1>1, <4>2 DEF L_GrabNext, L_GrabGet, L_GrabLock, L_Begin
      <4>3. CASE L_Ready \/ L_Share \/ L_Bump \/ L_Finish \/ L_Again
          BY <1>1, <4>3 DEF L_Ready, L_Share, L_Bump, L_Finish, L_Again
      <4> QED BY <2>4, <4>1, <4>2, <4>3, LoaderTakes
    <3> QED BY <2>1, <3>1 DEF LoaderOK
  <2> QED BY <2>2, <2>3, <2>4
<1> QED BY <1>2, <1>3, <1>4 DEF LoaderOK

\* As long as the replay has not started, the first chunk stays loaded.
LEMMA LoaderKeepsStart ==
    ASSUME IInv, IInv', Chain, AllLoad, HalfRing, PacketsFit, LoaderStep, LoaderOK, StartOK
    PROVE  StartOK'
<1> SUFFICES ASSUME ReplayIn({"start"})',
                    loading_idx' > 0 \/ LoaderIn({"share"})' \/ ~first_full'
             PROVE  using_idx' = ChunkCount /\ (status'[0] # "EMPTY" \/ Finished')
    BY LoaderFacts DEF StartOK, ReplayIn
<1> USE DEF LoaderIn, Goto, Jump, At, Awake, Loader, ringVars, fileVars, loadVars, fullVars, sharedVars, dataVars
<1>1. pc \in [Thread -> LoaderPlaces \union ReplayPlaces] /\ Loader \in Thread
    BY DEF IInv, TypeOK, TypeControl, Thread
<1>2. ReplayIn({"start"}) /\ using_idx' = using_idx
    BY LoaderFacts DEF ReplayIn
<1>3. /\ status[0] # "EMPTY" => status'[0] # "EMPTY"
      /\ Finished => Finished'
    BY LoaderFacts, Kinds
<1>4. loading_idx \in 0 .. ChunkCount /\ needed \in 1 .. ChunkCount /\ ChunkCount \in Nat \ {0}
    BY Indices, ConstantsAssumption
<1>5. \/ loading_idx > 0 \/ LoaderIn({"share"}) \/ ~first_full
      \/ L_Ready /\ loading_idx = 0
  <2>1. CASE L_Wrap
      BY <1>4, <2>1 DEF L_Wrap
  <2>2. CASE L_SkipDone
    <3>1. loading_idx = ChunkCount - 1
        BY <2>2 DEF LoaderOK, Skipping, L_SkipDone
    <3>2. ChunkCount > 1
        BY BigRing
    <3> QED BY <1>4, <3>1, <3>2
  <2>3. CASE L_Ready
      BY <1>4, <2>3
  <2>4. CASE L_Bump \/ L_Share
      BY <2>4 DEF L_Bump, L_Share
  <2>5. CASE L_Turn \/ L_Status \/ L_Lock \/ L_PlanSkip \/ L_PlanLoad
      BY <1>1, <2>5 DEF L_Turn, L_Status, L_Lock, L_PlanSkip, L_PlanLoad
  <2>6. CASE L_GrabNext \/ L_GrabGet \/ L_GrabLock \/ L_Begin \/ L_Load \/ L_Loaded
      BY <1>1, <2>6 DEF L_GrabNext, L_GrabGet, L_GrabLock, L_Begin, L_Load, L_Loaded
  <2>7. CASE L_Finish \/ L_Again
      BY <1>1, <2>7 DEF L_Finish, L_Again
  <2> QED BY <2>1, <2>2, <2>3, <2>4, <2>5, <2>6, <2>7, LoaderTakes
<1>6. CASE L_Ready /\ loading_idx = 0
    BY <1>2, <1>6, Kinds DEF L_Ready, StartOK
<1> QED BY <1>2, <1>3, <1>5, <1>6 DEF StartOK

\* The chunk the replay goes to next, when it gives its own back.
LEMMA NextChunk ==
    ASSUME IInv, Chain, AllLoad, ReplayIn({"emptied"} \union Releasing)
    PROVE  NextPos \in Chunk /\ Expects(NextPos, Delivered + 1)
<1>1. CASE ReplayIn({"emptied"})
  <2>1. Using /\ using_idx \in Chunk
      BY <1>1 DEF IInv, ReplayInv, ReplayIn, Using
  <2>2. ~Starved
      BY AllOwed DEF Starved
  <2>3. Wrapped(EndOf(using_idx, boundary)) \in Chunk /\ current[using_idx] <= boundary
        /\ current[using_idx] \in Nat /\ boundary \in Nat
      BY <2>1, <2>2, UsingFacts DEF Chain
  <2>4. ~(current[using_idx] < boundary)
      BY <1>1, <2>1, <2>2 DEF Chain, UsingOK
  <2>5. Expects(Wrapped(EndOf(using_idx, boundary)), Delivered + 1)
    <3>1. current[using_idx] = boundary
        BY <2>3, <2>4
    <3> QED BY <2>1, <2>2, <3>1 DEF Chain, UsingOK
  <2> QED BY <1>1, <2>3, <2>5 DEF NextPos
<1>2. CASE ~ReplayIn({"emptied"})
  <2>1. ~Using
      BY <1>2, UsingPlace DEF ReplayIn, Releasing
  <2> QED BY <1>2, <2>1, Positions DEF Chain, PosOK, NextPos
<1> QED BY <1>1, <1>2

\* While the replay gives its chunk back, the loading thread does not move on
\* from the next one before it has taken it.
LEMMA LoaderKeepsAhead ==
    ASSUME IInv, IInv', Chain, AllLoad, HalfRing, PacketsFit, LoaderStep, LoaderOK, AheadOK
    PROVE  AheadOK'
<1>1. /\ UNCHANGED <<using_idx, boundary, occupied>> /\ pc'[Replay] = pc[Replay]
      /\ \A c \in Chunk : status'[c] = "EMPTY" => status[c] = "EMPTY"
      /\ Finished => Finished'
    BY LoaderFacts
<1>2. NextPos' = NextPos
    BY <1>1 DEF NextPos, ReplayPos, ReplayIn, Wrapped, EndOf, ChunksFor, Base
<1> SUFFICES ASSUME ReplayIn({"emptied"} \union Releasing), status'[NextPos] = "EMPTY", ~Finished
             PROVE  loading_idx' = NextPos /\ ~LoaderIn({"share"})'
    BY <1>1, <1>2 DEF AheadOK, ReplayIn
<1>3. NextPos \in Chunk /\ status[NextPos] = "EMPTY"
    BY <1>1, NextChunk
<1>4. loading_idx = NextPos /\ ~LoaderIn({"share"})
    BY <1>3 DEF AheadOK
<1> USE DEF LoaderIn, Goto, Jump, At, Awake, Loader, ringVars, fileVars, loadVars, fullVars, sharedVars, dataVars
<1>5. pc \in [Thread -> LoaderPlaces \union ReplayPlaces] /\ Loader \in Thread
    BY DEF IInv, TypeOK, TypeControl, Thread
<1>6. ~L_Wrap /\ ~L_Share /\ ~L_Bump
    BY <1>3, <1>4, Kinds DEF L_Wrap, L_Share, L_Bump
<1>7. ~L_SkipDone
  <2> SUFFICES ASSUME L_SkipDone PROVE FALSE
      OBVIOUS
  <2>1. LoaderIn(Skipping)
      BY DEF L_SkipDone, Skipping
  <2>2. loading_idx = ChunkCount - 1 /\ LoaderPos = 0 /\ ChunkCount > 1
      BY <2>1, BigRing DEF LoaderOK, LoaderPos
  <2>3. LoaderPos = NextPos
      BY <1>3, NextChunk, Drained
  <2> QED BY <1>4, <2>2, <2>3, ConstantsAssumption
<1>8. ~L_Ready
  <2> SUFFICES ASSUME L_Ready PROVE FALSE
      OBVIOUS
  <2>1. LoaderIn(Loading)
      BY DEF L_Ready, Loading
  <2>2. status[loading_idx] = "LOADING"
      BY <2>1, LoadingChunks
  <2> QED BY <1>3, <1>4, <2>2
<1>9. CASE L_Turn \/ L_Status \/ L_Lock \/ L_PlanSkip \/ L_PlanLoad
    BY <1>4, <1>5, <1>9 DEF L_Turn, L_Status, L_Lock, L_PlanSkip, L_PlanLoad
<1>10. CASE L_GrabNext \/ L_GrabGet \/ L_GrabLock \/ L_Begin \/ L_Load \/ L_Loaded
    BY <1>4, <1>5, <1>10 DEF L_GrabNext, L_GrabGet, L_GrabLock, L_Begin, L_Load, L_Loaded
<1>11. CASE L_Finish \/ L_Again
    BY <1>4, <1>5, <1>11 DEF L_Finish, L_Again
<1> QED BY <1>6, <1>7, <1>8, <1>9, <1>10, <1>11, LoaderTakes

\* No step of the loading thread makes the replay ask too early.
LEMMA LoaderKeepsFull ==
    ASSUME IInv, IInv', Chain, Chain', AllLoad, HalfRing, PacketsFit, LoaderStep, Full
    PROVE  Full'
<1>1. ShortOK' /\ AheadOK' /\ StartOK' /\ LoaderOK'
    BY LoaderKeepsShort, LoaderKeepsAhead, LoaderKeepsStart, LoaderKeepsPlaces DEF Full
<1>2. CallOK'
  <2>1. using_idx \in 0 .. ChunkCount
      BY Indices
  <2>2. Wrapped(using_idx)' = Wrapped(using_idx) /\ Wrapped(using_idx) \in Chunk
      BY <2>1, LoaderFacts, Kinds DEF Wrapped
  <2> QED BY <2>2, LoaderFacts DEF Full, CallOK, ReplayIn
<1>3. ThrottleOK'
    BY LoaderFacts DEF Full, ThrottleOK, ReplayIn, Chunk
<1> QED BY <1>1, <1>2, <1>3 DEF Full

\* What no step of the replay thread changes, and how it changes the chunks.
LEMMA ReplayFacts ==
    ASSUME IInv, IInv', ReplayStep
    PROVE  /\ UNCHANGED <<input, mem, next, exceed, loading_idx, needed, i, first_full>>
           /\ pc'[Loader] = pc[Loader]
           /\ \A c \in Chunk : status'[c] \in {"READY", "LOADING"} =>
                                 status'[c] = status[c] /\ current'[c] = current[c]
           /\ R_Use \/ /\ boundary' = boundary
                        /\ \A c \in Chunk : status'[c] = "USING" => status[c] = "USING"
<1> USE DEF At, Goto, Jump, Awake, Loader, Replay, ringVars, fileVars, skipVars, loadVars,
            fullVars, resultVars, replayVars, sharedVars, dataVars
<1>1. pc \in [Thread -> LoaderPlaces \union ReplayPlaces] /\ Loader \in Thread /\ Replay \in Thread
    BY DEF IInv, TypeOK, TypeControl, Thread
<1>2. status \in [Chunk -> Status] /\ current \in [Chunk -> Nat]
    BY Kinds
<1>3. CASE R_Start \/ R_Head \/ R_IsReady \/ R_IsEmpty \/ R_Lock \/ R_Null \/ R_ReleaseNext
             \/ R_ReleaseReady \/ R_Throttled \/ R_Stop \/ R_Join
    BY <1>1, <1>3 DEF R_Start, R_Head, R_IsReady, R_IsEmpty, R_Lock, R_Null, R_ReleaseNext,
       R_ReleaseReady, R_Throttled, R_Stop, R_Join
<1>4. CASE R_Call \/ R_Advance \/ R_Garbage \/ R_SkipDone
    BY <1>1, <1>4 DEF R_Call, R_Advance, R_Garbage, R_SkipDone
<1>5. CASE R_SkipEmpty \/ R_SkipClear \/ R_Use
    BY <1>1, <1>2, <1>5 DEF R_SkipEmpty, R_SkipClear, R_Use
<1>6. CASE R_Emptied \/ R_ReleaseLock \/ R_ExitPreload
    BY <1>1, <1>2, <1>6 DEF R_Emptied, R_ReleaseLock, R_ExitPreload
<1>7. CASE R_Take
  <2>1. status[using_idx] = "USING"
      BY <1>7 DEF R_Take, IInv, ReplayInv, ReplayIn
  <2> QED BY <1>1, <1>2, <1>7, <2>1 DEF R_Take
<1> QED BY <1>3, <1>4, <1>5, <1>6, <1>7 DEF ReplayStep

\* What the replay uses and gives back stays within half of the ring.
LEMMA ReplayKeepsShort ==
    ASSUME IInv, IInv', Chain, AllLoad, ReplayStep, ShortOK
    PROVE  ShortOK'
<1>1. \A c \in Chunk : Leads(c)' => Leads(c) /\ current'[c] = current[c]
    BY ReplayFacts DEF Leads, Base
<1>2. (\A c \in Chunk : Leads(c) => 2 * (EndOf(c, current[c]) - c) <= ChunkCount)'
    BY <1>1 DEF ShortOK, EndOf, ChunksFor, Base, Chunk
<1>3. (LoaderIn(Loading) => 2 * needed <= ChunkCount)'
    BY ReplayFacts DEF ShortOK, LoaderIn
<1>4. (Using => 2 * (EndOf(using_idx, boundary) - using_idx) <= ChunkCount)'
  <2> SUFFICES ASSUME Using' PROVE 2 * (EndOf(using_idx', boundary') - using_idx') <= ChunkCount
      BY DEF EndOf, ChunksFor, Base
  <2>1. CASE R_Use
    <3>1. using_idx' = using_idx /\ boundary' = current[using_idx] /\ using_idx \in Chunk
        BY <2>1, UseStep DEF R_Use
    <3>2. Leads(using_idx)
        BY <2>1, UseStep, AllOwed
    <3> QED BY <3>1, <3>2 DEF ShortOK
  <2>2. CASE ~R_Use
    <3>1. boundary' = boundary /\ using_idx' \in Chunk /\ status[using_idx'] = "USING"
        BY <2>2, ReplayFacts DEF Using, Chunk
    <3>2. using_idx' = using_idx
        BY <3>1 DEF IInv, RingInv
    <3>3. Using
        BY <3>1, <3>2 DEF Using
    <3> QED BY <3>1, <3>2, <3>3 DEF ShortOK
  <2> QED BY <2>1, <2>2
<1>5. (ReplayIn(Releasing \union {"throttle"}) => 2 * occupied <= ChunkCount)'
  <2> SUFFICES ASSUME ReplayIn(Releasing \union {"throttle"})' PROVE 2 * occupied' <= ChunkCount
      OBVIOUS
  <2> USE DEF At, Goto, Jump, Awake, Replay, Releasing, ReplayIn, replayVars, dataVars
  <2>1. pc \in [Thread -> LoaderPlaces \union ReplayPlaces] /\ Replay \in Thread
      BY DEF IInv, TypeOK, TypeControl, Thread
  <2>2. CASE R_Emptied
    <3>1. PICK u \in Chunk, hi \in Nat : u = using_idx /\ hi = boundary
        BY <2>2, Indices DEF R_Emptied, IInv, ReplayInv
    <3>2. using_idx + occupied' = EndOf(u, hi) /\ Using /\ u \in Nat
        BY <2>2, <3>1, EmptiedStep, ChunkInMemory
    <3>3. 2 * (EndOf(u, hi) - u) <= ChunkCount
        BY <3>1, <3>2 DEF ShortOK
    <3>4. occupied' \in Nat
        BY Indices DEF IInv, TypeOK, TypeIndex
    <3>5. EndOf(u, hi) - u = occupied'
        BY <3>1, <3>2, <3>4
    <3> QED BY <3>3, <3>5
  <2>3. CASE ~R_Emptied
    <3>1. occupied' = occupied /\ ReplayIn(Releasing \union {"throttle"})
      <4>1. CASE R_Start \/ R_Call \/ R_SkipEmpty \/ R_SkipClear \/ R_SkipDone \/ R_Head \/ R_IsReady
          BY <2>1, <4>1 DEF R_Start, R_Call, R_SkipEmpty, R_SkipClear, R_SkipDone, R_Head, R_IsReady, Branch
      <4>2. CASE R_IsEmpty \/ R_Lock \/ R_Use \/ R_Null \/ R_Take \/ R_Garbage \/ R_Throttled
                   \/ R_Stop \/ R_ExitPreload \/ R_Join
          BY <2>1, <4>2 DEF R_IsEmpty, R_Lock, R_Use, R_Null, R_Take, R_Garbage, R_Throttled,
             R_Stop, R_ExitPreload, R_Join
      <4>3. CASE R_ReleaseNext \/ R_ReleaseReady \/ R_ReleaseLock \/ R_Advance
          BY <2>1, <4>3 DEF R_ReleaseNext, R_ReleaseReady, R_ReleaseLock, R_Advance
      <4> QED BY <2>3, <4>1, <4>2, <4>3 DEF ReplayStep
    <3> QED BY <3>1 DEF ShortOK
  <2> QED BY <2>2, <2>3
<1> QED BY <1>2, <1>3, <1>4, <1>5 DEF ShortOK

\* Modulo the number of chunks, as the code wraps an index of the ring.
LEMMA WrappedIs ==
    ASSUME NEW n \in 1 .. ChunkCount
    PROVE  Wrapped(n) = n % ChunkCount
<1>1. CASE n = ChunkCount
    BY <1>1, ConstantsAssumption DEF Wrapped
<1>2. CASE n < ChunkCount
    BY <1>2, ConstantsAssumption DEF Wrapped
<1> QED BY <1>1, <1>2, ConstantsAssumption

\* The last packet of a chunk is taken while the loading thread does not lag
\* behind: so it stands at the next chunk, if that is still EMPTY.
LEMMA TakeAhead ==
    ASSUME IInv, IInv', Chain, Chain', AllLoad, ~LoaderMayLag, Full, R_Take,
           ReplayIn({"emptied"})', status'[NextPos'] = "EMPTY", ~Finished
    PROVE  loading_idx' = NextPos' /\ ~LoaderIn({"share"})'
<1>1. LoaderMayLag \/ ~LoaderLags
    BY DEF R_Take
<1>2. PICK u \in Chunk, at \in Nat, hi \in Nat, at2 \in Nat :
         u = using_idx /\ at = current[u] /\ hi = boundary /\ at2 = current'[u]
  <2>1. using_idx \in Chunk
      BY DEF R_Take, IInv, ReplayInv, ReplayIn
  <2>2. current[using_idx] \in Nat /\ boundary \in Nat
      BY <2>1, Kinds, Indices
  <2>3. current'[using_idx] \in Nat
      BY <2>1 DEF IInv, TypeOK, TypeRing, Chunk
  <2> QED BY <2>1, <2>2, <2>3
<1>3. /\ ~Starved /\ Using /\ status[u] = "USING" /\ Delivered' = Delivered + 1 /\ at2 <= hi
      /\ UNCHANGED <<input, status, mem, next, exceed, loading_idx, using_idx, boundary>>
      /\ pc'[Loader] = pc[Loader]
      /\ \A c \in Chunk : c # u => current'[c] = current[c]
      /\ at2 < hi => ReplayIn({"call"})'
      /\ at2 = hi => Expects(Wrapped(EndOf(u, hi)), Delivered + 2)
  <2>1. Owes'
      BY AllOwed, ReplayFacts DEF ReplayStep, Owes
  <2> QED BY <1>2, <2>1, TakeStep
<1>4. PICK e \in 1 .. ChunkCount : e = EndOf(u, hi) /\ u < e /\ u \in Nat /\ Group(u, hi) /\ Wrapped(e) \in Chunk
    BY <1>2, <1>3, UsingFacts, ChunkInMemory DEF Chain
<1>5. NextPos' = Wrapped(e)
    BY <1>2, <1>3, <1>4 DEF NextPos, ReplayIn, Wrapped, EndOf, ChunksFor, Base
<1>6. at2 = hi
    BY <1>2, <1>3 DEF ReplayIn
<1>7. Delivered + 2 = next /\ LoaderPos = Wrapped(e)
  <2>1. Expects(Wrapped(e), Delivered + 2) /\ status[Wrapped(e)] = "EMPTY"
      BY <1>3, <1>4, <1>5, <1>6
  <2> QED BY <2>1, AllOwed DEF Expects, Leads
<1>8. ASSUME NEW c \in Chunk, Leads(c) PROVE FALSE
  <2>1. c # u
      BY <1>3, <1>8 DEF Leads
  <2>2. Leads(c)' /\ current'[c] = current[c]
      BY <1>3, <1>8, <2>1 DEF Leads, Base
  <2>3. Linked(c, Base(c), current[c])'
      BY <2>2 DEF Chain, LeadersOK, Chunk, Base
  <2>4. Base(c) \in Base(c) .. current[c] - 1 /\ mem[Base(c)] # 0
      BY <1>8, LeaderFacts, Kinds DEF Chain
  <2>5. mem'[Base(c)] \in Delivered' + 1 .. next' - 1
      BY <1>3, <2>2, <2>3, <2>4 DEF Linked, Base
  <2>6. Delivered' + 1 = next /\ next' = next /\ next \in Nat
    <3>1. Delivered' = Delivered + 1 /\ next' = next /\ Delivered + 2 = next
        BY <1>3, <1>7
    <3>2. Delivered \in Nat /\ next \in Nat
        BY Kinds
    <3> QED BY <3>1, <3>2
  <2>7. mem'[Base(c)] \in next .. next - 1
      BY <2>5, <2>6
  <2> QED BY <2>6, <2>7
<1>9. ~LoaderIn({"done"})
    BY DEF Full, LoaderOK
<1>10. ~LoaderIn({"share"}) /\ loading_idx # ChunkCount
    BY <1>1, <1>9 DEF LoaderLags, At, LoaderIn
<1>11. ~LoaderIn(Skipping)
  <2> SUFFICES ASSUME LoaderIn(Skipping) PROVE FALSE
      OBVIOUS
  <2>1. LoaderPos = 0 /\ loading_idx = ChunkCount - 1 /\ status[loading_idx] \in {"SKIPPED", "EMPTY"}
      BY DEF LoaderPos, Full, LoaderOK
  <2>2. loading_idx \in Chunk
      BY Indices DEF LoaderIn
  <2>3. e = ChunkCount
      BY <1>4, <1>7, <2>1 DEF Wrapped
  <2>4. u # loading_idx
      BY <1>3, <2>1
  <2>5. loading_idx \in u + 1 .. e - 1
      BY <1>4, <2>1, <2>2, <2>3, <2>4, ConstantsAssumption DEF Chunk
  <2> QED BY <1>4, <2>1, <2>5 DEF Group
<1> QED BY <1>3, <1>4, <1>5, <1>7, <1>8, <1>10, <1>11, LoaderStands DEF LoaderIn

\* While the replay gives its chunk back it does not touch the next one.
LEMMA ReplayKeepsAhead ==
    ASSUME IInv, IInv', Chain, Chain', AllLoad, HalfRing, ~LoaderMayLag, Full, ReplayStep
    PROVE  AheadOK'
<1>1. /\ UNCHANGED <<input, next, exceed, loading_idx>> /\ pc'[Loader] = pc[Loader]
      /\ Finished' <=> Finished
    BY ReplayFacts DEF Finished, NoMorePackets, PacketCount
<1> SUFFICES ASSUME ReplayIn({"emptied"} \union Releasing)', status'[NextPos'] = "EMPTY", ~Finished
             PROVE  loading_idx' = NextPos' /\ ~LoaderIn({"share"})'
    BY <1>1 DEF AheadOK
<1>2. R_Take \/ R_Emptied \/ R_ReleaseNext \/ R_ReleaseReady \/ R_ReleaseLock
  <2> USE DEF At, Goto, Jump, Awake, Replay, Releasing, ReplayIn
  <2>1. pc \in [Thread -> LoaderPlaces \union ReplayPlaces] /\ Replay \in Thread
      BY DEF IInv, TypeOK, TypeControl, Thread
  <2>2. ~R_Start /\ ~R_Call /\ ~R_SkipEmpty /\ ~R_SkipClear /\ ~R_SkipDone /\ ~R_Head /\ ~R_IsReady
      BY <2>1 DEF R_Start, R_Call, R_SkipEmpty, R_SkipClear, R_SkipDone, R_Head, R_IsReady, Branch
  <2>3. ~R_IsEmpty /\ ~R_Lock /\ ~R_Use /\ ~R_Null /\ ~R_Garbage /\ ~R_Throttled /\ ~R_Advance
        /\ ~R_Stop /\ ~R_ExitPreload /\ ~R_Join
      BY <2>1 DEF R_IsEmpty, R_Lock, R_Use, R_Null, R_Garbage, R_Throttled, R_Advance,
         R_Stop, R_ExitPreload, R_Join
  <2> QED BY <2>2, <2>3 DEF ReplayStep
<1>3. ASSUME ReplayIn({"emptied"} \union Releasing), NextPos' = NextPos, status[NextPos] = "EMPTY"
      PROVE  loading_idx' = NextPos' /\ ~LoaderIn({"share"})'
    BY <1>1, <1>3 DEF Full, AheadOK, LoaderIn
<1>4. CASE R_Take
  <2>1. ReplayIn({"emptied"})'
      BY <1>4 DEF R_Take, Goto, Replay, ReplayIn, Releasing, IInv, TypeOK, TypeControl, Thread
  <2> QED BY <1>4, <2>1, TakeAhead
<1>5. CASE R_Emptied
  <2>1. ReplayIn({"emptied"}) /\ boundary \in Nat /\ using_idx \in Chunk
      BY <1>5, Indices DEF R_Emptied, At, ReplayIn, IInv, ReplayInv
  <2>2. PICK u \in Chunk, hi \in Nat : u = using_idx /\ hi = boundary
      BY <2>1
  <2>3. /\ pc'[Replay] = "release" /\ using_idx' = using_idx /\ Using
        /\ \A c \in Chunk : c # u => status'[c] = status[c]
        /\ using_idx + occupied' = EndOf(u, hi) /\ EndOf(u, hi) \in 1 .. ChunkCount /\ EndOf(u, hi) > u
        /\ Wrapped(EndOf(u, hi)) \in Chunk
      BY <1>5, <2>2, EmptiedStep
  <2>4. NextPos = Wrapped(EndOf(u, hi)) /\ NextPos' = NextPos
      BY <2>1, <2>2, <2>3 DEF NextPos, ReplayPos, ReplayIn, Releasing, Wrapped
  <2>5. NextPos # u
    <3>1. 2 * (EndOf(u, hi) - u) <= ChunkCount /\ u \in Nat
        BY <2>2, <2>3, ChunkInMemory DEF Full, ShortOK
    <3> QED BY <2>3, <2>4, <3>1, ConstantsAssumption DEF Wrapped
  <2>6. status[NextPos] = "EMPTY"
      BY <2>3, <2>4, <2>5
  <2> QED BY <1>3, <2>1, <2>4, <2>6 DEF ReplayIn
<1>6. CASE R_ReleaseNext \/ R_ReleaseReady
  <2>1. /\ ReplayIn(Releasing) /\ ReplayIn(Releasing)' /\ ~ReplayIn({"emptied"}) /\ ~ReplayIn({"emptied"})'
        /\ UNCHANGED <<using_idx, occupied, status>>
      BY <1>6 DEF R_ReleaseNext, R_ReleaseReady, Awake, At, Jump, Goto, Replay, ReplayIn, Releasing,
         ringVars, replayVars, dataVars, IInv, TypeOK, TypeControl, Thread
  <2>2. NextPos' = NextPos
      BY <2>1 DEF NextPos, ReplayPos, ReplayIn, Releasing, Wrapped
  <2> QED BY <1>3, <2>1, <2>2 DEF ReplayIn
<1>7. CASE R_ReleaseLock
  <2>1. /\ j \in Chunk /\ ReplayIn(Releasing) /\ ReplayIn(Releasing)'
        /\ UNCHANGED <<using_idx, occupied>>
        /\ \A c \in Chunk : c # j => status'[c] = status[c]
      BY <1>7, ReleaseStep
  <2>2. /\ ~ReplayIn({"emptied"}) /\ ~ReplayIn({"emptied"})' /\ ReplayIn({"releaseLock"})
        /\ ~ReplayIn({"skipClear"}) /\ ~ReplayIn({"skipClear"})'
      BY <2>1, <1>7 DEF ReplayIn, Releasing, R_ReleaseLock, At
  <2>3. NextPos' = NextPos /\ NextPos = Wrapped(using_idx + occupied)
      BY <2>1, <2>2 DEF NextPos, ReplayPos, ReplayIn, Releasing, Wrapped
  <2>4. j < using_idx + occupied /\ j > 0
    <3>1. using_idx \in Nat /\ j \in Nat /\ j \in using_idx + 1 .. using_idx + occupied
        BY <2>1, Indices, ChunkInMemory, Reach
    <3>2. j < using_idx + occupied
        BY <2>2 DEF IInv, ReplayInv, ReplayIn
    <3> QED BY <3>1, <3>2
  <2>5. NextPos # j /\ NextPos \in Chunk
    <3>1. NextPos \in Chunk
        BY <2>1, NextChunk DEF ReplayIn
    <3>2. NextPos # j
        BY <2>1, <2>3, <2>4, ChunkInMemory DEF Wrapped
    <3> QED BY <3>1, <3>2
  <2> QED BY <1>3, <2>1, <2>3, <2>5 DEF ReplayIn
<1> QED BY <1>2, <1>4, <1>5, <1>6, <1>7

\* The replay asks for a chunk that has been taken, or for the last time.
LEMMA ReplayKeepsCall ==
    ASSUME IInv, IInv', Chain, AllLoad, HalfRing, ~StatusReread, StartInv, Full, ReplayStep
    PROVE  CallOK'
<1>1. Finished' <=> Finished
    BY ReplayFacts DEF Finished, NoMorePackets, PacketCount
<1> SUFFICES ASSUME ReplayIn({"call", "isReady"})', ~Finished
             PROVE  status'[Wrapped(using_idx')] # "EMPTY"
    BY <1>1 DEF CallOK, Wrapped
<1> USE DEF At, Goto, Jump, Awake, Replay, ReplayIn, ringVars, replayVars, dataVars
<1>2. pc \in [Thread -> LoaderPlaces \union ReplayPlaces] /\ Replay \in Thread
    BY DEF IInv, TypeOK, TypeControl, Thread
<1>3. CASE R_Start
  <2>1. using_idx = ChunkCount /\ status' = status /\ using_idx' = using_idx
      BY <1>3 DEF R_Start, Full, StartOK
  <2>2. ~LoaderIn({"done"})
      BY DEF Full, LoaderOK
  <2>3. ~first_full
      BY <1>3, <2>2 DEF R_Start, StartInv, LoaderIn
  <2>4. status[0] # "EMPTY"
      BY <1>3, <2>3 DEF R_Start, Full, StartOK
  <2> QED BY <2>1, <2>4 DEF Wrapped
<1>4. CASE R_Take
  <2>1. using_idx \in Chunk /\ status[using_idx] = "USING"
      BY <1>4 DEF R_Take, IInv, ReplayInv
  <2>2. Wrapped(using_idx) = using_idx
      BY <2>1, Kinds DEF Wrapped
  <2> QED BY <1>4, <2>1, <2>2 DEF R_Take
<1>5. CASE R_Advance
  <2>1. ReplayIn(Releasing) /\ ~ReplayIn({"emptied"}) /\ ~ReplayIn({"skipClear"})
      BY <1>5 DEF R_Advance, Releasing
  <2>2. using_idx' = using_idx + occupied /\ status' = status /\ using_idx' \in 1 .. ChunkCount
      BY <1>5, <2>1, Reach DEF R_Advance
  <2>3. NextPos = Wrapped(using_idx')
      BY <2>1, <2>2 DEF NextPos, ReplayPos, Wrapped
  <2>4. loading_idx # NextPos
      BY <1>2, <1>5, <2>2, <2>3, WrappedIs DEF R_Advance
  <2> QED BY <2>1, <2>2, <2>3, <2>4 DEF Full, AheadOK
<1>6. CASE R_Throttled
  <2>1. ReplayIn({"throttle"}) /\ status' = status /\ using_idx' = using_idx
      BY <1>6 DEF R_Throttled
  <2>2. status[using_idx - occupied] # "EMPTY"
      BY <1>6 DEF R_Throttled, Predicate, Finished
  <2> QED BY <2>1, <2>2, ThrottledLate DEF Full
<1>7. CASE R_SkipDone
    BY <1>2, <1>7, ConstantsAssumption DEF R_SkipDone, Wrapped
<1>8. CASE R_Head
    BY <1>8, ConstantsAssumption DEF R_Head, Predicate, Finished, Wrapped, IInv, ReplayInv
<1>9. R_Start \/ R_Take \/ R_Advance \/ R_Throttled \/ R_SkipDone \/ R_Head
  <2>1. ~R_Call /\ ~R_SkipEmpty /\ ~R_SkipClear /\ ~R_IsReady /\ ~R_IsEmpty /\ ~R_Lock /\ ~R_Use /\ ~R_Null
      BY <1>2 DEF R_Call, R_SkipEmpty, R_SkipClear, R_IsReady, R_IsEmpty, R_Lock, R_Use, R_Null, Branch
  <2>2. ~R_Garbage /\ ~R_Emptied /\ ~R_ReleaseNext /\ ~R_ReleaseReady /\ ~R_ReleaseLock
        /\ ~R_Stop /\ ~R_ExitPreload /\ ~R_Join
      BY <1>2 DEF R_Garbage, R_Emptied, R_ReleaseNext, R_ReleaseReady, R_ReleaseLock,
         R_Stop, R_ExitPreload, R_Join
  <2> QED BY <2>1, <2>2 DEF ReplayStep
<1> QED BY <1>3, <1>4, <1>5, <1>6, <1>7, <1>8, <1>9

\* No step of the replay thread makes it ask too early.
LEMMA ReplayKeepsFull ==
    ASSUME IInv, IInv', Chain, Chain', AllLoad, HalfRing, ~StatusReread, ~LoaderMayLag, StartInv,
           Full, ReplayStep
    PROVE  Full'
<1>1. ShortOK' /\ AheadOK' /\ CallOK'
    BY ReplayKeepsShort, ReplayKeepsAhead, ReplayKeepsCall DEF Full
<1>2. UNCHANGED <<input, next, exceed, loading_idx>> /\ pc'[Loader] = pc[Loader]
    BY ReplayFacts
<1>3. LoaderOK'
  <2>1. /\ (LoaderIn({"done"}) => Finished)'
        /\ (exceed => /\ input.last # 0
                      /\ next = IF LoaderIn({"loaded"}) THEN input.last ELSE input.last + 1)'
      BY <1>2 DEF Full, LoaderOK, LoaderIn, Finished, NoMorePackets, PacketCount
  <2>2. ASSUME LoaderIn(Skipping)'
        PROVE  loading_idx' = ChunkCount - 1 /\ status'[loading_idx'] \in {"SKIPPED", "EMPTY"}
    <3>1. LoaderIn(Skipping) /\ loading_idx \in Chunk /\ loading_idx' = loading_idx
        BY <1>2, <2>2, Indices DEF LoaderIn
    <3>2. loading_idx = ChunkCount - 1 /\ status[loading_idx] \in {"SKIPPED", "EMPTY"}
        BY <3>1 DEF Full, LoaderOK
    <3>3. status'[loading_idx] \notin {"READY", "LOADING"}
        BY <3>1, <3>2, ReplayFacts
    <3>4. mtx'[loading_idx] = Loader
        BY <2>2, <3>1 DEF IInv, RingInv, HeldByLoader, LoaderIn, Chunk
    <3>5. status'[loading_idx] # "USING"
        BY <3>1, <3>4 DEF IInv, RingInv, Chunk, Loader, Replay
    <3>6. status'[loading_idx] \in Status
        BY <3>1 DEF IInv, TypeOK, TypeRing, Chunk
    <3> QED BY <3>1, <3>2, <3>3, <3>5, <3>6 DEF Status
  <2> QED BY <2>1, <2>2 DEF LoaderOK
<1> USE DEF At, Goto, Jump, Awake, Replay, ReplayIn, replayVars, dataVars
<1>4. pc \in [Thread -> LoaderPlaces \union ReplayPlaces] /\ Replay \in Thread
    BY DEF IInv, TypeOK, TypeControl, Thread
<1>5. ReplayIn({"start", "throttle"})' => R_Advance /\ ReplayIn({"throttle"})'
  <2>1. R_Advance => ~ReplayIn({"start"})'
      BY <1>4 DEF R_Advance
  <2>2. R_Start \/ R_Call \/ R_SkipEmpty \/ R_SkipClear \/ R_SkipDone \/ R_Head \/ R_IsReady
          => ~ReplayIn({"start", "throttle"})'
      BY <1>4 DEF R_Start, R_Call, R_SkipEmpty, R_SkipClear, R_SkipDone, R_Head, R_IsReady, Branch
  <2>3. R_IsEmpty \/ R_Lock \/ R_Use \/ R_Null \/ R_Take \/ R_Garbage \/ R_Emptied \/ R_Throttled
          => ~ReplayIn({"start", "throttle"})'
      BY <1>4 DEF R_IsEmpty, R_Lock, R_Use, R_Null, R_Take, R_Garbage, R_Emptied, R_Throttled
  <2>4. R_ReleaseNext \/ R_ReleaseReady \/ R_ReleaseLock \/ R_Stop \/ R_ExitPreload \/ R_Join
          => ~ReplayIn({"start", "throttle"})'
      BY <1>4 DEF R_ReleaseNext, R_ReleaseReady, R_ReleaseLock, R_Stop, R_ExitPreload, R_Join
  <2> QED BY <2>1, <2>2, <2>3, <2>4 DEF ReplayStep
<1>6. StartOK'
    BY <1>5 DEF StartOK, R_Advance
<1>7. ThrottleOK'
  <2> SUFFICES ASSUME ReplayIn({"throttle"})' PROVE using_idx' - occupied' \in Chunk
      BY DEF ThrottleOK, Chunk
  <2>1. using_idx' = using_idx + occupied /\ occupied' = occupied /\ ReplayIn(Releasing)
      BY <1>5 DEF R_Advance, Releasing
  <2>2. using_idx \in Chunk /\ using_idx \in 0 .. ChunkCount /\ occupied \in 1 .. ChunkCount
      BY <2>1, Indices
  <2>3. using_idx' - occupied' = using_idx
      BY <2>1, <2>2
  <2> QED BY <2>2, <2>3
<1> QED BY <1>1, <1>3, <1>6, <1>7 DEF Full

\* When the replay finds the chunk EMPTY it has had every packet.
LEMMA HadAll ==
    ASSUME IInv, Chain, InOrder, AllLoad, Full, ReplayIn({"call", "isReady"}), ~RangeReplayed,
           status[Wrapped(using_idx)] = "EMPTY"
    PROVE  Delivered = PacketCount
<1>1. PICK p \in Chunk : p = Wrapped(using_idx)
    BY Indices, Kinds DEF Wrapped
<1>2. ~Using
    BY <1>1, Kinds DEF Using, Wrapped
<1>3. ReplayPos = p
    BY <1>1 DEF ReplayPos, ReplayIn, Releasing
<1>4. Delivered + 1 = next /\ LoaderPos = p /\ \A c \in Chunk : ~Leads(c)
    BY <1>1, <1>2, <1>3, Drained DEF Chain, PosOK
<1>5. Finished
    BY DEF Full, CallOK
<1>6. CASE NoMorePackets
    BY <1>4, <1>6, Kinds DEF NoMorePackets
<1>7. CASE exceed
  <2>1. ~LoaderIn({"loaded"})
    <3> SUFFICES ASSUME LoaderIn({"loaded"}) PROVE FALSE
        OBVIOUS
    <3>1. LoaderIn(Loading)
        BY DEF LoaderIn, Loading
    <3>2. loading_idx \in Chunk /\ status[loading_idx] = "LOADING" /\ ~Leads(loading_idx)
        BY <1>4, <3>1, LoadingChunks
    <3>3. ~(current[loading_idx] > Base(loading_idx))
        BY <3>1, <3>2, FilledLeads
    <3>4. LoaderPos = loading_idx
        BY <3>2, <3>3, Kinds DEF LoaderPos, LoaderIn, Skipping, Wrapped
    <3> QED BY <1>1, <1>4, <3>2, <3>4
  <2>2. input.last # 0 /\ next = input.last + 1
      BY <1>7, <2>1 DEF Full, LoaderOK
  <2>3. input.last \in Nat /\ Delivered = input.last
    <3>1. input.last \in Nat
        BY Kinds, ConstantsAssumption
    <3> QED BY <1>4, <2>2, <3>1, Kinds
  <2>4. delivered \in Seq(0 .. PacketCount)
      BY DEF IInv, TypeOK, TypeFile
  <2>5. Delivered \in DOMAIN delivered /\ delivered # << >>
      BY <2>2, <2>3, <2>4 DEF Delivered
  <2>6. delivered[Delivered] = Delivered
      BY <2>5, AllOwed DEF InOrder
  <2> QED BY <2>3, <2>5, <2>6 DEF RangeReplayed, Delivered
<1> QED BY <1>5, <1>6, <1>7 DEF Finished

\* The replay never finds a packet that is none.
LEMMA NoGarbage ==
    ASSUME IInv, Chain, AllLoad
    PROVE  ~R_Garbage
<1> SUFFICES ASSUME R_Garbage PROVE FALSE
    OBVIOUS
<1>1. ReplayIn({"take"}) /\ HeaderAt(current[using_idx]) = 0
    BY DEF R_Garbage, At, ReplayIn
<1>2. HeaderAt(current[using_idx]) = Delivered + 1
    BY <1>1, TakePlace, AllOwed
<1> QED BY <1>1, <1>2, Kinds

\* A step of the replay thread keeps what it knows of the packets it has had.
LEMMA ReplayKeepsEnd ==
    ASSUME IInv, IInv', OrderInv, AllLoad, ~StatusReread, FullInv, ReplayStep
    PROVE  /\ (ReplayIn(Asking) => ~RangeReplayed)'
           /\ (ReplayIn({"null"}) => Delivered = PacketCount)'
           /\ (~ReplayIn({"crashed"}))'
<1> USE DEF At, Goto, Jump, Awake, Replay, ReplayIn, ringVars, resultVars, replayVars, dataVars
<1>1. pc \in [Thread -> LoaderPlaces \union ReplayPlaces] /\ Replay \in Thread
    BY DEF IInv, TypeOK, TypeControl, Thread
<1>2. input' = input
    BY ReplayFacts
<1>3. ReplayIn({"call", "isReady", "take"}) => Active /\ Chain /\ Full /\ InOrder
    BY AllOwed DEF FullInv, OrderInv, Active, ReplayPlaces
<1>4. CASE R_Call
  <2>1. ~RangeReplayed /\ delivered' = delivered /\ ReplayIn({"call"})
      BY <1>4 DEF R_Call
  <2>2. using_idx' = Wrapped(using_idx)
      BY <1>4 DEF R_Call, Wrapped
  <2>3. ReplayIn({"null"})' => status[Wrapped(using_idx)] = "EMPTY"
      BY <1>1, <1>4, <2>2 DEF R_Call, Branch
  <2>4. ReplayIn({"null"})' => Delivered = PacketCount
      BY <1>3, <2>1, <2>3, HadAll
  <2>5. ~ReplayIn({"crashed"})'
      BY <1>1, <1>4 DEF R_Call, Branch
  <2> QED BY <1>2, <2>1, <2>4, <2>5 DEF RangeReplayed, Delivered, PacketCount
<1>5. CASE R_IsReady
  <2>1. delivered' = delivered /\ ReplayIn({"isReady"}) /\ using_idx = 0
      BY <1>5 DEF R_IsReady, IInv, ReplayInv
  <2>2. ~RangeReplayed
      BY <2>1 DEF FullInv, Asking
  <2>3. ReplayIn({"null"})' => status[Wrapped(using_idx)] = "EMPTY"
      BY <1>1, <1>5, <2>1, ConstantsAssumption DEF R_IsReady, Branch, Wrapped
  <2>4. ReplayIn({"null"})' => Delivered = PacketCount
      BY <1>3, <2>1, <2>2, <2>3, HadAll
  <2>5. ~ReplayIn({"crashed"})'
      BY <1>1, <1>5 DEF R_IsReady, Branch
  <2> QED BY <1>2, <2>1, <2>2, <2>4, <2>5 DEF RangeReplayed, Delivered, PacketCount
<1>6. CASE R_Garbage
    BY <1>3, <1>6, NoGarbage DEF R_Garbage
<1>7. CASE R_Take
    BY <1>1, <1>7 DEF R_Take, Asking
<1>8. CASE R_SkipEmpty \/ R_SkipClear \/ R_SkipDone \/ R_Head \/ R_Lock \/ R_Use
  <2>1. delivered' = delivered /\ ReplayIn(Asking) /\ ~ReplayIn({"null", "crashed"})'
      BY <1>1, <1>8 DEF R_SkipEmpty, R_SkipClear, R_SkipDone, R_Head, R_Lock, R_Use, Asking
  <2> QED BY <1>2, <2>1 DEF FullInv, RangeReplayed
<1>9. CASE R_Start \/ R_Null \/ R_Emptied \/ R_ReleaseNext \/ R_ReleaseReady \/ R_ReleaseLock
    BY <1>1, <1>9 DEF R_Start, R_Null, R_Emptied, R_ReleaseNext, R_ReleaseReady, R_ReleaseLock, Asking
<1>10. CASE R_Advance \/ R_Throttled \/ R_Stop \/ R_ExitPreload \/ R_Join
    BY <1>1, <1>10 DEF R_Advance, R_Throttled, R_Stop, R_ExitPreload, R_Join, Asking
<1>11. CASE R_IsEmpty
    BY <1>11 DEF R_IsEmpty, IInv, ReplayInv
<1> QED BY <1>4, <1>5, <1>6, <1>7, <1>8, <1>9, <1>10, <1>11 DEF ReplayStep

\* Every step keeps what the replay knows when it asks for a packet.
LEMMA NextKeepsFull ==
    ASSUME IInv, IInv', OrderInv, OrderInv', StartInv, AllLoad, HalfRing, PacketsFit,
           ~StatusReread, ~LoaderMayLag, FullInv, [Next]_vars
    PROVE  FullInv'
<1>1. Owes /\ Owes'
  <2>1. input.bad = 0
      BY AllOwed
  <2>2. input' \in Inputs
      BY DEF IInv, TypeOK, TypeRing
  <2> QED BY <2>1, <2>2 DEF Owes, AllLoad
<1>2. CASE LoaderStep
  <2>1. UNCHANGED <<input, delivered>> /\ pc'[Replay] = pc[Replay]
      BY <1>2, LoaderDeliversNothing
  <2>2. Active => Full'
    <3> SUFFICES ASSUME Active PROVE Full'
        OBVIOUS
    <3>1. Active' /\ Chain /\ Chain' /\ Full
        BY <1>1, <2>1 DEF Active, ReplayIn, OrderInv, FullInv
    <3> QED BY <1>2, <3>1, LoaderKeepsFull
  <2> QED BY <2>1, <2>2 DEF FullInv, Active, ReplayIn, RangeReplayed, Delivered, PacketCount
<1>3. CASE ReplayStep
  <2>1. Active' => Full'
    <3> SUFFICES ASSUME Active' PROVE Full'
        OBVIOUS
    <3>1. Active /\ Chain /\ Chain' /\ Full
        BY <1>1, <1>3, ReplayDelivers DEF OrderInv, FullInv
    <3> QED BY <1>3, <3>1, ReplayKeepsFull
  <2> QED BY <1>3, <2>1, ReplayKeepsEnd DEF FullInv
<1>4. CASE UNCHANGED <<dataVars, pc>>
  <2>1. UNCHANGED <<input, status, current, mem, next, exceed, loading_idx, needed, using_idx, boundary,
                    occupied, j, first_full, delivered, pc>>
      BY <1>4 DEF ringVars, fileVars, loadVars, fullVars, resultVars, replayVars, sharedVars, dataVars
  <2>2. UNCHANGED <<Active, ReplayIn(Asking), ReplayIn({"null"}), ReplayIn({"crashed"}), RangeReplayed, Delivered, PacketCount>>
      BY <2>1 DEF Active, ReplayIn, RangeReplayed, Delivered, PacketCount
  <2>3. ShortOK => ShortOK'
      BY <2>1 DEF ShortOK, LoaderIn, ReplayIn, Leads, Using, EndOf, ChunksFor, Base, Chunk
  <2>4. AheadOK => AheadOK'
      BY <2>1 DEF AheadOK, NextPos, ReplayPos, LoaderIn, ReplayIn, Wrapped, EndOf, ChunksFor, Base,
         Finished, NoMorePackets, PacketCount
  <2>5. (CallOK => CallOK') /\ (StartOK => StartOK') /\ (LoaderOK => LoaderOK') /\ (ThrottleOK => ThrottleOK')
      BY <2>1 DEF CallOK, StartOK, LoaderOK, ThrottleOK, LoaderIn, ReplayIn, Wrapped, Chunk,
         Finished, NoMorePackets, PacketCount
  <2> QED BY <2>2, <2>3, <2>4, <2>5 DEF FullInv, Full
<1>5. CASE \E t \in Thread : CondvarStep(t)
    BY <1>4, <1>5 DEF CondvarStep, EvalFalse, Block, SpuriousWakeup
<1>6. CASE Terminated \/ UNCHANGED vars
    BY <1>4, <1>6 DEF Terminated, vars
<1> QED BY <1>2, <1>3, <1>5, <1>6 DEF Next

\* Before its first notification the replay thread sleeps.
LEMMA InitStart == Init => StartInv
  BY DEF Init, StartInv, At, Thread, Replay, Loader

\* Every step keeps this: only the loading thread wakes it, when the ring is full
\* or all is loaded.
LEMMA NextKeepsStart == ~SpuriousWakeups /\ StartInv /\ [Next]_vars => StartInv'
<1> SUFFICES ASSUME ~SpuriousWakeups, StartInv, [Next]_vars PROVE StartInv'
  OBVIOUS
<1> USE DEF StartInv, At, Thread, Loader, Replay
<1>1. CASE LoaderStep
  <2>1. CASE L_Exit \/ L_Turn \/ L_SkipNone \/ L_Status \/ L_Lock \/ L_PlanSkip \/ L_PlanLoad
    BY <2>1 DEF L_Exit, L_Turn, L_SkipNone, L_Status, L_Lock, L_PlanSkip, L_PlanLoad,
         Jump, Goto, dataVars, sharedVars, fullVars
  <2>2. CASE L_Wrap
    BY <2>2 DEF L_Wrap, Goto, NotifyIf, Notify
  <2>3. CASE L_SkipNext \/ L_SkipGet \/ L_SkipLock \/ L_SkipMark \/ L_SkipDone
    BY <2>3 DEF L_SkipNext, L_SkipGet, L_SkipLock, L_SkipMark, L_SkipDone, Awake,
         Jump, Goto, dataVars, sharedVars, fullVars
  <2>4. CASE L_GrabNext \/ L_GrabGet \/ L_GrabLock \/ L_LoadFail \/ L_Loaded \/ L_Ready \/ L_Again
    BY <2>4 DEF L_GrabNext, L_GrabGet, L_GrabLock, L_LoadFail, L_Loaded, L_Ready, L_Again, Awake,
         Jump, Goto, dataVars, sharedVars, fullVars
  <2>5. CASE L_SkipNotify \/ L_Begin \/ L_Load \/ L_Share \/ L_Bump
    BY <2>5 DEF L_SkipNotify, L_Begin, L_Load, L_Share, L_Bump, NotifyIf, Notify, WaitsOn,
         Goto, dataVars, sharedVars, fullVars
  <2>6. CASE L_Finish
    BY <2>6 DEF L_Finish, NotifyIf, Notify, Goto, dataVars, sharedVars, fullVars
  <2> QED BY <1>1, <2>1, <2>2, <2>3, <2>4, <2>5, <2>6 DEF LoaderStep
<1>2. CASE ReplayStep
  <2>1. first_full' = first_full /\ (pc[Replay] # "start" \/ R_Start)
    BY <1>2 DEF ReplayStep, R_Start, R_Call, R_SkipEmpty, R_SkipClear, R_SkipDone, R_Head,
     R_IsReady, R_IsEmpty, R_Lock, R_Use, R_Null, R_Take, R_Garbage, R_Emptied, R_ReleaseNext,
     R_ReleaseReady, R_ReleaseLock, R_Advance, R_Throttled, R_Stop, R_ExitPreload, R_Join,
     Awake, Jump, Goto, dataVars, sharedVars, fullVars
  <2>2. CASE R_Start \/ R_Call \/ R_SkipEmpty \/ R_SkipClear \/ R_SkipDone \/ R_Head \/ R_IsReady
    BY <2>2 DEF R_Start, R_Call, R_SkipEmpty, R_SkipClear, R_SkipDone, R_Head, R_IsReady,
         Branch, Notify, Awake, Jump, Goto
  <2>3. CASE R_IsEmpty \/ R_Lock \/ R_Use \/ R_Null \/ R_Take \/ R_Garbage \/ R_Emptied
    BY <2>3 DEF R_IsEmpty, R_Lock, R_Use, R_Null, R_Take, R_Garbage, R_Emptied, Notify, Jump, Goto
  <2>4. CASE R_ReleaseNext \/ R_ReleaseReady \/ R_ReleaseLock \/ R_Advance \/ R_Throttled
              \/ R_Stop \/ R_ExitPreload \/ R_Join
    BY <2>4 DEF R_ReleaseNext, R_ReleaseReady, R_ReleaseLock, R_Advance, R_Throttled, R_Stop,
         R_ExitPreload, R_Join, Notify, Awake, Jump, Goto
  <2> QED BY <1>2, <2>2, <2>3, <2>4 DEF ReplayStep
<1>3. ASSUME NEW t \in Thread, CondvarStep(t) PROVE StartInv'
  <2>1. pc' = pc /\ first_full' = first_full
    BY <1>3 DEF CondvarStep, EvalFalse, Block, SpuriousWakeup, dataVars, sharedVars, fullVars
  <2>2. \E s \in {"falling", "asleep"} : wait' = [wait EXCEPT ![t] = s]
    BY <1>3 DEF CondvarStep, EvalFalse, Block, SpuriousWakeup
  <2> QED BY <2>1, <2>2
<1>4. CASE UNCHANGED vars
  BY <1>4 DEF vars, dataVars, sharedVars, fullVars
<1> QED BY <1>1, <1>2, <1>3, <1>4 DEF Next, Terminated

\* So it only leaves init_preload then.
LEMMA StartsStep ==
  ASSUME StartInv, [Next]_vars
  PROVE  [At(Replay, "start") /\ ~At(Replay, "start")' => ~first_full \/ At(Loader, "done")]_vars
<1> SUFFICES ASSUME At(Replay, "start"), ~At(Replay, "start")'
             PROVE ~first_full \/ At(Loader, "done")
  OBVIOUS
<1> USE DEF StartInv, At, Thread, Loader, Replay
<1>1. CASE LoaderStep
  BY <1>1 DEF LoaderStep, L_Exit, L_Wrap, L_Turn, L_SkipNotify, L_SkipNone, L_Status, L_Lock,
    L_PlanSkip, L_PlanLoad, L_SkipNext, L_SkipGet, L_SkipLock, L_SkipMark, L_SkipDone, L_GrabNext,
    L_GrabGet, L_GrabLock, L_Begin, L_Load, L_LoadFail, L_Loaded, L_Ready, L_Share, L_Bump,
    L_Finish, L_Again, Awake, Jump, Goto
<1>2. CASE ReplayStep
  BY <1>2 DEF ReplayStep, R_Start, R_Call, R_SkipEmpty, R_SkipClear, R_SkipDone, R_Head,
     R_IsReady, R_IsEmpty, R_Lock, R_Use, R_Null, R_Take, R_Garbage, R_Emptied, R_ReleaseNext,
     R_ReleaseReady, R_ReleaseLock, R_Advance, R_Throttled, R_Stop, R_ExitPreload, R_Join,
     Awake, Jump, Goto
<1>3. ASSUME NEW t \in Thread, CondvarStep(t) PROVE FALSE
  BY <1>3 DEF CondvarStep, EvalFalse, Block, SpuriousWakeup
<1>4. CASE UNCHANGED vars
  BY <1>4 DEF vars
<1> QED BY <1>1, <1>2, <1>3, <1>4 DEF Next, Terminated

\* Without spurious wakeups init_preload returns only when the ring has been
\* filled or everything has been loaded (line 572).
THEOREM StartsAfterFilling == ~SpuriousWakeups => (Spec => StartsWhenFull)
<1> SUFFICES ASSUME ~SpuriousWakeups PROVE Spec => StartsWhenFull
    OBVIOUS
<1>1. StartInv /\ [Next]_vars => StartInv'
    BY NextKeepsStart
<1>2. StartInv /\ [Next]_vars =>
        [At(Replay, "start") /\ ~At(Replay, "start")' => ~first_full \/ At(Loader, "done")]_vars
    BY StartsStep
<1> QED BY InitStart, <1>1, <1>2, PTL DEF Spec, StartsWhenFull

\* At the start nothing has been loaded.
LEMMA InitFull ==
    ASSUME Init, IInv
    PROVE  FullInv
<1>1. pc[Loader] = "top" /\ pc[Replay] = "start"
    BY DEF Init, Thread, Loader, Replay
<1>2. /\ \A c \in Chunk : status[c] = "EMPTY"
      /\ loading_idx = 0 /\ using_idx = ChunkCount /\ first_full = TRUE /\ exceed = FALSE
    BY DEF Init
<1>3. ShortOK
    BY <1>1, <1>2 DEF ShortOK, LoaderIn, ReplayIn, Loading, Releasing, Leads, Using
<1>4. AheadOK /\ CallOK /\ ThrottleOK
    BY <1>1 DEF AheadOK, CallOK, ThrottleOK, ReplayIn, Releasing
<1>5. StartOK /\ LoaderOK
    BY <1>1, <1>2 DEF StartOK, LoaderOK, LoaderIn, Skipping
<1> QED BY <1>1, <1>3, <1>4, <1>5 DEF FullInv, Full, ReplayIn, Asking

\* A step of the replay thread is a step of the reader of the file, or none.
LEMMA ReplayReads ==
    ASSUME IInv, OrderInv, FullInv, FullInv', AllLoad, ReplayStep
    PROVE  Reader!Next \/ UNCHANGED Reader!vars
<1> USE DEF At, Goto, Jump, Awake, Replay, ReplayIn, ringVars, resultVars, replayVars, sharedVars, dataVars
<1>1. pc \in [Thread -> LoaderPlaces \union ReplayPlaces] /\ Replay \in Thread
    BY DEF IInv, TypeOK, TypeControl, Thread
<1>2. CASE R_Take
  <2>1. ReplayIn({"take"}) /\ input' = input
        /\ delivered' = Append(delivered, HeaderAt(current[using_idx]))
        /\ pc'[Replay] \in {"emptied", "call"}
      BY <1>1, <1>2 DEF R_Take
  <2>2. Chain
      BY <2>1, AllOwed DEF OrderInv, Active, ReplayPlaces
  <2>3. HeaderAt(current[using_idx]) = Delivered + 1 /\ mem[current[using_idx]] = Delivered + 1
        /\ current[using_idx] \in Address
      BY <2>1, <2>2, TakePlace, AllOwed
  <2>4. Delivered + 1 <= PacketCount
      BY <2>3, Kinds
  <2>5. ~RangeReplayed
      BY <2>1 DEF FullInv, Asking
  <2>6. Reader!GetNextPacket
    <3>1. ~Reader!RangeReplayed
        BY <2>5 DEF RangeReplayed, Reader!RangeReplayed
    <3>2. ~Reader!NoPacket
        BY <2>4, AllOwed, Kinds DEF Delivered, PacketCount, Reader!NoPacket
    <3>3. delivered' = Append(delivered, Len(delivered) + 1)
        BY <2>1, <2>3 DEF Delivered
    <3> QED BY <2>1, <3>1, <3>2, <3>3 DEF Reader!GetNextPacket
  <2> QED BY <2>6 DEF Reader!Next
<1>3. CASE R_Stop
  <2>1. Reader!Stop
      BY <1>1, <1>3 DEF R_Stop, Reader!Stop, RangeReplayed, Reader!RangeReplayed
  <2> QED BY <2>1 DEF Reader!Next
<1>4. CASE R_Null
  <2>1. Reader!Stop
      BY <1>1, <1>4 DEF R_Null, Reader!Stop
  <2> QED BY <2>1 DEF Reader!Next
<1>5. CASE R_Garbage
  <2>1. Chain
      BY <1>5, AllOwed DEF R_Garbage, OrderInv, Active, ReplayPlaces
  <2> QED BY <1>5, <2>1, NoGarbage
<1>6. CASE R_Start \/ R_SkipEmpty \/ R_SkipClear \/ R_SkipDone \/ R_Head
    BY <1>1, <1>6 DEF R_Start, R_SkipEmpty, R_SkipClear, R_SkipDone, R_Head, Reader!vars
<1>7. CASE R_Call \/ R_IsReady \/ R_IsEmpty
  <2>1. /\ pc[Replay] \in {"call", "isReady", "isEmpty"}
        /\ pc'[Replay] \in {"skipWait", "isReady", "isEmpty", "lock", "null", "take"}
        /\ UNCHANGED <<input, delivered>>
      BY <1>1, <1>7 DEF R_Call, R_IsReady, R_IsEmpty, Branch
  <2>2. CASE pc'[Replay] = "null"
    <3>1. ~Reader!RangeReplayed
        BY <1>7 DEF R_Call, R_IsReady, R_IsEmpty, FullInv, Asking, IInv, ReplayInv, RangeReplayed,
           Reader!RangeReplayed
    <3>2. Reader!NoPacket
      <4>1. Delivered' = PacketCount'
          BY <2>2 DEF FullInv
      <4> QED BY <2>1, <4>1 DEF Delivered, PacketCount, Reader!NoPacket
    <3>3. Reader!GetNull
        BY <2>1, <2>2, <3>1, <3>2 DEF Reader!GetNull
    <3> QED BY <3>3 DEF Reader!Next
  <2>3. CASE pc'[Replay] # "null"
      BY <2>1, <2>3 DEF Reader!vars
  <2> QED BY <2>2, <2>3
<1>8. CASE R_Lock \/ R_Use \/ R_Emptied \/ R_ReleaseNext \/ R_ReleaseReady \/ R_ReleaseLock
             \/ R_Advance \/ R_Throttled
    BY <1>1, <1>8 DEF R_Lock, R_Use, R_Emptied, R_ReleaseNext, R_ReleaseReady, R_ReleaseLock,
       R_Advance, R_Throttled, Reader!vars
<1>9. CASE R_ExitPreload \/ R_Join
    BY <1>1, <1>9 DEF R_ExitPreload, R_Join, Reader!vars
<1> QED BY <1>2, <1>3, <1>4, <1>5, <1>6, <1>7, <1>8, <1>9 DEF ReplayStep

\* Packets that all load, need two chunks and half of the ring at most, and do
\* not fill their chunks exactly: where no thread wakes spuriously and the
\* loading thread does not lag behind, the replay sees what Sequencer reads from
\* the file itself, and is told that there is no packet when it has had the last
\* (the safety part of ReadsLikeSequencer).
THEOREM ReadsLikeFile ==
    PacketsFit /\ HalfRing /\ AllLoad /\ ~StatusReread /\ ~SpuriousWakeups /\ ~LoaderMayLag
      => (Spec => Reader!Spec)
<1> SUFFICES ASSUME PacketsFit, HalfRing, AllLoad, ~StatusReread, ~SpuriousWakeups, ~LoaderMayLag
             PROVE  Spec => Reader!Spec
    OBVIOUS
<1>1. AllFit
  <2> SUFFICES ASSUME NEW in \in Inputs, NEW k \in DOMAIN in.size
               PROVE  ChunksFor(in.size[k]) <= ChunkCount
      BY DEF AllFit
  <2>1. in.size[k] \in Nat \ {0}
      BY ConstantsAssumption
  <2>2. 2 * ChunksFor(in.size[k]) <= ChunkCount /\ ChunksFor(in.size[k]) \in Nat
      BY <2>1, ChunksForPositive DEF HalfRing
  <2> QED BY <2>2, ConstantsAssumption
<1>2. Init => Reader!Init
  <2>1. Init => pc[Replay] = "start"
      BY DEF Init, Thread, Replay, Loader
  <2> QED BY <2>1 DEF At, Init, Reader!Init
<1>3. /\ Init /\ IInv => OrderInv
      /\ IInv /\ IInv' /\ OrderInv /\ [Next]_vars => OrderInv'
    BY <1>1, InitOrder, NextKeepsOrder
<1>4. /\ Init => StartInv
      /\ StartInv /\ [Next]_vars => StartInv'
    BY InitStart, NextKeepsStart
<1>5. /\ Init /\ IInv => FullInv
      /\ IInv /\ IInv' /\ OrderInv /\ OrderInv' /\ StartInv /\ FullInv /\ [Next]_vars => FullInv'
    BY InitFull, NextKeepsFull
<1>6. IInv /\ OrderInv /\ FullInv /\ FullInv' /\ [Next]_vars => [Reader!Next]_(Reader!vars)
  <2> SUFFICES ASSUME IInv, OrderInv, FullInv, FullInv', [Next]_vars
               PROVE  Reader!Next \/ UNCHANGED Reader!vars
      OBVIOUS
  <2>1. CASE LoaderStep
      BY <2>1, LoaderDeliversNothing DEF At, Reader!vars
  <2>2. CASE ReplayStep
      BY <2>2, ReplayReads
  <2>3. CASE UNCHANGED <<dataVars, pc>>
      BY <2>3 DEF At, Reader!vars, dataVars, sharedVars, replayVars, resultVars
  <2>4. CASE \E t \in Thread : CondvarStep(t)
      BY <2>3, <2>4 DEF CondvarStep, EvalFalse, Block, SpuriousWakeup
  <2>5. CASE Terminated \/ UNCHANGED vars
      BY <2>3, <2>5 DEF Terminated, vars
  <2> QED BY <2>1, <2>2, <2>4, <2>5 DEF Next
<1>7. Spec => []IInv
    BY <1>1, Invariance
<1> QED BY <1>2, <1>3, <1>4, <1>5, <1>6, <1>7, PTL DEF Spec, Reader!Spec
=============================================================================
