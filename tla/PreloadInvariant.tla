-------------------------- MODULE PreloadInvariant --------------------------
(***************************************************************************)
(* The inductive invariants of the preloader: IInv, who owns a chunk;      *)
(* OrderInv, which packets lie in the ring and where the next one is;      *)
(* StartInv and FullInv, when the replay may ask for a packet.             *)
(***************************************************************************)
EXTENDS PreloadProps

-----------------------------------------------------------------------------
(* Who owns a chunk.                                                       *)

LoaderIn(places) == pc[Loader] \in places
ReplayIn(places) == pc[Replay] \in places

Skipping == {"skip", "skipGet", "skipLock", "skipMark"}
Grabbing == {"grab", "grabGet", "grabLock"}
Loading == {"load", "loaded", "ready"}
Releasing == {"release", "readyWait", "releaseLock"}

\* The chunks whose mutex the loading thread holds.
HeldByLoader(c) ==
    \/ LoaderIn({"plan"} \union Skipping) /\ c = loading_idx
    \/ LoaderIn(Grabbing) /\ c \in loading_idx .. loading_idx + i - 1
    \/ LoaderIn(Loading) /\ c \in loading_idx .. loading_idx + needed - 1
    \/ LoaderIn({"share"}) /\ c \in loading_idx + i .. loading_idx + needed - 1

\* The chunks among them it has marked LOADING.
MarkedLoading(c) ==
    \/ LoaderIn(Grabbing) /\ c \in loading_idx + 1 .. loading_idx + i - 1
    \/ LoaderIn(Loading) /\ c \in loading_idx .. loading_idx + needed - 1
    \/ LoaderIn({"share"}) /\ c \in loading_idx + i .. loading_idx + needed - 1

\* The loading thread holds exactly those mutexes; LOADING marks exactly those
\* chunks; USING marks the replay thread's, whose mutex it holds.
RingInv ==
    /\ status[0] # "SKIPPED"
    /\ \A c \in Chunk :
         /\ HeldByLoader(c) => mtx[c] = Loader
         /\ mtx[c] = Loader => HeldByLoader(c)
         /\ status[c] = "LOADING" <=> MarkedLoading(c)
         /\ status[c] = "USING" => /\ mtx[c] = Replay
                                   /\ c = using_idx
                                   /\ ReplayIn({"call", "take", "emptied", "exit", "crashed"})
                                   /\ current[c] >= Base(c)

\* Where the loading thread is tells how far its indices may run and what it
\* knows of the chunks it queues for.
LoaderInv ==
    /\ LoaderIn({"skipNotify", "skipNone", "status", "lock", "plan"} \union Skipping)
         => loading_idx \in Chunk
    /\ LoaderIn(Grabbing \union Loading \union {"share"})
         => loading_idx + needed <= ChunkCount
    /\ LoaderIn({"lock"}) => Taken(loading_idx)
    /\ LoaderIn({"plan"} \union Grabbing) => status[loading_idx] = "EMPTY"
    /\ LoaderIn({"skipGet", "skipLock", "skipMark"}) => i < ChunkCount
    /\ LoaderIn({"skipLock"}) => Taken(i)
    /\ LoaderIn({"grab", "share"}) => i <= needed
    /\ LoaderIn({"grabGet", "grabLock"}) => i < needed
    /\ LoaderIn({"grabLock"}) => Taken(loading_idx + i)
    /\ LoaderIn({"loaded"}) => ~NoMorePackets

\* The same for the replay thread.  A status read without the mutex stays
\* true, because the loading thread never takes a READY chunk.
ReplayInv ==
    /\ ReplayIn({"skipWait", "lock", "locked", "take", "emptied"}) => using_idx \in Chunk
    /\ ReplayIn({"skipWait"}) => status[using_idx] = "SKIPPED"
    /\ ReplayIn({"headWait", "isReady"}) => using_idx = 0
    /\ ReplayIn({"lock"}) => status[using_idx] \in {"READY", "LOADING"}
    /\ ReplayIn({"locked", "take", "emptied"}) => mtx[using_idx] = Replay
    /\ ReplayIn({"locked"}) => status[using_idx] = "READY"
    /\ ReplayIn({"take", "emptied"}) => status[using_idx] = "USING"
    /\ ReplayIn({"emptied"}) => current[using_idx] \in Base(using_idx) + 1 .. Base(ChunkCount)
    /\ ReplayIn({"skipClear"}) => using_idx \in Chunk /\ j >= using_idx + 1
    /\ ReplayIn(Releasing) =>
         using_idx + occupied <= ChunkCount /\ j \in using_idx + 1 .. using_idx + occupied
    /\ ReplayIn({"readyWait", "releaseLock"}) => j < using_idx + occupied
    /\ ~ReplayIn({"isEmpty"})

\* A packet in memory ends within the ring.
MemInv ==
    \A a \in Address : mem[a] # 0 => a + input.size[mem[a]] <= Base(ChunkCount)

\* The inductive invariant.
IInv == TypeOK /\ RingInv /\ LoaderInv /\ ReplayInv /\ MemInv

-----------------------------------------------------------------------------
(* Where the packets are.  A chunk that leads begins with a loaded packet  *)
(* nobody has asked for yet; its group are the chunks the last packet in   *)
(* it extends over.  The links run from packet to packet and from the end  *)
(* of a group to the chunk both threads go to next, skipping included.     *)

\* No packet needs more than two chunks, so that only the last chunk is ever
\* skipped; and none is exactly as large as its chunks, since the room in a
\* chunk is compared with < (line 487).
PacketsFit ==
    \A in \in Inputs :
       /\ in.size # << >>
       /\ \A k \in DOMAIN in.size :
             /\ ChunksFor(in.size[k]) <= 2
             /\ in.size[k] < Base(ChunksFor(in.size[k]))

Wrapped(c) == IF c = ChunkCount THEN 0 ELSE c

Delivered == Len(delivered)

\* The replay can still ask for a packet, and the file has one it can be given.
Active == ReplayIn(ReplayPlaces \ {"null", "exit", "join", "done", "crashed"})
Owes == input.bad = 0 \/ Delivered < input.bad

\* The loading thread has come to the packet that does not load.
Broken == next = input.bad

\* The chunk in which packet next will begin.
LoaderPos ==
    IF LoaderIn(Skipping) THEN 0
    ELSE IF \/ LoaderIn({"share"})
            \/ LoaderIn(Loading) /\ current[loading_idx] > Base(loading_idx)
    THEN Wrapped(loading_idx + needed)
    ELSE Wrapped(loading_idx)

\* The replay is in a chunk, or else about to look at the one at ReplayPos.
Using == using_idx \in Chunk /\ status[using_idx] = "USING"
ReplayPos ==
    IF ReplayIn({"skipClear"}) THEN 0
    ELSE IF ReplayIn(Releasing) THEN Wrapped(using_idx + occupied)
    ELSE Wrapped(using_idx)

\* Loaded packets begin at chunk c and extend to hi.
Leads(c) == status[c] \in {"READY", "LOADING"} /\ current[c] > Base(c) /\ mem[Base(c)] # 0
EndOf(c, hi) == c + ChunksFor(hi - Base(c))

\* A thread that comes to chunk c finds packet k there, or where skipping leads
\* to, or will find it when it is loaded.
Expects(c, k) ==
    \/ Leads(c) /\ k = mem[Base(c)]
    \/ status[c] = "SKIPPED" /\ LoaderPos # 0 /\ Leads(0) /\ k = mem[Base(0)]
    \/ k = next /\ (LoaderPos = c \/ (status[c] = "SKIPPED" /\ LoaderPos = 0) \/ Broken)

\* From lo to hi the packets follow each other, and the chunk behind them
\* continues.
Linked(c, lo, hi) ==
    \A a \in lo .. hi - 1 : mem[a] # 0 =>
       /\ mem[a] \in Delivered + 1 .. next - 1
       /\ a + input.size[mem[a]] <= hi
       /\ a + input.size[mem[a]] < hi => mem[a + input.size[mem[a]]] = mem[a] + 1
       /\ a + input.size[mem[a]] = hi => Expects(Wrapped(EndOf(c, hi)), mem[a] + 1)

\* The chunks between c and the end are taken by the first packet.
Group(c, hi) ==
    /\ EndOf(c, hi) <= ChunkCount
    /\ hi < Base(EndOf(c, hi))
    /\ \A t \in c + 1 .. EndOf(c, hi) - 1 :
          /\ status[t] = "READY" \/ (status[t] = "LOADING" /\ loading_idx = c)
          /\ mem[Base(t)] = 0

\* Chunks the replay is going to give back with the one it uses.
OwnTail(c) ==
    \/ Using /\ boundary > Base(using_idx)
             /\ c \in using_idx + 1 .. EndOf(using_idx, boundary) - 1
    \/ ReplayIn(Releasing) /\ c \in j .. using_idx + occupied - 1

LeadersOK ==
    \A c \in Chunk : Leads(c) =>
       /\ Group(c, current[c])
       /\ Linked(c, Base(c), current[c])
       /\ \A t \in c + 1 .. EndOf(c, current[c]) - 1 : ~OwnTail(t)

\* The replay has got all that could be loaded.
Starved ==
    /\ Delivered + 1 = next /\ Broken
    /\ ReplayIn({"take"}) /\ boundary <= Base(using_idx)

UsingOK ==
    Using => \/ Starved
             \/ /\ boundary > Base(using_idx)
                /\ Group(using_idx, boundary)
                /\ current[using_idx] <= boundary
                /\ Linked(using_idx, current[using_idx], boundary)
                /\ current[using_idx] < boundary =>
                     ~ReplayIn({"emptied"}) /\ mem[current[using_idx]] = Delivered + 1
                /\ current[using_idx] = boundary =>
                     /\ ReplayIn({"emptied"})
                     /\ Expects(Wrapped(EndOf(using_idx, boundary)), Delivered + 1)

ReleaseOK ==
    ReplayIn(Releasing) =>
       \A t \in j .. using_idx + occupied - 1 :
          /\ status[t] = "READY" \/ (status[t] = "LOADING" /\ LoaderIn({"share"}))
          /\ mem[Base(t)] = 0

PosOK == ~Using => Expects(ReplayPos, Delivered + 1)

\* No packet lies in the ring twice.
Pending(a) ==
    \/ \E c \in Chunk : Leads(c) /\ a \in Base(c) .. current[c] - 1
    \/ Using /\ a \in current[using_idx] .. boundary - 1
Distinct ==
    \A a, b \in Address : Pending(a) /\ Pending(b) /\ mem[a] = mem[b] /\ mem[a] # 0 => a = b

\* A READY chunk has packets, or part of one, unless loading has failed.
Grouped(c) ==
    \/ OwnTail(c)
    \/ \E h \in Chunk : Leads(h) /\ c \in h .. EndOf(h, current[h]) - 1
Covered(c) == Grouped(c) \/ (Broken /\ current[c] <= Base(c))
ReadyOK == \A c \in Chunk : status[c] = "READY" => Covered(c)

Hollow ==
    /\ Broken
    /\ current[loading_idx] = Base(loading_idx)
    /\ status[loading_idx] = "USING" => boundary = Base(loading_idx)
ShareOK ==
    LoaderIn({"share"}) =>
      \A t \in loading_idx + i .. loading_idx + needed - 1 :
         (Grouped(t) /\ mem[Base(t)] = 0) \/ Hollow

SkipOK ==
    /\ \A c \in Chunk : status[c] = "SKIPPED" =>
          /\ c = ChunkCount - 1
          /\ \/ LoaderPos = 0 /\ (ReplayPos = 0 => Leads(0) \/ Using)
             \/ LoaderPos > 0 /\ LoaderPos <= ReplayPos /\ Leads(0)
             \/ Broken
    /\ LoaderIn(Skipping) => LoaderIn({"skip"}) /\ i = ChunkCount
    /\ ReplayIn({"skipClear"}) => j = ChunkCount
    /\ ~LoaderIn({"skipNotify", "skipNone"}) /\ skipped_to_first = "NONE"

\* What is not being used or loaded is reset.
BaseOK ==
    \A c \in Chunk :
       \/ status[c] \in {"EMPTY", "SKIPPED"}
       \/ status[c] = "LOADING" /\ ~(LoaderIn(Loading) /\ c = loading_idx)
       => current[c] = Base(c)

\* The chunks being loaded are still empty, or filled up to their last one.
FilledOK ==
    LoaderIn(Loading) =>
       \/ /\ current[loading_idx] = Base(loading_idx)
          /\ needed = ChunksFor(NextSize)
          /\ ~NoMorePackets
          /\ LoaderIn({"load"}) => ~exceed
       \/ /\ current[loading_idx] > Base(loading_idx + needed - 1)
          /\ current[loading_idx] < Base(loading_idx + needed)
          /\ mem[Base(loading_idx)] # 0
          /\ \A a \in Base(loading_idx) .. current[loading_idx] - 1 :
               mem[a] # 0 /\ a + input.size[mem[a]] = current[loading_idx] => mem[a] + 1 = next
LoadOK ==
    /\ ~LoaderIn({"load", "loaded", "ready", "share", "end", "done"}) => ~NoMorePackets /\ ~exceed
    /\ LoaderIn(Grabbing) => needed = ChunksFor(NextSize)
    /\ LoaderIn({"loaded"}) =>
         /\ mem[current[loading_idx]] = next
         /\ \A x \in current[loading_idx] + 1 .. current[loading_idx] + NextSize - 1 : mem[x] = 0
         /\ current[loading_idx] + NextSize < Base(loading_idx + needed)
         /\ ~Broken
    /\ LoaderIn({"ready"}) => Broken
    /\ input.bad # 0 => next <= input.bad

Chain ==
    /\ LeadersOK /\ UsingOK /\ ReleaseOK /\ PosOK /\ Distinct /\ ReadyOK /\ ShareOK
    /\ SkipOK /\ BaseOK /\ FilledOK /\ LoadOK /\ ~exiting

OrderInv == InOrder /\ (Active /\ Owes => Chain)

-----------------------------------------------------------------------------
(* When the replay is told that there is no packet left.                   *)

\* init_preload waits on replay_start_sem: the waiter is only awake when the
\* ring has been filled once or everything has been loaded.
StartInv ==
    /\ pc = [t \in Thread |-> pc[t]] /\ wait = [t \in Thread |-> wait[t]]
    /\ At(Replay, "start") /\ wait[Replay] = "awake" => ~first_full \/ At(Loader, "done")

\* No packet needs more than half of the ring, and every packet loads.
HalfRing == \A in \in Inputs : \A k \in DOMAIN in.size : 2 * ChunksFor(in.size[k]) <= ChunkCount
AllLoad == \A in \in Inputs : in.bad = 0

\* There is nothing more to load.
Finished == NoMorePackets \/ exceed

\* What is loaded, led or used at a time, and what is given back, takes no
\* more than half of the ring.
ShortOK ==
    /\ LoaderIn(Loading) => 2 * needed <= ChunkCount
    /\ ReplayIn(Releasing \union {"throttle"}) => 2 * occupied <= ChunkCount
    /\ \A c \in Chunk : Leads(c) => 2 * (EndOf(c, current[c]) - c) <= ChunkCount
    /\ Using => 2 * (EndOf(using_idx, boundary) - using_idx) <= ChunkCount

\* Where the replay goes when it has given its chunk back.
NextPos == IF ReplayIn({"emptied"}) THEN Wrapped(EndOf(using_idx, boundary)) ELSE ReplayPos

\* If that chunk is still EMPTY, loading_idx shows that the loading thread
\* stands there, so that the replay will wait.
AheadOK ==
    ReplayIn({"emptied"} \union Releasing) /\ status[NextPos] = "EMPTY" =>
        Finished \/ (loading_idx = NextPos /\ ~LoaderIn({"share"}))

\* The replay asks for a chunk only when it has been taken.
CallOK == ReplayIn({"call", "isReady"}) => status[Wrapped(using_idx)] # "EMPTY" \/ Finished

StartOK ==
    ReplayIn({"start"}) =>
      /\ using_idx = ChunkCount
      /\ loading_idx > 0 \/ LoaderIn({"share"}) \/ ~first_full => status[0] # "EMPTY" \/ Finished

LoaderOK ==
    /\ LoaderIn(Skipping) => /\ loading_idx = ChunkCount - 1
                             /\ status[loading_idx] \in {"SKIPPED", "EMPTY"}
    /\ LoaderIn({"done"}) => Finished
    /\ exceed => /\ input.last # 0
                 /\ next = IF LoaderIn({"loaded"}) THEN input.last ELSE input.last + 1

ThrottleOK == ReplayIn({"throttle"}) => using_idx - occupied \in Chunk

Full == ShortOK /\ AheadOK /\ CallOK /\ StartOK /\ LoaderOK /\ ThrottleOK

\* A packet is only looked for when the range goes on, and the replay is told
\* that there is none when it has had them all.
Asking == {"skipWait", "skipClear", "headWait", "isReady", "lock", "locked", "take"}
FullInv ==
    /\ Active => Full
    /\ ReplayIn(Asking) => ~RangeReplayed
    /\ ReplayIn({"null"}) => Delivered = PacketCount
    /\ ~ReplayIn({"crashed"})
=============================================================================
