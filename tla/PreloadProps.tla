---------------------------- MODULE PreloadProps ----------------------------
(***************************************************************************)
(* What the preloader must guarantee: the agreement of chunk statuses,     *)
(* mutexes and the two threads, the order of the packets, the assertions   *)
(* and comments of vkreplay_preload.cpp, and that the replay thread sees   *)
(* the same packets as without the preloader (PacketReader).               *)
(***************************************************************************)
EXTENDS Preload

LoaderPlaces ==
    {"top", "skipNotify", "skipNone", "status", "lock", "plan", "skip", "skipGet",
     "skipLock", "skipMark", "grab", "grabGet", "grabLock", "load", "loaded",
     "ready", "share", "end", "done"}
ReplayPlaces ==
    {"start", "call", "skipWait", "skipClear", "headWait", "isReady", "isEmpty",
     "lock", "locked", "take", "emptied", "release", "readyWait", "releaseLock",
     "throttle", "null", "exit", "join", "done", "crashed"}

TypeRing ==
    /\ input \in Inputs
    /\ status \in [Chunk -> Status]
    /\ mtx \in [Chunk -> Thread \union {Free}]
    /\ current \in [Chunk -> Nat]
TypeFile ==
    /\ mem \in [Address -> 0 .. PacketCount]
    /\ next \in 1 .. PacketCount + 1
    /\ delivered \in Seq(0 .. PacketCount)
TypeIndex ==
    /\ loading_idx \in 0 .. ChunkCount /\ using_idx \in 0 .. ChunkCount
    /\ needed \in 1 .. ChunkCount /\ i \in 1 .. ChunkCount
    /\ occupied \in 1 .. ChunkCount /\ j \in 0 .. ChunkCount
    /\ boundary \in Nat /\ addr \in Nat
TypeFlag ==
    /\ exceed \in BOOLEAN /\ exiting \in BOOLEAN /\ skipped_notify \in BOOLEAN
    /\ preloaded_whole_range \in BOOLEAN /\ first_full \in BOOLEAN
    /\ skipped_to_first \in {"NONE", "DETECTED", "NOTIFY"}
TypeControl ==
    /\ pc \in [Thread -> LoaderPlaces \union ReplayPlaces]
    /\ pc[Loader] \in LoaderPlaces /\ pc[Replay] \in ReplayPlaces
    /\ wait \in [Thread -> {"awake", "falling", "asleep"}]

\* Every variable has its type; the indices stay in the ring, those that run
\* over it may stand one past its end.
TypeOK == TypeRing /\ TypeFile /\ TypeIndex /\ TypeFlag /\ TypeControl

-----------------------------------------------------------------------------
(* Statuses and mutexes: the status is read and written without the mutex  *)
(* in many places (lines 397, 425, 455, 589, 597, 625, 681), and yet       *)

\* the two threads never own the same chunk: a chunk the replay is using is
\* the one at using_idx and its mutex is the replay thread's, a chunk being
\* loaded is locked by the loading thread, a packet is only written into
\* chunks the loading thread holds and only read from one the replay holds,
\* and the loading thread ends without a mutex.
LockDiscipline ==
    /\ \A c \in Chunk :
         /\ status[c] = "USING" => mtx[c] = Replay /\ c = using_idx
         /\ status[c] = "LOADING" => mtx[c] = Loader
    /\ pc[Loader] \in {"load", "loaded"} =>
         \A c \in loading_idx .. loading_idx + needed - 1 : mtx[c] = Loader
    /\ pc[Replay] \in {"locked", "take", "emptied"} => mtx[using_idx] = Replay
    /\ At(Loader, "done") => \A c \in Chunk : mtx[c] # Loader

\* Line 632, assert(cur_chunk->status == CHUNK_READY): a status that was READY
\* or LOADING without the mutex is READY with it.
AssertReady == At(Replay, "locked") => status[using_idx] = "READY"

-----------------------------------------------------------------------------
(* The packets.                                                            *)

\* The replay thread gets the packets of the file in their order, from the
\* first on, none twice and none left out (up to one that does not load).  It
\* fails for packets exactly as large as their chunks, and where a packet skips
\* two chunks (MCPreload!LargeSkipsTwo).
InOrder ==
    \A k \in DOMAIN delivered : input.bad = 0 \/ k < input.bad => delivered[k] = k

\* Line 646, assert(!g_preload_context.next_pkt_size): the replay thread is
\* told that there is no packet only when the file has no more.
NullOnlyAtEnd == At(Replay, "null") => NoMorePackets \/ exceed

\* vkreplay_main.cpp line 369, "the packet has already been interpreted during
\* the preloading": what main_loop replays is still the packet it was given.
PacketIntact ==
    pc[Replay] \in {"call", "exit"} /\ delivered # << >> /\ addr \in Address =>
        mem[addr] = delivered[Len(delivered)]

\* Line 572, "waiting for the loading thread full all the chunks".
StartsWhenFull ==
    [][At(Replay, "start") /\ ~At(Replay, "start")' => ~first_full \/ At(Loader, "done")]_vars

\* Lines 427 and 454, "wait if the chunk status is READY": the chunk is taken
\* in the end.
GetsChunk == pc[Loader] \in {"skipGet", "grabGet"} ~> pc[Loader] \notin {"skipGet", "grabGet"}

\* Lines 614 to 618: the replay, back at the first chunk, waits until it is
\* loaded, and is woken when it is.
HeadArrives == At(Replay, "headWait") ~> ~At(Replay, "headWait")

\* The replay ends, and exit_preload with it: the loading thread is joined.
Ends == <>At(Replay, "done")

-----------------------------------------------------------------------------
\* Without the preloader Sequencer::get_next_packet reads the file itself; with
\* it main_loop sees the same packets, and NULL only after the last.
Reader == INSTANCE PacketReader WITH
            phase <- CASE At(Replay, "null")                      -> "told"
                       [] pc[Replay] \in {"exit", "join", "done"} -> "stopped"
                       [] OTHER                                   -> "reading"
ReadsLikeSequencer == Reader!FairSpec
=============================================================================
