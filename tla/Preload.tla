------------------------------- MODULE Preload -------------------------------
(***************************************************************************)
(* The trace preloader of vkreplay                                         *)
(* (vktrace/vktrace_replay/vkreplay_preload.cpp).                          *)
(*                                                                         *)
(* A loading thread (chunk_loading) copies the packets of a trace file     *)
(* into a ring of equally sized memory chunks; the replay thread           *)
(* (main_loop, through preload_get_next_packet) takes them out again.      *)
(* Every chunk has a status and a mutex; six condition variables, wrapped  *)
(* in simple_sem, connect the threads.  simple_sem::notify() does not take *)
(* the mutex the waiter holds, so a notification may fall between the      *)
(* evaluation of the predicate and the moment the waiter blocks.           *)
(*                                                                         *)
(* Chunks are contiguous: addresses are offsets into preload_mem, chunk c  *)
(* starts at c * ChunkSize, and a packet larger than a chunk covers the    *)
(* following ones.  mem records at which address the header of which       *)
(* packet lies, 0 standing for bytes that are no packet header.            *)
(***************************************************************************)
EXTENDS Integers, Sequences

CONSTANTS
    ChunkCount,       \* number of chunks init_preload could allocate
    ChunkSize,        \* bytes of a chunk, in abstract units
    Inputs,           \* the traces: sizes, last packet of the range, bad packet
    WaitWindow,       \* may a notify fall between predicate and block?
    SpuriousWakeups,  \* may a condition variable wake a thread nobody notified?
    StatusReread,     \* is status loaded anew for every comparison (no -O2)?
    LoaderMayLag,     \* may the replay overtake the loader's bookkeeping?
    MayQuit           \* may the replay stop early (window closed, error)?

\* last is the vkQueuePresentKHR that ends the frame range, bad the packet
\* load_packet cannot load; 0 stands for none.
ASSUME ConstantsAssumption ==
    /\ ChunkCount \in Nat \ {0}
    /\ ChunkSize \in Nat \ {0}
    /\ Inputs \subseteq [size : Seq(Nat \ {0}), last : Nat, bad : Nat]
    /\ {WaitWindow, SpuriousWakeups, StatusReread, LoaderMayLag, MayQuit}
          \subseteq BOOLEAN

VARIABLES
    input,            \* the trace that is being replayed (never changes)
    status,           \* mem_chunk_info.status
    mtx,              \* mem_chunk_info.mtx: who holds it
    current,          \* mem_chunk_info.current_address
    mem,              \* which packet header lies at an address
    loading_idx,      \* g_preload_context.loading_idx
    using_idx,        \* g_preload_context.using_idx
    next,             \* packet whose header get_packet_size read last
    exceed,           \* exceed_preloading_range
    exiting,          \* exiting_thd
    skipped_to_first, skipped_notify, preloaded_whole_range,
    first_full, needed, i,   \* locals of chunk_loading (needed: chunks_needed)
    boundary,         \* static local of preload_get_next_packet: boundary_addr
    occupied, j,      \* its locals chunks_occupied and chunk_idx
    addr,             \* its result: the address of the packet being replayed
    delivered,        \* history: the packets returned to main_loop
    pc, wait          \* where each thread is, and whether it sleeps there

ringVars == <<status, mtx, current>>
fileVars == <<mem, next, exceed>>
skipVars == <<skipped_to_first, skipped_notify>>
loadVars == <<loading_idx, needed, i>>
fullVars == <<first_full, preloaded_whole_range>>
resultVars == <<addr, delivered>>
replayVars == <<using_idx, boundary, occupied, j, resultVars>>
sharedVars == <<input, fileVars, skipVars, loadVars, fullVars>>
dataVars == <<sharedVars, ringVars, replayVars, exiting>>
vars == <<dataVars, pc, wait>>

Loader == "loader"
Replay == "replay"
Thread == {Loader, Replay}
Free == "free"

Chunk == 0 .. ChunkCount - 1
Address == 0 .. ChunkCount * ChunkSize - 1
Base(c) == c * ChunkSize

Status == {"EMPTY", "LOADING", "READY", "USING", "SKIPPED"}

PacketCount == Len(input.size)

\* get_packet_size: next_pkt_size and next_pkt_size_decompressed are zero
\* exactly when the file has no further packet header.
NoMorePackets == next > PacketCount
NextSize == IF NoMorePackets THEN 0 ELSE input.size[next]

\* The number of chunks that size bytes extend over.
ChunksFor(size) == (size - 1) \div ChunkSize + 1

\* Every packet of every trace fits into the ring: what the code asserts when
\* it calls skipping the first chunk illegal.
AllFit == \A in \in Inputs : \A k \in DOMAIN in.size : ChunksFor(in.size[k]) <= ChunkCount

-----------------------------------------------------------------------------
(* simple_sem.  A thread waits on one condition variable at a time, the    *)
(* one of the place it has reached; wait[t] tells whether it evaluates the *)
(* predicate ("awake"), found it false and is about to block ("falling")   *)
(* or sleeps ("asleep").                                                   *)

\* Mutant of WaitsOn: one condition variable for everything.
WaitsOnOne(p) ==
    IF p \in {"start", "throttle", "skipGet", "grabGet", "skipWait", "headWait", "readyWait"}
    THEN "preload_sem" ELSE "none"

WaitsOn(p) ==
    CASE p = "start"                     -> "replay_start_sem"
      [] p = "throttle"                  -> "preload_sem"
      [] p \in {"skipGet", "grabGet"}    -> "preload_sem_get"
      [] p = "skipWait"                  -> "preload_sem_skip"
      [] p = "headWait"                  -> "preload_sem_head"
      [] p = "readyWait"                 -> "preload_sem_ready"
      [] OTHER                           -> "none"

\* Mutant of Taken: the loading thread also reuses a chunk that is READY.
TakenOrReady(c) == status[c] \in {"EMPTY", "USING", "READY"}

\* The chunk is empty, or the replay thread is using it up: the loading thread
\* may queue for its mutex.
Taken(c) == status[c] \in {"EMPTY", "USING"}

\* The array of chunks is longer than chunk_count; what follows stays EMPTY.
IsReady(c) == c \in Chunk /\ status[c] = "READY"

\* The predicate passed to wait(pred) at each place; wait() has none.
Predicate(p) ==
    CASE p = "throttle"  -> \/ status[using_idx - occupied] # "EMPTY"
                            \/ exceed
                            \/ NoMorePackets
      [] p = "skipGet"   -> Taken(i)
      [] p = "grabGet"   -> Taken(loading_idx + i)
      [] p = "skipWait"  -> skipped_to_first = "NONE" \/ NoMorePackets
      [] p = "headWait"  -> status[0] \in {"LOADING", "READY"} \/ NoMorePackets
      [] p = "readyWait" -> IsReady(j)
      [] OTHER           -> TRUE

\* cv.notify_one(): wakes the sleeper, if there is one.
Notify(cv) ==
    wait' = [t \in Thread |->
               IF wait[t] = "asleep" /\ WaitsOn(pc[t]) = cv THEN "awake" ELSE wait[t]]

\* Mutant of NotifyIf: the conditional notifications are forgotten.
NotifyNever(cond, cv) == UNCHANGED wait

NotifyIf(cond, cv) == IF cond THEN Notify(cv) ELSE UNCHANGED wait

\* At place p the thread is awake and its predicate holds: wait returns.
Awake(t, p) == pc[t] = p /\ wait[t] = "awake" /\ Predicate(p)

EvalFalse(t) ==
    /\ WaitsOn(pc[t]) # "none"
    /\ wait[t] = "awake"
    /\ ~Predicate(pc[t])
    /\ wait' = [wait EXCEPT ![t] = IF WaitWindow THEN "falling" ELSE "asleep"]
    /\ UNCHANGED <<dataVars, pc>>

Block(t) ==
    /\ wait[t] = "falling"
    /\ wait' = [wait EXCEPT ![t] = "asleep"]
    /\ UNCHANGED <<dataVars, pc>>

SpuriousWakeup(t) ==
    /\ SpuriousWakeups
    /\ wait[t] = "asleep"
    /\ wait' = [wait EXCEPT ![t] = "awake"]
    /\ UNCHANGED <<dataVars, pc>>

At(t, p) == pc[t] = p
Goto(t, p) == pc' = [pc EXCEPT ![t] = p]

\* The thread only reads and moves on.
Jump(t, p) == Goto(t, p) /\ UNCHANGED <<dataVars, wait>>

-----------------------------------------------------------------------------
(* init_preload returns false when no chunk can be had; here it got        *)
(* ChunkCount of them, read the first packet header, started chunk_loading *)
(* and is about to wait on replay_start_sem.                               *)

Init ==
    /\ input \in Inputs
    /\ status = [c \in Chunk |-> "EMPTY"]
    /\ mtx = [c \in Chunk |-> Free]
    /\ current = [c \in Chunk |-> Base(c)]
    /\ mem = [a \in Address |-> 0]
    /\ loading_idx = 0 /\ using_idx = ChunkCount
    /\ next = 1 /\ exceed = FALSE /\ exiting = FALSE
    /\ skipped_to_first = "NONE" /\ skipped_notify = FALSE
    /\ preloaded_whole_range = TRUE /\ first_full = TRUE
    /\ needed = 1 /\ i = 1
    /\ boundary = 0 /\ occupied = 1 /\ j = 0 /\ addr = 0
    /\ delivered = << >>
    /\ pc = [t \in Thread |-> IF t = Loader THEN "top" ELSE "start"]
    /\ wait = [t \in Thread |-> IF t = Loader THEN "awake"
                                ELSE IF WaitWindow THEN "falling" ELSE "asleep"]

-----------------------------------------------------------------------------
(* The loading thread: chunk_loading.                                      *)

\* Head of the loop; exit_preload has asked the thread to stop.
L_Exit == At(Loader, "top") /\ exiting /\ Jump(Loader, "done")

\* Wrap around to chunk 0: the first time, the replay may start.
L_Wrap ==
    /\ At(Loader, "top") /\ ~exiting /\ loading_idx = ChunkCount
    /\ loading_idx' = 0
    /\ first_full' = FALSE
    /\ NotifyIf(first_full, "replay_start_sem")
    /\ skipped_to_first' = IF skipped_to_first = "DETECTED" THEN "NOTIFY"
                                                            ELSE skipped_to_first
    /\ Goto(Loader, IF skipped_to_first' = "NOTIFY" THEN "skipNotify" ELSE "status")
    /\ UNCHANGED <<input, ringVars, fileVars, skipped_notify, needed, i,
                   preloaded_whole_range, replayVars, exiting>>

L_Turn ==
    /\ At(Loader, "top") /\ ~exiting /\ loading_idx # ChunkCount
    /\ Jump(Loader, IF skipped_to_first = "NOTIFY" THEN "skipNotify" ELSE "status")

\* The skip has reached chunk 0.  The notification comes before the change
\* of skipped_to_first that the waiter's predicate asks for.
L_SkipNotify ==
    /\ At(Loader, "skipNotify")
    /\ Notify("preload_sem_skip")
    /\ Goto(Loader, "skipNone")
    /\ UNCHANGED dataVars

L_SkipNone ==
    /\ At(Loader, "skipNone")
    /\ skipped_to_first' = "NONE"
    /\ skipped_notify' = TRUE
    /\ Goto(Loader, "status")
    /\ UNCHANGED <<input, ringVars, fileVars, loadVars, fullVars, replayVars,
                   exiting, wait>>

\* Only an EMPTY chunk, or one the replay is using up, is loaded; the thread
\* turns its loop until the chunk is one of these.
L_Status ==
    /\ At(Loader, "status")
    /\ Jump(Loader, IF Taken(loading_idx) THEN "lock" ELSE "end")

L_Lock ==
    /\ At(Loader, "lock")
    /\ mtx[loading_idx] = Free
    /\ mtx' = [mtx EXCEPT ![loading_idx] = Loader]
    /\ preloaded_whole_range' = (preloaded_whole_range /\ first_full)
    /\ Goto(Loader, "plan")
    /\ UNCHANGED <<input, status, current, fileVars, skipVars, loadVars,
                   first_full, replayVars, exiting, wait>>

IsLarge == NextSize > ChunkSize
DoesNotFit == IsLarge /\ loading_idx + ChunksFor(NextSize) > ChunkCount

\* The packet does not fit between this chunk and the end of the ring.
L_PlanSkip ==
    /\ At(Loader, "plan") /\ DoesNotFit
    /\ status' = [status EXCEPT ![loading_idx] = "SKIPPED"]
    /\ i' = loading_idx + 1
    /\ Goto(Loader, "skip")
    /\ UNCHANGED <<input, mtx, current, fileVars, skipVars, loading_idx, needed,
                   fullVars, replayVars, exiting, wait>>

L_PlanLoad ==
    /\ At(Loader, "plan") /\ ~DoesNotFit
    /\ needed' = IF IsLarge THEN ChunksFor(NextSize) ELSE 1
    /\ skipped_notify' = (skipped_notify
                            \/ (IsLarge /\ loading_idx + needed' = ChunkCount))
    /\ i' = 1
    /\ Goto(Loader, "grab")
    /\ UNCHANGED <<input, ringVars, fileVars, skipped_to_first, loading_idx,
                   fullVars, replayVars, exiting, wait>>

\* Skipping: the remaining chunks of the ring, one by one.
L_SkipNext ==
    /\ At(Loader, "skip") /\ i < ChunkCount
    /\ Jump(Loader, IF status[i] \in {"READY", "SKIPPED"} THEN "skipGet" ELSE "skipLock")

L_SkipGet == Awake(Loader, "skipGet") /\ Jump(Loader, "skipLock")

L_SkipLock ==
    /\ At(Loader, "skipLock")
    /\ mtx[i] = Free
    /\ status' = [status EXCEPT ![i] = "SKIPPED"]
    /\ Goto(Loader, "skipMark")
    /\ UNCHANGED <<sharedVars, mtx, current, replayVars, exiting, wait>>

L_SkipMark ==
    /\ At(Loader, "skipMark")
    /\ skipped_to_first' = "DETECTED"
    /\ i' = i + 1
    /\ Goto(Loader, "skip")
    /\ UNCHANGED <<input, ringVars, fileVars, skipped_notify, loading_idx, needed,
                   fullVars, replayVars, exiting, wait>>

L_SkipDone ==
    /\ At(Loader, "skip") /\ i >= ChunkCount
    /\ mtx' = [mtx EXCEPT ![loading_idx] = Free]
    /\ loading_idx' = ChunkCount
    /\ Goto(Loader, "top")
    /\ UNCHANGED <<input, status, current, fileVars, skipVars, needed, i,
                   fullVars, replayVars, exiting, wait>>

\* A packet larger than a chunk takes the following chunks too.
L_GrabNext ==
    /\ At(Loader, "grab") /\ i < needed
    /\ Jump(Loader, IF status[loading_idx + i] \in {"READY", "SKIPPED"}
                    THEN "grabGet" ELSE "grabLock")

L_GrabGet == Awake(Loader, "grabGet") /\ Jump(Loader, "grabLock")

L_GrabLock ==
    /\ At(Loader, "grabLock")
    /\ mtx[loading_idx + i] = Free
    /\ mtx' = [mtx EXCEPT ![loading_idx + i] = Loader]
    /\ status' = [status EXCEPT ![loading_idx + i] = "LOADING"]
    /\ i' = i + 1
    /\ Goto(Loader, "grab")
    /\ UNCHANGED <<input, current, fileVars, skipVars, loading_idx, needed,
                   fullVars, replayVars, exiting, wait>>

L_Begin ==
    /\ At(Loader, "grab") /\ i >= needed
    /\ status' = [status EXCEPT ![loading_idx] = "LOADING"]
    /\ NotifyIf(skipped_notify, "preload_sem_head")
    /\ skipped_notify' = FALSE
    /\ Goto(Loader, "load")
    /\ UNCHANGED <<input, mtx, current, fileVars, skipped_to_first, loadVars,
                   fullVars, replayVars, exiting>>

\* Mutant of MayLoad: a chunk is filled to beyond its end.
MayLoadAnything == ~exiting /\ ~NoMorePackets /\ ~exceed

\* The condition of the loop that loads packets: the comparison with the end
\* of the chunks is strict.
MayLoad ==
    /\ ~exiting
    /\ ~NoMorePackets
    /\ ~exceed
    /\ current[loading_idx] + NextSize < Base(loading_idx) + ChunkSize * needed

\* Packet p of size n is written at address a.
Written(a, n, p) ==
    [x \in Address |-> IF x = a THEN p
                       ELSE IF x \in a .. a + n - 1 THEN 0 ELSE mem[x]]

\* load_packet.  The vkQueuePresentKHR that ends the frame range is flagged
\* before the chunk is released.
L_Load ==
    /\ At(Loader, "load") /\ MayLoad /\ next # input.bad
    /\ mem' = Written(current[loading_idx], NextSize, next)
    /\ exceed' = (next = input.last)
    /\ NotifyIf(exceed', "preload_sem")
    /\ Goto(Loader, "loaded")
    /\ UNCHANGED <<input, ringVars, next, skipVars, loadVars, fullVars,
                   replayVars, exiting>>

L_Loaded ==
    /\ At(Loader, "loaded")
    /\ current' = [current EXCEPT ![loading_idx] = @ + NextSize]
    /\ next' = next + 1
    /\ Goto(Loader, "load")
    /\ UNCHANGED <<input, status, mtx, mem, exceed, skipVars, loadVars, fullVars,
                   replayVars, exiting, wait>>

\* load_packet failed: the file ends within the packet (its header may have
\* been copied into the chunk already) or the packet does not decompress.
L_LoadFail ==
    /\ At(Loader, "load") /\ MayLoad /\ next = input.bad
    /\ mem' \in {mem, Written(current[loading_idx], NextSize, next)}
    /\ Goto(Loader, "ready")
    /\ UNCHANGED <<input, ringVars, next, exceed, skipVars, loadVars, fullVars,
                   replayVars, exiting, wait>>

\* The chunk is full, there is nothing left to load, or loading failed.
L_Ready ==
    /\ At(Loader, "ready") \/ (At(Loader, "load") /\ ~MayLoad)
    /\ status' = [status EXCEPT ![loading_idx] = "READY"]
    /\ mtx' = [mtx EXCEPT ![loading_idx] = Free]
    /\ i' = 1
    /\ Goto(Loader, "share")
    /\ UNCHANGED <<input, current, fileVars, skipVars, loading_idx, needed,
                   fullVars, replayVars, exiting, wait>>

L_Share ==
    /\ At(Loader, "share") /\ i < needed
    /\ current' = [current EXCEPT ![loading_idx + i] = current[loading_idx]]
    /\ status' = [status EXCEPT ![loading_idx + i] = "READY"]
    /\ mtx' = [mtx EXCEPT ![loading_idx + i] = Free]
    /\ Notify("preload_sem_ready")
    /\ i' = i + 1
    /\ UNCHANGED <<input, fileVars, skipVars, loading_idx, needed, fullVars,
                   replayVars, exiting, pc>>

\* Mutant of L_Bump: one chunk too many is left out.
L_BumpTooFar ==
    /\ At(Loader, "share") /\ i >= needed
    /\ loading_idx' = loading_idx + needed + 1
    /\ Notify("preload_sem")
    /\ Goto(Loader, "end")
    /\ UNCHANGED <<input, ringVars, fileVars, skipVars, needed, i, fullVars,
                   replayVars, exiting>>

L_Bump ==
    /\ At(Loader, "share") /\ i >= needed
    /\ loading_idx' = loading_idx + needed
    /\ Notify("preload_sem")
    /\ Goto(Loader, "end")
    /\ UNCHANGED <<input, ringVars, fileVars, skipVars, needed, i, fullVars,
                   replayVars, exiting>>

\* Foot of the loop: nothing left to load, or the range is exceeded.
L_Finish ==
    /\ At(Loader, "end") /\ (NoMorePackets \/ exceed)
    /\ NotifyIf(first_full, "replay_start_sem")
    /\ Goto(Loader, "done")
    /\ UNCHANGED dataVars

L_Again == At(Loader, "end") /\ ~NoMorePackets /\ ~exceed /\ Jump(Loader, "top")

LoaderStep ==
    \/ L_Exit \/ L_Wrap \/ L_Turn \/ L_SkipNotify \/ L_SkipNone
    \/ L_Status \/ L_Lock \/ L_PlanSkip \/ L_PlanLoad
    \/ L_SkipNext \/ L_SkipGet \/ L_SkipLock \/ L_SkipMark \/ L_SkipDone
    \/ L_GrabNext \/ L_GrabGet \/ L_GrabLock \/ L_Begin
    \/ L_Load \/ L_LoadFail \/ L_Loaded \/ L_Ready \/ L_Share \/ L_Bump
    \/ L_Finish \/ L_Again

-----------------------------------------------------------------------------
(* The replay thread: init_preload's wait, preload_get_next_packet called  *)
(* by main_loop, and exit_preload.                                         *)

\* replay_start_sem.wait() returns: init_preload is over.
R_Start == Awake(Replay, "start") /\ Jump(Replay, "call")

HeaderAt(a) == IF a \in Address THEN mem[a] ELSE 0

\* main_loop has replayed the vkQueuePresentKHR of loopEndFrame.
RangeReplayed == delivered # << >> /\ delivered[Len(delivered)] = input.last

\* Mutant of Branch: a chunk being loaded is not waited for.
BranchEager(st) ==
    CASE st = "READY" -> "lock"
      [] st = "EMPTY" -> "null"
      [] OTHER        -> "take"

\* Where the status of the chunk leads: a chunk that is in use already is just
\* read on, without another look at its mutex.
Branch(st) ==
    CASE st \in {"READY", "LOADING"} -> "lock"
      [] st = "EMPTY"                -> "null"
      [] OTHER                       -> "take"

\* main_loop asks for the next packet.  The optimised build loads the status
\* once for the comparisons with SKIPPED, READY, LOADING and EMPTY.
R_Call ==
    /\ At(Replay, "call") /\ ~RangeReplayed
    /\ using_idx' = IF using_idx = ChunkCount THEN 0 ELSE using_idx
    /\ Goto(Replay, IF status[using_idx'] = "SKIPPED" THEN "skipWait"
                    ELSE IF StatusReread THEN "isReady"
                    ELSE Branch(status[using_idx']))
    /\ UNCHANGED <<sharedVars, ringVars, boundary, occupied, j, resultVars,
                   exiting, wait>>

\* The loading thread skipped the rest of the ring: so does the replay.
R_SkipEmpty ==
    /\ Awake(Replay, "skipWait")
    /\ status' = [status EXCEPT ![using_idx] = "EMPTY"]
    /\ j' = using_idx + 1
    /\ Goto(Replay, "skipClear")
    /\ UNCHANGED <<sharedVars, mtx, current, using_idx, boundary, occupied,
                   resultVars, exiting, wait>>

R_SkipClear ==
    /\ At(Replay, "skipClear") /\ j < ChunkCount
    /\ mtx[j] = Free
    /\ status' = [status EXCEPT ![j] = "EMPTY"]
    /\ j' = j + 1
    /\ UNCHANGED <<sharedVars, mtx, current, using_idx, boundary, occupied,
                   resultVars, exiting, pc, wait>>

R_SkipDone ==
    /\ At(Replay, "skipClear") /\ j >= ChunkCount
    /\ Notify("preload_sem_get")
    /\ using_idx' = 0
    /\ Goto(Replay, IF status[0] = "EMPTY" THEN "headWait" ELSE "isReady")
    /\ UNCHANGED <<sharedVars, ringVars, boundary, occupied, j, resultVars, exiting>>

R_Head == Awake(Replay, "headWait") /\ Jump(Replay, "isReady")

\* The status is compared with READY and LOADING, then with EMPTY, without the
\* mutex: the unoptimised build loads it again in between.
R_IsReady ==
    /\ At(Replay, "isReady")
    /\ LET branch == Branch(status[using_idx])
       IN  Jump(Replay, IF StatusReread /\ branch # "lock" THEN "isEmpty" ELSE branch)

R_IsEmpty ==
    /\ At(Replay, "isEmpty")
    /\ Jump(Replay, IF status[using_idx] = "EMPTY" THEN "null" ELSE "take")

R_Lock ==
    /\ At(Replay, "lock")
    /\ mtx[using_idx] = Free
    /\ mtx' = [mtx EXCEPT ![using_idx] = Replay]
    /\ Goto(Replay, "locked")
    /\ UNCHANGED <<sharedVars, status, current, replayVars, exiting, wait>>

R_Use ==
    /\ At(Replay, "locked")
    /\ boundary' = current[using_idx]
    /\ current' = [current EXCEPT ![using_idx] = Base(using_idx)]
    /\ status' = [status EXCEPT ![using_idx] = "USING"]
    /\ Goto(Replay, "take")
    /\ UNCHANGED <<sharedVars, mtx, using_idx, occupied, j, resultVars, exiting, wait>>

\* preload_get_next_packet returns NULL and main_loop leaves its loop.
R_Null == At(Replay, "null") /\ Jump(Replay, "exit")

\* The loading thread has released a chunk and not yet moved loading_idx on to
\* the next one (lines 498 to 510 and 378).
LoaderLags == ~At(Loader, "done") /\ (At(Loader, "share") \/ loading_idx = ChunkCount)

\* Bound of the history: no more packets than the file has, and one.
HistoryHasRoom == Len(delivered) <= PacketCount

\* The packet at current_address is taken; the size in its header tells where
\* the next one begins.
R_Take ==
    /\ At(Replay, "take") /\ HistoryHasRoom
    /\ LoaderMayLag \/ ~LoaderLags
    /\ HeaderAt(current[using_idx]) # 0
    /\ addr' = current[using_idx]
    /\ delivered' = Append(delivered, HeaderAt(addr'))
    /\ current' = [current EXCEPT ![using_idx] = @ + input.size[HeaderAt(addr')]]
    /\ Goto(Replay, IF current'[using_idx] >= boundary THEN "emptied" ELSE "call")
    /\ UNCHANGED <<sharedVars, status, mtx, using_idx, boundary, occupied, j,
                   exiting, wait>>

\* There is no packet header: what the replay does with it is undefined.
R_Garbage ==
    /\ At(Replay, "take") /\ HistoryHasRoom
    /\ LoaderMayLag \/ ~LoaderLags
    /\ HeaderAt(current[using_idx]) = 0
    /\ delivered' = Append(delivered, 0)
    /\ Goto(Replay, "crashed")
    /\ UNCHANGED <<sharedVars, ringVars, using_idx, boundary, occupied, j, addr,
                   exiting, wait>>

\* The last packet of the chunk: the chunk is given back to the loading thread.
R_Emptied ==
    /\ At(Replay, "emptied")
    /\ occupied' = ChunksFor(current[using_idx] - Base(using_idx))
    /\ status' = [status EXCEPT ![using_idx] = "EMPTY"]
    /\ current' = [current EXCEPT ![using_idx] = Base(using_idx)]
    /\ mtx' = [mtx EXCEPT ![using_idx] = Free]
    /\ j' = using_idx + 1
    /\ Notify("preload_sem_get")
    /\ Goto(Replay, "release")
    /\ UNCHANGED <<sharedVars, using_idx, boundary, resultVars, exiting>>

\* So are the chunks the packet extended over.
R_ReleaseNext ==
    /\ At(Replay, "release") /\ j < using_idx + occupied
    /\ Jump(Replay, IF IsReady(j) THEN "releaseLock" ELSE "readyWait")

R_ReleaseReady == Awake(Replay, "readyWait") /\ Jump(Replay, "releaseLock")

R_ReleaseLock ==
    /\ At(Replay, "releaseLock")
    /\ mtx[j] = Free
    /\ status' = [status EXCEPT ![j] = "EMPTY"]
    /\ current' = [current EXCEPT ![j] = Base(j)]
    /\ Notify("preload_sem_get")
    /\ j' = j + 1
    /\ Goto(Replay, "release")
    /\ UNCHANGED <<sharedVars, mtx, using_idx, boundary, occupied, resultVars, exiting>>

\* On to the next chunk; when the loading thread stands there too the replay
\* waits until the chunk it has just emptied is no longer EMPTY.
R_Advance ==
    /\ At(Replay, "release") /\ j >= using_idx + occupied
    /\ using_idx' = using_idx + occupied
    /\ Goto(Replay, IF loading_idx = using_idx' % ChunkCount THEN "throttle" ELSE "call")
    /\ UNCHANGED <<sharedVars, ringVars, boundary, occupied, j, resultVars,
                   exiting, wait>>

R_Throttled == Awake(Replay, "throttle") /\ Jump(Replay, "call")

\* main_loop stops: end of the frame range, window closed, an API error.
R_Stop ==
    /\ At(Replay, "call") /\ delivered # << >>
    /\ RangeReplayed \/ MayQuit
    /\ Jump(Replay, "exit")

\* exit_preload: release the chunk in use, then join the loading thread.
R_ExitPreload ==
    /\ At(Replay, "exit")
    /\ exiting' = TRUE
    /\ status' = [c \in Chunk |-> IF status[c] = "USING" THEN "EMPTY" ELSE status[c]]
    /\ mtx' = [c \in Chunk |-> IF status[c] = "USING" THEN Free ELSE mtx[c]]
    /\ Goto(Replay, "join")
    /\ UNCHANGED <<sharedVars, current, replayVars, wait>>

R_Join == At(Replay, "join") /\ At(Loader, "done") /\ Jump(Replay, "done")

ReplayStep ==
    \/ R_Start \/ R_Call \/ R_SkipEmpty \/ R_SkipClear \/ R_SkipDone \/ R_Head
    \/ R_IsReady \/ R_IsEmpty \/ R_Lock \/ R_Use \/ R_Null
    \/ R_Take \/ R_Garbage \/ R_Emptied
    \/ R_ReleaseNext \/ R_ReleaseReady \/ R_ReleaseLock \/ R_Advance \/ R_Throttled
    \/ R_Stop \/ R_ExitPreload \/ R_Join

-----------------------------------------------------------------------------
\* The replay is over (or beyond what the code defines): nothing is left to do.
Terminated ==
    /\ pc[Replay] \in {"done", "crashed"}
    /\ UNCHANGED vars

CondvarStep(t) == EvalFalse(t) \/ Block(t) \/ SpuriousWakeup(t)

Next == LoaderStep \/ ReplayStep \/ (\E t \in Thread : CondvarStep(t)) \/ Terminated

Spec == Init /\ [][Next]_vars

\* The scheduler runs every thread that can run.
Fairness ==
    /\ WF_vars(LoaderStep)
    /\ WF_vars(ReplayStep)
    /\ \A t \in Thread : WF_vars(EvalFalse(t)) /\ WF_vars(Block(t))

FairSpec == Spec /\ Fairness

=============================================================================
