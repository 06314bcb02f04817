# Verification of vktrace

This directory holds a TLA+ verification of parts of **vktrace-arm**: the
recorder (`vktrace`), the tracing layer it loads into a Vulkan application, the
replayer (`vkreplay`) and the layers beside them (`src/layersvt`). It says what
is modelled, what TLC checks on small instances, what TLAPS proves for every
instance, what came out, and what is left.

Paths are relative to the repository; `src/...:123` is a line.

1. [The system](#1-the-system) – the inventory
2. [The preloader](#2-the-preloader) – `Preload`, `PreloadProps`, `PacketReader`, `MCPreload`, `PreloadInvariant`, `Preload_proofs`
3. [The off-screen swapchain](#3-the-off-screen-swapchain) – `Swapchain`, `SwapchainProps`, `PresentQueue`, `MCSwapchain`, `Swapchain_proofs`
4. [The page guard](#4-the-page-guard) – `PageGuard`, `PageGuardProps`, `MCPageGuard`, `PageGuard_proofs`
5. [The interceptors and the memory table](#5-the-interceptors-and-the-memory-table) – `TraceCalls`, `MemTable`, `TraceCallsProps`, `MCTraceCalls`, `TraceCalls_proofs`, `TraceTable_proofs`
6. [The message stream](#6-the-message-stream) – `MessageStream`, `MessageQueue`, `MessageStreamProps`, `MCMessageStream`, `MessageStream_proofs`
7. [The trace server](#7-the-trace-server) – `RecordServer`, `RecordServerProps`, `MCRecordServer`, `RecordServer_proofs`
8. [Trimming](#8-trimming) – `Trim`, `VulkanObjects`, `TrimProps`, `MCTrim`, `Trim_proofs`
9. [What the runs showed](#9-what-the-runs-showed)
10. [What is proved](#10-what-is-proved)
11. [What is not modelled, and the plan](#11-what-is-not-modelled-and-the-plan)

## 1. The system

A traced application runs with `VK_LAYER_LUNARG_vktrace`. Every Vulkan call
becomes a packet that the layer sends through a socket (`MessageStream` below a
`FileLike`) to recording threads in the `vktrace` server, which append it to a
trace file. `vkreplay` opens the file, reads it packet by packet
(`Sequencer`), remaps the handles and calls Vulkan again. For performance tests
it reads the file ahead into memory (the preloader, "Preload trace file to
memory for performance test", `src/README.md:3`) and may render off screen (the
off-screen layer with its own swapchain).

| Component | State | Operations | Hard behaviour | What makes it correct |
|---|---|---|---|---|
| **Preloader** `vkreplay_preload.cpp` | ring of chunks (status, mutex, address), loading and using index, skip flags, six condition variables | `init_preload`, thread `chunk_loading`, `preload_get_next_packet`, `exit_preload` | two threads; statuses read and written without the mutexes; notification without the mutex; packets larger than a chunk; wrapping | no chunk owned twice, every packet once and in order, start, progress and end |
| **Sequencer** `vkreplay_seq.cpp` | position in the file, the last packet's buffer, bookmark | `get_next_packet`, `record_bookmark`, `set_bookmark`, `clean_up` | the bookmark against the reading-ahead thread | the packets in the order of the file |
| **Replay main loop** `vkreplay_main.cpp` | `trace_running`, frame number, loop counters | interpret, replay, loop over a frame range | ends at a frame, a NULL packet, an error or a closed window | ends; loops repeat the range |
| **Replayer, object maps, displays** `vkreplay_vkreplay.cpp` … | handle maps | one handler per entry point | none (sequential) | handles map to what replaying created |
| **Trace server** `vktrace_trace/` | process info, recording threads, watchdog | create the process, accept, record, join | threads created while others are joined; termination | every recording thread joined, the trace file complete |
| **Message and file stream** `vktrace_interconnect.c`, `vktrace_filelike.c` | socket, send buffer, error number | handshake, send, receive, checkpoints | partial sends and receives, closed peers | what is received is what was sent; failures are seen |
| **Trace packets, compression, helpers** `vktrace_common/` | none beyond a packet's buffer | allocate, finalise, interpret pointers | none | interpret undoes finalise |
| **Page guard** `vktrace_lib_pageguard*.cpp` | shadow memory, page protections, two arrays of changed pages | page fault, flush, read back, map, unmap | a fault handler in any thread against a flush | no write of the application is lost |
| **Tracing layer** `vktrace_lib_trace.cpp` | object table, `g_trimEnabled` … | one interceptor per entry point | locks around shared tables | a packet per call, in call order |
| **Trim** `vktrace_lib_trim*.cpp`, interceptors | the state tracker, its snapshot, marks, packets kept, the phase | track, start, mark, keep or write a packet, recreate, destroy, stop | a long history of calls is summed up in a few packets, in another order; post-processing decides afterwards what to recreate | the trimmed trace is legal, recreates every live object as it is, and destroys all |
| **Off-screen swapchain** `offscreenlayer/headless_swapchain.cpp` | image states, ring of pending images, counting semaphores, ancestor and descendant | acquire, present, page flip thread, deprecate, teardown | page flip thread against the application; old and new swapchain | images presented in order, never two owners, teardown ends |
| **Utility, simulation, factory layers** `layersvt/`, `layer_factory/` | counters, settings | print, copy an image, override queries | screenshot's table of images | – |
| **Viewer, dump, via, vkconfig, libcollector, scripts** | – | user interfaces, reports, generators | – | – |

Interactions that the models keep: `main_loop` calls the preloader for every
packet and `exit_preload` at its end (through `Sequencer::clean_up`); the
loading thread reads the file nobody else reads while it runs; the application
calls the swapchain, whose page flip thread waits for a present fence of the
queue and for the ancestor's pending images; interceptors of any threads share
the locks, the table of memories and, through `MessageStream`, one socket; the
page guard's fault handler runs in whichever thread stores; the recording threads
share the process information with `main`.

`PROJECT.json` lists all components, the hazards of this code at their lines,
and which property stands guard over which hazard.

## 2. The preloader

### What the code does

`init_preload` (`vkreplay_preload.cpp:524`) allocates `chunk_count` chunks of
one size next to each other, reads the first packet header, starts the thread
`chunk_loading` and waits. The thread fills chunk after chunk (374–522). A
packet larger than a chunk takes as many chunks as it needs (411–474); if the
rest of the ring is too short, the rest is marked `SKIPPED` and loading goes on
at chunk 0 (419–446). `preload_get_next_packet` (582–710) takes the chunks in
the same order, hands out a pointer into the chunk for each packet, and gives
the chunk back with its last packet. Every chunk has a mutex and a status; the
status is what the threads really go by, and most of its reads are outside the
mutex. `simple_sem` is a condition variable whose `notify` does not take the
mutex of `wait` (70–85).

### How the model corresponds

`Preload` has one variable per field or local (its declarations name them) and
one action per stretch of code between two points at which the other thread can
matter. `pc[Loader]` and `pc[Replay]` say where each thread is. The actions
`L_*` are `chunk_loading` and `load_packet`, `R_*` are
`preload_get_next_packet`, the wait in `init_preload`, and `exit_preload`.
Every unlocked read of a status is an action of its own and so is every write
that another thread may see before the next; stretches are merged only where
nothing the other thread can see or do falls between:

* `R_Emptied` merges status, notification, address and unlock (665–672): before
  the loading thread can touch the chunk it has to lock it;
* `L_SkipLock` (434–437) and `R_ReleaseLock` (687–693) merge lock, status and
  unlock for the same reason;
* `R_ExitPreload` handles all chunks at once: only the replaying thread writes
  or clears `USING`.

Memory is the data that matters: `mem[a]` is the packet whose header lies at
address `a`, and an address is an offset into `preload_mem`. Loading a packet
wipes what lay under it, so a packet handed out too long shows. Sizes are
numbers of abstract units; headers, decompression and pointers are left out.
Reading garbage is `R_Garbage`, after which the replay stops (`crashed`).

A waiting thread is `awake` (evaluates its predicate), `falling` (found it
false, has not blocked) or `asleep`. Five constants switch what the environment
may do:

| Constant | TRUE means |
|---|---|
| `WaitWindow` | a notification can fall between the predicate and the blocking, and is lost (82–84 takes no mutex) |
| `SpuriousWakeups` | a condition variable may return by itself |
| `StatusReread` | the status is read again for each comparison, as a build without optimisation does; otherwise once (the default build is Release, `-O2 -DNDEBUG`, `src/vktrace/CMakeLists.txt:58-59`) |
| `LoaderMayLag` | the replaying thread may overtake the loading thread between the unlock of a chunk (498) and the move of `loading_idx` (510, 379) |
| `MayQuit` | the replay may stop at any packet (closed window, error) |

A trace (`input`) is a sequence of packet sizes, the packet that ends the frame
range (`last`) and one that cannot be loaded (`bad`); 0 stands for none.
Assertions are not guards, as in the default build; where they say something
they are properties. `PacketReader` is the abstract specification: what
`Sequencer::get_next_packet` gives `main_loop` without the preloader, packet after
packet and then NULL. Its `phase` tells a replay that was told that there is no packet from one
that stopped by itself, so that the first is an error as long as there are packets.

### Bounds

`HistoryHasRoom` caps the history `delivered` at one more than the packets of
the file, which a correct replay never reaches. Everything else is finite by
itself. `preload_ring` has three chunks of three units and all traces of five
packets of size 1 and 4: small packets share a chunk, 4 needs two chunks, so
skipping from chunk 2, wrapping, joining and refilling all happen, and the
largest traces fill the ring more than twice. `preload_small` has traces of
seven packets of size 1 and 2, two rounds of the ring. Two or four chunks are
used where a behaviour needs them (a loading thread that meets its own skipped
chunk; only the last chunk skipped).

### Fairness

`FairSpec` asks weak fairness of each thread's steps and of evaluating and
entering a wait: the operating system runs every runnable thread. Taking a
mutex is a step that is enabled only while it is free; no strong fairness is
needed because the threads never compete for a mutex over and over. Spurious
wakeups get no fairness.

### Runs

| Run | Shows |
|---|---|
| `preload_ring` (1.0 million states) | with lost notifications, spurious wakeups, a lagging loading thread, early stops and unloadable packets: types and bounds (`TypeOK`), chunk ownership (`LockDiscipline`), the assertion of line 632 (`AssertReady`), and packets in order (`InOrder`) |
| `preload_small` (0.2 million) | when all packets are smaller than a chunk, no notification is lost and the loading thread keeps up: the replay sees just what `PacketReader` promises (`ReadsLikeSequencer`, a refinement with liveness), it starts only on a full ring (`StartsWhenFull`) and replay and join end (`Ends`); here the status may be read again for each comparison. Deadlock is checked |

The conditions of `preload_small` are not decoration: dropping any of them
breaks a property (section 9). Deadlock is not checked in `preload_ring`, because the
ring can stop (`GetsChunk` and `HeadArrives` in section 9). The safety parts of both runs are also proved for
rings and traces of any size (section 10).

## 3. The off-screen swapchain

### What the code does

The off-screen layer replaces the swapchain of the platform
(`layersvt/offscreenlayer/headless_swapchain.cpp`). `acquire_next_image`
(568–609) takes the semaphore `m_free_image_semaphore` and then the first `FREE`
image; `queue_present` (658–731) submits the image's fence, makes it `PENDING`,
writes its index to a ring and posts `m_page_flip_semaphore`. The page flip
thread (54–121), one per swapchain, takes the oldest index, waits for its fence,
makes the image `FREE` and posts the free-image semaphore. There is nothing to
show, so no image is ever `PRESENTED`.

A swapchain created with an `oldSwapchain` is its *descendant*. Creating it
releases the old one's `FREE` images (`deprecate`, 822–833); its page flip
thread, before it shows its first image, waits for the old one's pending images
(108) and then posts `m_start_present_semaphore`. The old one's destructor
(`teardown`, 456–566) waits for that semaphore if it finds the descendant
presenting, and for its own pending images if not.

`timed_sem` (126–255) is a count, a mutex and a condition variable. The statuses
of the images, the ring and the links between swapchains have no lock.

### How the model corresponds

`Swapchain` has one variable per field and local, each a function of the
swapchain `1 .. ChainCount`; swapchain `c + 1` replaces swapchain `c` if that
still exists. `app[c]` is the place of the application's call on `c`, `flip[c]`
that of its page flip thread; `held[c]` are the images the application has.

* The calls `Create`, `Acquire`, `Present`, `Destroy` start whenever the rules of
  Vulkan allow: only an acquired image is presented, none is acquired from a
  replaced swapchain, waiting for ever is only for an application that leaves the
  swapchain an image, and two calls never use one swapchain at once. With
  `OneThread` no two calls overlap at all; without it calls on different
  swapchains do.
* Every status that another thread may change in between is read by an action of
  its own: the scan for a `FREE` image, the scan of the descendant's images, the
  look at a status after the fence, the look at `m_descendant` after an image has
  become `FREE` (257–264).
* Merged are: the two calls of `wait` in `wait_for_free_buffer` (871–892; between
  them nothing happens, so the second is the first one's chance again); the count
  of the acquired images in `wait_for_pending_buffers` (839–845; on a swapchain
  that is being replaced or destroyed that number only falls, one by one, so what
  the scan counts is its value at some moment); `teardown` after the queue is idle
  (492–566), which ends the page flip thread (the signal, 498) wherever it is.
* `Take`, `Sleep` and `Post` are `timed_sem`: its mutex makes each atomic. A woken
  thread decrements without looking at the count, as the code does;
  `CountModulus` stands for 2^32.
* A call that has returned forgets its locals (`Return`), and a freed swapchain
  its memory (`Free`), so that states do not differ in values nobody reads.
* `Signal` is the queue signalling a present fence. `MayFail` lets a submission
  or the wait for a fence fail. A creation that fails returns before it touches
  another swapchain (439 is "done last") and is left out.
* Presenting an image that has been released uses a destroyed fence, and a scan
  that finds no `FREE` image returns an index nobody wrote: the application is
  then `lost` and the behaviour ends.

`PresentQueue` is what one swapchain promises: images go round between the
application, a queue and the free ones, and every queued image is shown, in order
and once. `SwapchainProps` maps `queue` to the image in the page flip thread's
hand followed by the entries of the ring.

### Bounds, fairness, runs

Nothing is capped: with a fixed number of swapchains and images all states are
finitely many. Three images let one be held, one wait and one be shown; a first
swapchain of two images and a second of one is the smallest pair in which the
old one has a `FREE` and a `PENDING` image when it is replaced. In
`swapchain_ring` the modulus is 5, so that the count wraps within a few steps.

`FairSpec` asks weak fairness of the application's steps *within* a call, of
every page flip thread and of the queue's fences, all of which the system
runs by itself; that the application starts another call is not assumed.

| Run | Shows |
|---|---|
| `swapchain_single` (0.16 million states) | one swapchain of three images, nothing failing: types and ring bounds (`TypeOK`), a thread past the semaphore finds a `FREE` image (`AcquireFindsFree`), images are shown in order and all of them (`ShowsInOrder`, refines `PresentQueue`), the destructor ends (`TeardownEnds`). Deadlock is checked |
| `swapchain_ring` (2.1 million) | with spurious wakeups, wrapping counts and failures: head, tail and semaphore agree, no entry is overwritten before it is read, none is the application's or the one being shown, and all are `PENDING` until there is a descendant (`RingAgrees`) |
| `swapchain_pair` (1.5 million) | two swapchains, one application thread, failures: the count never wraps (`CountNeverWraps`) and the old swapchain outlives the new one's wait for it (`AncestorAlive`) |

Deadlock is not checked with `MayFail`: after a failed fence the image stays
`PENDING` for good, and an application that waits for it for ever really stops.


## 4. The page guard

### What the code does

The application never gets the memory that `vkMapMemory` returns. It gets a
shadow copy whose pages are read-only
(`vktrace_lib_pageguardmappedmemory.cpp:348-411`). The first store to a page
raises SIGSEGV; the handler (`vktrace_lib_pageguard.cpp:456-480`) marks the page
in `activeChangesArray`, makes it writable, and the store is made again. A flush
(`getChangedBlockInfo`, 521-582, and `vkFlushMappedMemoryRangePageGuardHandle`,
593-637) exchanges the active array with the captured one, makes the captured
pages read-only again, copies them to the real memory and to the packet.
Flushes happen in `vkFlushMappedMemoryRanges`, at every queue submission
(`flushAllChangedMappedMemory`, 343-368, which takes HOST_CACHED memory that the
application flushes itself last) and before memory is unmapped or freed. With
`VKTRACE_PAGEGUARD_ENABLE_SYNC_GPU_DATA_BACK` a submission waits for the device
and copies whole memories back to the shadow (447-454).

On Linux one semaphore, `map_lock_sem_id`, is held by every entry point from
beginning to end and by the handler; what nothing guards is a store to a page
that is writable already.

### How the model corresponds

`PageGuard` keeps for each memory and page three contents, `shadow`, `real` and
`traced` (what the packets written so far make of the memory on replay), each
with a part that counts the stores of the application and one that counts the
writes of the device. `holder` is the thread that has passed `pageguardEnter`;
`call`, `cur`, `rest`, `todo`, `later` say where its entry point is. The pages of
a flush are protected and copied by one action each (`Protect`, `Copy`), so that
a store of another thread falls between any two; so are the steps of the copy
back (`SyncOpen`, `SyncCopy`, `SyncClose`). `Store` is a store to a writable page
and needs no lock; `Fault`, `HandlerEnter`, `HandlerMark`, `HandlerUnprotect` and
the repeated store are the way of one to a protected page. An explicit flush may
name one memory in several ranges (`RangeLists`), whose pages the code collects
per memory before it writes one packet (`RecordRanges`).

Toggling the arrays is one step (`Swap`): it is not a race, the handler that
marks holds the semaphore too. A job's writes happen at its submission
(`RunJob`), which is one of the moments at which a device may do them.

### Bounds, fairness, runs

`MaxStores` and `MaxDev` cap the stores of the application and the writes of the
device to a page. Three stores by two threads to two pages are enough for a
store to fall before, between and after the protection and the copy of the page
it hits, twice in one flush; the second memory, which backs an acceleration
structure or is HOST_CACHED, makes the order of the memories in a submission
matter. `FairSpec` asks weak fairness of the holder's and the handler's steps and
of the repeated fault, and strong fairness of entering the handler and of the
repeated store: a semaphore is passed on to a thread that waits for it, and a
page cannot be protected again and again just before the store, since each round
needs a flush that the application calls.

| Run | Shows |
|---|---|
| `guard_threads` (3.4 million states) | two memories, stores and entry points in any order, without the copy back: types (`TypeOK`), no store is lost (`NoWriteLost`), a job sees all stores made before it, in the capture and on replay (`JobSeesWrites`, `ReplayAgrees`), and unmapping saves what was never flushed (`UnmapSaves`) |
| `guard_sync` (0.27 million) | with the copy back, and no stores during a submission: no store or device write is undone (`DeviceDataKept`, `StoresStay`), the application reads what the device wrote (`ReadsDeviceData`), and a thread that faults goes on (`FaultReturns`). Deadlock is checked in both |

## 5. The interceptors and the memory table

### What the code does

An interceptor of the layer takes up to four locks: `TraceLock` around all of it
(off unless `VKTRACE_ENABLE_TRACE_LOCK` is set), `map_lock_sem_id`,
`s_trace_lock` from `CREATE_TRACE_PACKET`, which numbers the packet, to
`FINISH_TRACE_PACKET`, which writes it, and `g_memInfoLock` around the table of
memories. Most call the driver while they hold `s_trace_lock`, some before. The
table (`vktrace_lib_helpers.h:71-268`) is an array that grows by `realloc`, with
a pointer to the entry mapped last, and is in places searched without its lock.

### How the model corresponds

In `TraceCalls` every interceptor is a sequence of steps (`Hooks`): take a lock,
create, call the driver, find an entry, use it, write. One action does one kind
of step, for any interceptor that is there, so that a thread switch may fall
between any two. The ten interceptors stand for the shapes in the code: memory
(`vkAllocateMemory`, `vkFreeMemory`, `vkMapMemory`, `vkUnmapMemory`,
`vkFlushMappedMemoryRanges`, `vkInvalidateMappedMemoryRanges`), a submission that
flushes every memory, the generated shape that calls the driver inside
(`vkSetEvent`, `vkWaitForFences`), and the one that calls it first
(`vkGetQueryPoolResults`). `locked` is chosen at the start.
`MemTable` is the table, with pointers as pairs of a block and an index, so that
an entry found before the array moved is told from one found after.
The driver gives out the handles of freed memory again at once.
The application keeps the rules of Vulkan (`MayCall`).

### Bounds, fairness, runs

`MaxCalls` caps the calls of all threads: four calls of two threads on two handles
are enough for a handle to be allocated, freed by one thread and allocated again
by the other while the first is still in its interceptor, and for the table to
hold two entries while one of them is removed. `FairSpec` asks weak fairness of each
thread's next step and of the device.

| Run | Shows |
|---|---|
| `calls` (0.15 million states) | packets are written in the order of their indices (`IndexOrder`), with `TraceLock` also in the order of the driver (`ExecOrder`); the replay can do what they say even though handles are reused (`ReplayIsLegal`); with `TraceLock`, and with no more handles than the array of entries begins with, the entry an interceptor uses is that of its memory (`FoundIsOwn`; in the run the array grows only without `TraceLock`); the locks never leave threads waiting in a circle (`CallsReturn`). Deadlock is not checked: after `MaxCalls` calls everything has returned |

## 6. The message stream

### What the code does

All threads of a traced process write their packets to one socket
(`vktrace_write_trace_packet`, `vktrace_trace_packet_utils.c:566-573`; the
`FileLike` of a process passes them to `vktrace_MessageStream_Send`).
`ReallySend` (`vktrace_interconnect.c:373-406`) holds `gSendLock` while it calls
`send` until everything is in the socket; after the handshake the sockets do not
block, and a full one is tried again. The recording thread reads first the size
of a packet, then the rest (`vktrace_read_trace_packet`), each with
`BlockingRecv` (458-466), which calls `Recv` (409-455) until it has succeeded or
the connection is gone. `Recv` keeps what it has read of its data and goes on. A
`recv` that returns 0 (the peer is gone) is tried again, until it is the 200th
call of `recv` (443), which sets `WSAECONNRESET`.

### How the model corresponds

A packet is a number of units, of which the first `SizeUnits` hold its size;
`Send` puts any part that fits into `wire`, `RecvData` and `RecvLast` take any
part of it, so that every cut of the stream of bytes into calls happens. `Read`
is what the recording thread makes of the units it has put together: the packet
only if they are the units of one packet, from the first to the last. `attempts`
counts the calls of `recv` modulo `Wrap`, which stands for 2^32: the code compares
with `==`, so a connection whose 200th call was one that had data is given up only
after the counter has gone all the way round. `Exit` is the end of the process, by
itself or, with `MayBeCut`, within a packet.

`MessageQueue` is the abstract specification: a queue with several writers, one
reader, and an end which is reported when everything has been read. `QueueKept`
maps `closed` to `~up` and `ended` to `phase = "end"`.

### Bounds, fairness, run

`MaxPackets` caps the packets of a thread. Two threads with two packets each, of
two sizes, through a socket that holds less than one packet: every packet is cut,
a thread waits for `gSendLock` while the other waits for room, and both see the
lock come back. `GiveUp` is 3 and `Wrap` 5, so that the last `recv` before the limit
may have data and the counter has to wrap. `FairSpec` asks weak fairness of the
recording thread, which polls, and of each sender. Weak fairness is enough for
`gSendLock`, because the other threads have only finitely many packets to send.

| Run | Shows |
|---|---|
| `stream` (31 thousand states) | whatever the sockets take and give at a time, packets arrive whole, once, in order, all that were sent to the end, and then the end is reported (`QueueKept`, a refinement with liveness); nobody but the holder of `gSendLock` has a packet half sent (`TypeOK`). Deadlock is not checked: a connection ends |

## 7. The trace server

### What the code does

`main` (`vktrace.cpp:563-660`) runs in rounds: it makes `procInfo`, creates one
recording thread, waits for the program it was told to start (by a watchdog
thread; none in a server, which was told none), joins all recording threads in
the order of `pCaptureThreads`, and deletes `procInfo`. A server then starts
again with the next file name. A recording thread
(`Process_RunRecordTraceThread`, `vktrace_process.cpp:225-494`) accepts one
client, creates the recording thread that will accept the next
(`CreateAdditionalRecordTraceThread`, 190-216), opens its trace file under a name
that it looks up (`vktrace_open_trace_file`, `vktrace_trace_packet_utils.h:51-80`),
copies header and packets, and at a termination marker, a closed connection or a
signal appends the tables. `currentCaptureThreadsCount`, `pCaptureThreads`,
`s_fileIndex` and `traceFileCriticalSectionCreated` are shared by all of them
without a lock.

### How the model corresponds

`main` is where `main` is; `pc[t]` is where recording thread `t` is, each place
ending where another thread matters: between accepting and creating the next
thread, between that thread's start and `count` being raised (206), between
choosing a name and opening the file. `info` is `pCaptureThreads`, `files` maps the
name of a trace file to what is at which place in it: `<<c, i>>` is the `i`-th
packet of client `c`, `<<c, 0>>` its tables. Opening a file empties it, as `"w+b"`
does. `place[c]` is where a client is: `away`, in the `backlog` of the listen
socket, `open` (recorded), `marked` (gone with its termination marker), `killed` or
`refused`. `Signal` goes to the handler, or kills vktrace when none is installed.
The stream below is the abstract one of section 6: packets in order, the end
after all of them.

| Constant | TRUE means |
|---|---|
| `Children` | with `-p`, other processes than the program connect |
| `OneAtATime` | nobody is accepted while another recording thread is on its way from `accept` to its open file |
| `Early` | a client may end before it has sent its header |
| `MaySignal` | vktrace may get SIGINT, SIGTERM or SIGHUP |

`Accept` merges `accept` and the handshake. The model stops at `status = "crashed"`
where the code dereferences a null pointer or a return value.

### Bounds, fairness, runs

`MaxThreads` is one more than the clients, which nothing exceeds: a thread is
created by `main` once per round and by every accepted client. `MaxPackets` caps
what a client sends; the header and one packet are enough to tell a complete file
from a cut one. Three clients and two slots: the limit is reached while a third
client waits, and a second round begins with clients left over. `FairSpec` asks
weak fairness of every thread of vktrace and of each client's sending, ending and
losing its connection: an application that is recorded ends some time.

| Run | Shows |
|---|---|
| `server` (0.12 million states) | as a server and with `-p`, with signals and clients that end early or are killed, one client opened at a time: the file of every recording thread that has ended holds the packets of its client, all and in order, and the tables (`TraceComplete`), `procInfo` is deleted only when no thread uses it (`JoinsAll`), and a client that connects is accepted or closed (`ClientsServed`). Deadlock is not checked: a server waits for clients |
| `server_overwrite` (violation) | section 9 |

`OneAtATime` is a condition on the environment, not on the code: without it two
properties are violated (section 9).

## 8. Trimming

### What the code does

With a trim trigger, only a range of frames is traced, and the trace must still play by
itself. From its first call on, every interceptor tells a global tracker
(`s_trimGlobalStateTracker`) what it created, bound, mapped, recorded or destroyed.
When the range begins (`start`, `vktrace_lib_trim.cpp:213`) the tracker is copied to a
snapshot and, without post-processing, packets that recreate it are written: pools with
their command buffers, memory, buffers with the memory dedicated to them and their
contents, mappings, then the calls recorded in each command buffer, secondary ones first. In the
range calls are both written and tracked; `stop` (227) destroys what the tracker has.

Post-processing makes the trace smaller: in the range packets are kept in memory
(`m_inTrim_calls`), each call marks in the snapshot what it uses, and only `stop`
recreates, and only what is marked and what marked command buffers name, writes the
kept packets behind it and forgets what was not recreated before it destroys the rest.

### How the model corresponds

`Trim` has the tracker (`tk`), the snapshot (`snap`), the marks, the kept calls and
one action per interceptor, plus `start` and `stop`, for the objects whose histories are
the hardest to sum up: memory, dedicated or not, mapped or not; buffers; command pools;
command buffers of both levels and what is recorded in them. A call is one action, since
`g_mutex_trace` is held throughout it while trimming is on. What a tracker keeps of each object is a
field of the record; packets are `Call`s.

The trace file is represented by its replay. `VulkanObjects` says, for the driver of the
application and for that of the replay alike, when a call is legal and what it
does, including that command buffers become invalid when something they name is
destroyed or recorded anew. `file.world` is what the packets written so far have
made; `file.failed` collects the calls that were not legal where they stand, and
submissions that ran other commands than for the application (`"Work"`).

`Options` are the settings and habits that one run may have: post-processing,
dedicated memory, and whether primary command buffers that execute secondary ones, or
memory dedicated to a destroyed buffer, last into the next frame (`FrameMayEnd`), or
command buffers of both levels are freed by one call.

### Bounds, runs

| Run | Shows |
|---|---|
| `trim` (0.3 million states) | whatever the application does before and in the range: all packets of the trace are legal where they are played and every submission runs what it ran in the capture (`TraceIsLegal`), in the range the replay has the objects of the application in the state they have there (`StateAgrees`), the tracker agrees with the application (`TrackerAgrees`), and the trace leaves nothing behind (`NothingLeft`); types, and never more than one recording in the packets of a command buffer (`TypeOK`). Deadlock is not checked: after `stop` nothing is left to do |

One memory, one buffer, one pool, a primary and a secondary command buffer: enough for
every dependency between the kinds (a buffer on memory, a command on a buffer, a
primary on a secondary, a command buffer on its pool), while two objects of one kind are
independent in the code, except for `numCommandBuffersAllocated`, which two command
buffers of one pool share. `MaxCmds` is 1: a command buffer names one object. `MaxCalls` is
3: post-processing keeps three packets of the range, enough to use an object from before it,
to record a command buffer anew, and to submit one that a command buffer from before the
range needs; the number of calls before the range, and in it without post-processing, is not bounded.
`CountModulus` is 4 for 2^32, larger than the number of command buffers, as `CountsFit` asks.

The run leaves out four situations in which a property fails; they are in section 9 with
the `Options` that show them, and `MCTrim` defines these. It also assumes that a buffer is
destroyed before its memory at the latest by the end of the frame, and that an application resets a command
buffer that has become invalid before it begins it again. With post-processing, a command buffer that
the range ends recording, but never submits, may lose its beginning and with it the
rest of its recording (`Cmd` and `EndCommandBuffer` in `TraceIsLegal`); nothing that runs is affected.

## 9. What the runs showed

One disagreement between the code and what it says of itself has a run, with
the quoted lines in `PROJECT.json`:

| Run | Property | What happens |
|---|---|---|
| `server_overwrite` | `TraceComplete` | with `-p`, the second process that connects looks up its file name while `s_fileIndex` is 0, gets the name of the first, and empties its file |

The others are reproduced by checking a property that is defined in the `*Props`
module, most of them listed in no configuration, with the constants that the column names
(the rest as in the configuration nearest to it).

| Module, property | Constants | What happens |
|---|---|---|
| `Preload`, `NullOnlyAtEnd` | `LoaderMayLag` | `loading_idx` is moved (510, 379) after the chunk is released (495-498); the replay compares with the old value (703), does not wait, finds the next chunk `EMPTY` (646) and ends the replay with packets left |
| `Preload`, `NullOnlyAtEnd` | `LargerThanHalf` | a packet that needs two of three chunks is loaded from chunk 0 on while the replay gives back chunks 1 and 2: the loading thread takes the second chunk (`LOADING`, 470) before the first (476), and the replay, which waits for the chunk it has just emptied to leave `EMPTY` (703-707), sees chunk 1 `LOADING`, goes on, finds chunk 0 still `EMPTY` and ends with packets left. Found by the proof: `AheadOK` is not inductive for packets that need more than half of the ring |
| `Preload`, `InOrder` | `preload_ring` with `ChunkCount` 4, `LargeSkipsTwo` | a packet that needs three chunks skips the last two; the replay sees the first of them `SKIPPED` while `skipped_to_first` is still `SKIPPING_NONE` (593), does not wait, and clears both before the loading thread has marked the second (434-437). The second stays `SKIPPED` into the next round, and the replay, which finds it there, goes to chunk 0 while a packet before is still to come. With three chunks this cannot happen. Found by the proof: `SkipOK` is only inductive while just the last chunk is skipped |
| `Preload`, `PacketIntact` | as `preload_small` | the chunk is given back before its last packet has been replayed and may be loaded over |
| `Preload`, `GetsChunk` | `ChunkCount` 4, `LargeAtBothEnds` | the loading thread waits for a chunk it skipped itself, the replay waits for the loading thread |
| `Preload`, `HeadArrives` | `LargeAtTheLastChunk` | when only the last chunk is skipped, `SKIPPING_DETECTED` is never set and the replay that waits for chunk 0 is never woken |
| `Swapchain`, `PendingFlipped` | two swapchains | the wait for pending images takes counts of images that were free all along; the destructor drops a pending image |
| `Swapchain`, `TeardownEnds` | two swapchains | the descendant has waited for the old swapchain's images already, its own are `FREE` again (or it is gone), so the old one's destructor waits a second time for counts nobody gives back |
| `Swapchain`, `HeldIsAcquired` | two swapchains | an image is made `FREE`, acquired by the application, and released by the page flip thread, which sees the descendant only then |
| `PageGuard`, `NoWriteLost` | `SyncBack` TRUE, `Quiet` FALSE | after a submission `SyncRealMappedMemoryToMemoryCopyHandle` makes all pages writable twice (450, 452), although a comment says "this method is only called during vkMapMemory and vkUnMapMemory" (273-278): a store of another thread between the two raises no fault, and is overwritten by the copy or never marked |
| `TraceCalls`, `CallsReturn` | `AwaitsEvent` | `vkWaitForFences` waits in the driver with `s_trace_lock` held; the `vkSetEvent` it waits for cannot create its packet (`TODO.md:56` calls the lock a bottleneck) |
| `RecordServer`, `Ends` | `Programs = {c1}` | every recording thread that accepts a client creates another one, which stays in `accept`; `main` joins it, so that `vktrace -p` never ends (`vktrace.cpp:642-649`), although `tests/vktracereplay.py` waits for it to |
| `RecordServer`, `TypeOK`, `TraceComplete` | `OneAtATime = FALSE` | two threads raise the count from the same value and use one slot, or look up one name: two clients write to one file, and `main` joins a slot that has no thread |
| `Trim`, `StateAgrees` | `Options <- Lasting` | `vkCmdExecuteCommands` is not among the calls "that need to be tracked prior to the trim frames so that we can recreate objects" (`vktrace_file_generator.py:2615-2616`): a primary command buffer recorded before the range is recreated without the secondary ones it executes (`vktrace_lib_trace.cpp:3947-3985`), although secondary ones are recreated first for its sake (`vktrace_lib_trim.cpp:4999`) |
| `Trim`, `StateAgrees` | `Options <- Orphans` | "the trimmed trace file will record all the not destroyed objects" (`vktrace.md:185`), but memory dedicated to a buffer that has been destroyed is recreated neither with the memory (3753) nor with the buffer (4399-4432), and later calls name memory that the replay does not have |
| `Trim`, `TraceIsLegal` | `Options <- Mixed` | `vkFreeCommandBuffers` subtracts all its command buffers from the count of the first one's level (`vktrace_file_generator.py:2683-2686`): the counts no longer fit the command buffers that are left, and `vkAllocateCommandBuffers` and `vkFreeCommandBuffers` of the trace have entries that were never filled (3722-3748, 5868-5890) |
| `Trim`, `TraceIsLegal` | `Options <- PostDedicated` | with post-processing, dedicated memory is only recreated with its buffer, a buffer that the range does not use is not recreated, and `stop` frees the memory all the same |

Most need an unlucky schedule or trace: a chunk of the preloader is at least
200 MB and a packet seldom larger; few applications replace a swapchain while
they hold an image of it; two processes seldom connect within the time in which
a file is opened.

Seen while modelling:

* A packet larger than the whole ring skips chunk 0, which a comment and an
  assertion call illegal (`vkreplay_preload.cpp:421-422`).
* A packet exactly as large as its chunks is not loaded into them: chunks are
  counted with `>` (411), the room is compared with `<` (487). The chunks become `READY`
  with nothing in them, and the replay reads what is not there (`InOrder` with packets of size 3).
* `init_preload` waits without a predicate (573): a spurious wakeup starts the
  replay with nothing loaded, and a loading thread that is ready before the wait
  begins wakes nobody (`SpuriousWakeups`, `WaitWindow` in `preload_small`).
* The wait for skipped chunks returns at once while `skipped_to_first` is still
  `SKIPPING_NONE` (593), and the replay clears chunks that are not yet `SKIPPED`
  (`LargeSkipsTwo` above shows what may follow).
* `timed_sem::wait` waits once and not in a loop (`headless_swapchain.cpp:199`): a
  spurious wakeup decrements a count of 0, against the assertion in line 232
  (`SpuriousWakeups` in `swapchain_pair`).
* An application that destroys the old swapchain in one thread while it presents
  with the new one in another frees the old one under the wait of the new one's
  page flip thread, which lines 474 to 476 mean to exclude (`OneThread` FALSE in
  `swapchain_pair`).
* On Linux no page is ever marked as read, so that without the copy back an
  application reads the device data of its last flush; memory of acceleration
  structures is not flushed at a submission (both against the list in
  `vktrace_lib_pageguard.h`). The second of the "known limitations" there does not
  occur on Linux, where one semaphore serves the handler and the flush.
* The array of `MemTable` moves when it grows, and `pLastMapped` still points to
  where it was (`vktrace_lib_helpers.h:165-173`). `vkFreeMemory` of that memory then
  clears the entry in the old block; the one in the array stays and is found for the
  next memory with the same handle, with the size, the address and `didFlush` of the
  old one. With `FirstCapacity` 1, one thread and six calls TLC shows it, `TraceLock` or
  not; it is why `FoundIsOwn` speaks of at most `FirstCapacity` handles (4096 in the code).
  Reading and writing the old block is undefined in itself.
* `vkFreeMemory` removes the entry when the driver may have given out the handle
  again (709), which matters without `TraceLock`; `vkAllocateMemory` adds an entry even when the driver failed (467).
* The locks have no common order: `vkFreeMemory` with `VKTRACE_PMB_ENABLE` 2 takes
  them the other way round than `vkQueueSubmit`, and two early returns of
  `vkCmdCopyBuffer` keep theirs (6824, 6831).
* `Recv` compares the calls with `== 200` although all calls count, so that a
  connection may be polled 2^32 times before it is given up (443; the comment in
  437 says 200 times).
* The snapshot asserts that the memory of every buffer it reads is tracked
  (`vktrace_lib_trim.cpp:1797`): a buffer whose memory was freed first, which Vulkan
  allows, ends the capture of a debug build. The assertion of `vkQueueSubmit` about
  `cb_delete_packet` (`vktrace_lib_trace.cpp:3553`) compares a handle with itself and fails for any
  command buffer in that map.
* A recording thread that fails returns 1, which
  `vktrace_linux_sync_wait_for_thread` takes for an address (`Early` with a process
  that connects and ends before `vkCreateInstance`). After a signal a thread that is
  blocked in a read does not see the flag, the flag is never reset, and the first
  thread that ends puts the default handlers back while others still record.
## 10. What is proved

### The preloader

`Preload_proofs` proves, for every number and size of chunks, every set of
traces and every setting of the constants that the last column does not name:

| Theorem | Says | Assumes besides `ConstantsAssumption` |
|---|---|---|
| `Invariance` | `[]IInv`, the inductive invariant | `AllFit`, `~StatusReread` |
| `TypeCorrect` | `[]TypeOK`, no index leaves the ring, no packet the memory | the same |
| `LocksAgree` | `[]LockDiscipline`, no chunk is owned by both threads | the same |
| `AssertionHolds` | `[]AssertReady`, the assertion of line 632 | the same |
| `PacketsInOrder` | `[]InOrder`, the packets in the order of the file | the same, `PacketsFit` |
| `StartsAfterFilling` | `StartsWhenFull`, `init_preload` returns only on a full ring | `~SpuriousWakeups` |
| `ReadsLikeFile` | `Spec => Reader!Spec`, the replay sees what `PacketReader` says and is told that there is no packet only after the last | `PacketsFit`, `HalfRing`, `AllLoad`, `~StatusReread`, `~SpuriousWakeups`, `~LoaderMayLag` |

What is assumed of the program: `~StatusReread`, the default build (without it the replay
can go on with a chunk it does not hold); `~SpuriousWakeups`, since line 573 waits without a
predicate; `~LoaderMayLag`, since line 703 looks at an index that is moved late. And of the traces:

* `AllFit`: each packet fits into the whole ring (otherwise chunk 0 may be skipped);
* `PacketsFit`: no trace is empty, no packet needs more than two chunks, and none is exactly as
  large as its chunks;
* `HalfRing`: none needs more than half of the ring; `AllLoad`: all can be read.

`PacketsFit` and `HalfRing` hold for chunks of 200 MB and more unless a packet is larger than a chunk;
each of these conditions is needed by a theorem that assumes it, as TLC shows: `LargeSkipsTwo`,
`LargerThanHalf` and the packets of exactly three units in section 9; a packet larger than a ring of one
chunk for `AllFit` (`LockDiscipline`, `InOrder`); an empty trace (`InOrder`) and, for
`AllLoad`, a packet that cannot be read (`Reader!Spec`): nobody tells the replay, which reads
on where nothing was loaded. For `TypeCorrect`, `AssertionHolds` and small packets TLC finds no such trace on
the instances of the runs; there the conditions are what the proof needs.

The invariants are in `PreloadInvariant`. The first, who owns a chunk. `LockDiscipline` is not inductive: that a `READY` chunk stays
`READY` until the replay has locked it depends on which statuses the loading
thread takes (`EMPTY`, `USING`), and that it does not lock a chunk in use
depends on the mutex, which `USING` stands for. `IInv` therefore says

* `RingInv`: the loading thread holds exactly the mutexes its place and indices
  say (`HeldByLoader`), `LOADING` marks exactly those it has marked
  (`MarkedLoading`), `USING` marks at most the chunk at `using_idx`, with the
  replaying thread's mutex, and chunk 0 is never `SKIPPED`;
* `LoaderInv`, `ReplayInv`: at each place, how far the indices may run and what
  is still true of a status read before without the mutex: a chunk the loading
  thread queues for is `EMPTY` or `USING`, a chunk the replay queues for is
  `READY` or `LOADING`;
* `MemInv`: a packet in memory ends within the ring, so that the address after
  it, and with it the number of chunks the replay gives back, stays in range;
* `TypeOK`.

The second, where the packets are. `InOrder` says what has been delivered, which no
invariant about statuses implies; `OrderInv` describes what lies in the ring as a
chain, without naming its links one by one (that would be recursive). A chunk *leads* if it
begins with a loaded packet that the replay has not come to. From every packet of a leader to the
next one, and from the last to the chunk both threads go to next, the numbers increase by one
(`Linked`), and the chunks between belong to the leader alone (`Group`). `Expects(c, k)` is the
link between chunks: whoever comes to chunk `c` finds packet `k` there, or at chunk 0 if `c` is
skipped, or it is the next packet of the file and `c` is where the loading thread will put it
(`LoaderPos`). The replay stands at such a link too, in a chunk (`UsingOK`), between chunks
(`PosOK`), or giving back what the last packet took (`ReleaseOK`). The rest makes this inductive:
no packet is pending twice (`Distinct`), a `READY` chunk is in some group (`ReadyOK`, `ShareOK`),
a skipped chunk is the last one and either the loading thread or the replay has yet to turn round
(`SkipOK`), and chunks neither used nor loaded are reset (`BaseOK`, `FilledOK`, `LoadOK`). `Chain` is asked
only while the replay can still get something (`Active`, `Owes`): behind a packet that does not
load, the loading thread goes on at another place in the file.

The third, when the replay is told that there is no packet. It is told so when it finds its chunk
`EMPTY` (646). `FullInv` therefore says that a chunk it looks at is not `EMPTY`, unless everything has
been loaded (`CallOK`), and what keeps it so: while it gives chunks back, the next one is `EMPTY`
only if `loading_idx` shows that the loading thread stands there, so that the replay will wait (`AheadOK`);
the chunk whose status ends that wait is in the ring (`ThrottleOK`), and it is not one of those the loading
thread takes first, because neither takes more than half of the ring (`ShortOK`). `StartOK` is the same for the
first chunk, from `StartInv`: the waiter in `init_preload` is awake only when `first_full` has been
reset or the loading thread has ended. `LoaderOK` says what `exceed` and the end of that thread mean.

All of these were checked by TLC, on rings of two to four chunks, before they were proved; `HalfRing`, the
limit of two chunks and the exact fit are what was found where they failed.

Arithmetic lemmas (`BaseMonotone`, `ChunksForBound`, …) stand first; then the
steps of the loading thread, of the replaying thread and of the condition
variables keep each invariant, one step of the proof per action. For `OrderInv` these steps are
lemmas that move the pieces of the chain together: `ReplayTouches` and
`LoadedExpects` say which links a step leaves alone, and a lemma per action (`LoadedKeepsChain`,
`TakeKeepsChain`, `ReleaseKeepsChain`, …) does the rest.

### The swapchain

`Swapchain_proofs` proves, for any number of swapchains with any numbers of images:

| Theorem | Says | Assumes besides `ConstantsAssumption` |
|---|---|---|
| `TypeCorrect` | `[]TypeOK` | nothing |
| `RingNeedsNoLock` | `[]RingAgrees` | nothing |
| `TakenIsFree` | `[]AcquireFindsFree` | `~SpuriousWakeups` |
| `AncestorOutlivesWait` | `[]AncestorAlive` | `OneThread` |
| `CountStays` | `[]CountNeverWraps` | `OneThread`, `~SpuriousWakeups` |
| `ImplementsQueue` | `Spec => Queue!Spec` | `ChainCount = 1`, `~MayFail` |

None of these conditions can be dropped: TLC finds each property violated without it
(with two swapchains of two images and one; a wait that returns without a signal takes from an
empty semaphore, and two threads can destroy a swapchain while another one is being created
from it). With failures an image that is never shown is lost to the queue. With a descendant
an image may be released instead of being shown.

The statuses of the images have no lock, so each invariant says who may change one when:

* `TInv` adds to the types who can be whose ancestor and descendant, and that the
  descendant's images are looked at only when there is one;
* `FInv` follows an image: held, marked by `queue_present`, in the ring, in the hand of the
  page flip thread. These are different images at any time (so the ring, as large as there
  are images, cannot overflow), and each has a status its place allows. `RingAgrees` alone is
  not inductive: what keeps an entry apart from the image being marked is that the
  application does not hold it. Until there is a descendant that status is `PENDING`
  or `ACQUIRED`; after that an image may have been released after it was shown, and acquired
  again before (`Queued`, `Acquired`), which is why the assertion of line 686 does not
  hold for two swapchains;
* `NInv`, for one thread: a live swapchain knows its live descendant; one that is past its
  look at the descendant's images either waits for it to begin or has seen none of them
  pending (`Quiet`), and then nobody can wait for it;
* `WInv`, `CInv`: a woken thread has its count (only one thread at a time sleeps on a
  semaphore), and count, held, marked and pending images are together at most
  `ImageCount`;
* `AInv`: as long as nothing has failed and there is no descendant, the count, the image taken
  and not found yet and the one shown and not given back are exactly the `FREE` images; whoever
  scans has a `FREE` one ahead, and nobody else takes it;
* `PInv`: only images on their way are `PENDING`. So `Presented`, which counts the pending
  images, is the hand of the page flip thread followed by the ring (`Line`), and the
  lemmas `LineMoves`, `LineGrows`, `LineShrinks` say how a step changes that sequence.

All of them were checked by TLC with two and three swapchains before they were proved.

### The page guard

`PageGuard_proofs` proves every safety and action property of the page guard, for any
number of memories, pages, threads and stores, any way in which the memories are cached,
coherent or copied, and any jobs of the device:

| Theorem | Says | Assumes besides the named assumptions of `PageGuard` |
|---|---|---|
| `Invariance`, `TypeCorrect` | `[]IInv`, `[]TypeOK` | nothing |
| `ReplayIsTheSame` | `[]ReplayAgrees` | nothing |
| `NoWriteIsLost` | `[]NoWriteLost` | `Gentle` |
| `JobSeesItsWrites` | `[]JobSeesWrites` | `Gentle` |
| `UnmapSavesStores` | `[]UnmapSaves` | `Gentle` |
| `StoresAreKept` | `StoresStay` | `Gentle`, and with `SyncBack` no memory of `Targets` in `AsMems` |
| `DeviceDataIsRead` | `[]ReadsDeviceData` | `Shown` |
| `DeviceDataIsKept` | `DeviceDataKept` | `Shown` |

`Gentle` is `~SyncBack \/ Quiet`: device data is not copied back, or it is and the
application does not store into the memory while that happens; otherwise the copy
overwrites what has just been stored (section 9). `Shown` is `SyncBack \/ Targets = {}`:
device data is copied back, or the device writes to no mapped memory. None of these conditions
can be dropped: with one memory, two pages and one job TLC finds each property violated without it.

Three invariants stand on each other; each was checked by TLC with one and two memories
before it was proved.

`IInv`, the bookkeeping. `NoWriteLost` looks at pages that are neither marked nor in a
package, so it says nothing of a page that is writable and not marked; a store to one would
go unseen. `IInv` closes that gap:

* `OpenInv`: a writable page is marked in `active`, unless the flush under way is
  still to protect it, and the page being copied is protected. This is what the
  order of the two steps of the handler (mark, then make writable) and of the
  flush (exchange the arrays, protect, copy) is for;
* `PackageInv`: a page in a package holds what the application sees, or is
  going to be copied again;
* `HandlerInv`, `HolderInv`, `CallInv`, `UsersInv`: a thread in its handler holds the
  semaphore, no flush is then under way, and a flush knows whose call it is and which
  memory it is at.

`TraceInv`, what the trace has. `ReplayAgrees` speaks only of the moment of a job; between the
jobs the trace lacks only pages that are marked, in a package or yet to be put in one (`BehindInv`).
`PendInv` and `NamedInv` say that whatever is in a package belongs to a memory that the call
under way still has to write a packet for (`todo`, `later`, `noted` or the current one), so
that nothing is pending when the job runs. This needs no condition, because what was lost
before it got into a package is lost for both.

`StoreInv`, what was stored. For every call, which stores are already down and which are
owed: `OwedInv` for the memories before the flush, `PaidInv` for those behind it. For a
submission the stores meant are those that were there when it was called (`SeenInv`), since
other threads go on storing. `SyncedInv` is where `Quiet` is used: nothing is stored between
the copy down and the copy back. `BlankInv`: memory that is not mapped holds nothing, so that a
handle mapped again owes nothing.

`DataInv`, for the device's data, says that shadow, real memory and packages have the same
device data, but for the memory whose job has just run, until it is copied back. It follows
the steps independently of `StoreInv`.

### The message stream

`MessageStream_proofs` proves, for any senders, sizes of packets, sizes of what the
sockets hold, cuts and ends of the process:

* `Invariance`: `Spec => []IInv`;
* `TypeCorrect`: `[]TypeOK`;
* `ImplementsQueue`: `Spec => Queue!Spec`, every behaviour of the stream is one of
  `MessageQueue`, which is the safety part of the property `QueueKept`.

Assumptions: only the named ones of `MessageStream`.

The refinement needs to know that the units the recording thread puts together are
those of the oldest packet that it has not read. `StreamInv` says so of everything
that is under way: for what is in the recording thread's buffer and in the sockets
there are places `start[k]` such that the units from `start[k]` on are those of the
`k`-th waiting packet, and what is behind the last is the part of the next packet that
the holder of `gSendLock` has sent. (A definition that strings the packets together
would be recursive, and what it computes would need induction; the places are given
by an existential, and each step says how they change.) `SendInv` and `RecvInv` tie
the counters to the places of the threads, `OrderInv` says that what was read begins
what was sent. `AllRead` is the lemma for the end of the connection: when nothing is
in the sockets and nobody sends, no packet waits, unless part of one was cut off.

### The trace server

`RecordServer_proofs` proves, for any numbers of clients, slots, threads and packets,
as a server in any number of rounds and with `-p`, with signals and clients that end early:

* `Invariance`: `Spec => []IInv`;
* `TypeCorrect`: `[]TypeOK`;
* `AllAreJoined`: `[]JoinsAll`;
* `TracesAreComplete`: `[]TraceComplete`.

Assumptions: the named ones of `RecordServer`, `OneAtATime` and `~Children`. Without the
first two threads may use one slot or one name, without the second two names are the same
(section 9): these two are what the properties hang on, and nothing else is.

`JoinsAll` is not inductive, because `main` only looks at `count`. `RoundInv` says that the
threads of a round are consecutive, that the `i`-th has slot `i` and entry `i` of
`pCaptureThreads`, and that `count` is their number, or one less exactly while one thread
is between `pthread_create` and `count++`; that thread has not ended, so `main` cannot have
joined it and does not reach the end of its loop (`AllJoined`). A termination request stands
only in the slot of a thread that has finished, so that nobody stops early because of
another's. `TraceComplete` needs that no two threads have one file: with `NameInv` every
index that a server gives out is smaller than `s_fileIndex`, and the name without an index
is given out only while no file of the round is open; with `-p` only one thread ever has a
client (`ClientInv`). `FileInv` says what is in each file on the way.

### The interceptors

`TraceCalls_proofs` proves, for any number of threads, handles and calls, with and
without `TraceLock` and events:

* `Invariance`: `Spec => []IInv`;
* `TypeCorrect`: `[]TypeOK`, the bounds of `g_memInfo` among them;
* `PacketsInOrder`: `IndexOrder`;
* `DriverOrder`: `ExecOrder`;
* `TraceIsLegal`: `[]ReplayIsLegal`.

Assumptions: only the named ones of `TraceCalls` and `MemTable`.

Where a thread is says which locks it holds and what it has done, and that follows from
the text of its interceptor. The first part of the module therefore gives the ten
sequences of `Hooks` in full (`TextsOfHooks`) and proves three things of each: `Order` (the
packet is finished last and after the driver's call, memory is forgotten before the driver
frees it), `Locking` (what is held from where to where) and `Loop` (the flushes begin and end
with the same locks). Nothing after `Shape` looks at a text again: a step of a thread
changes `Holds`, `Did` and `Looping` as `Moves` says, and `StepMoves` and `JumpMoves` show it of every step.

`ReplayIsLegal` speaks of the moment in which a packet is written; `IInv` says what is
true between: `LockInv` (a lock's holder is the thread between the two steps), `OrderInv`
and `ExecInv` (what is still to be written is later than what is), `OwnInv` (two calls name one
handle only when one has freed it, has told the trace, and the other has got it anew),
`MappedInv`, and `ReplayedInv`: the trace agrees with the driver about every handle but
those of calls that have changed it and whose packet is still to come, and about these
it says what the packet needs. That a handle may be reused at once is harmless because
`vkAllocateMemory` and `vkFreeMemory` call the driver with `s_trace_lock` held (`AtDriver`).
`LoopInv` says that memory still to be flushed is mapped; whoever would forget it needs
`map_lock_sem_id`, which the flushing thread holds.

`TraceTable_proofs` is about `g_memInfo` under `TraceLock`:

* `EntriesFound`: `[]FoundIsOwn`. With no more handles than the array of entries begins
  with (4096 in the code) every interceptor uses the entry made for its very memory, for
  any number of threads and calls and whatever handles are reused;
* `OwnWhilePointing`: `[]Pointing => []EntriesAreOwn`. The same for any number of
  handles and an array that grows, as long as `pLastMapped` does not stay behind in the old
  block. So that pointer is the only way to a wrong entry.

`EntryInv` is what is added to `IInv`: the table has one entry per handle, all among the first
`numEntrys` (`Tidy`); its entries are those of the driver's memories, except for the
allocation or the freeing under way, whose entry is still to come or to go (`ListInv`); and
what has been found and not yet used is the entry of memory that exists (`SoughtInv`). Holding
`TraceLock` between `find` and `use` is read off the texts (`Looks`), like `Order` and `Locking`
above; then only one thread is ever within such steps (`Alone`). `Finds`, `Adds` and
`Removes` say once what `MemTable` does to a tidy table. That it never has to grow is
counting: when all entries are in use they hold as many different handles, none of them the new
one (`FullHoldsAll`, which needs `HandlesAreFinite`), and the array is at least as long as there
are handles (`Roomy`). TLC found the counterexample to `FoundIsOwn` without the
condition on the handles before it was proved with it (section 9).

### Trimming

`Trim_proofs` proves, for any numbers of memories, buffers, pools and command buffers,
any length of recordings, and any `Options`:

* `Invariance`: `Spec => []IInv`;
* `TrackerIsRight`: `[]TrackerAgrees`, the tracker has what the application has until
  the range ends.

Assumptions: the named ones of `Trim` and `VulkanObjects`; `CountsFit` (fewer command
buffers than a 32-bit counter counts) is what makes the counts exact although
`vkFreeCommandBuffers` subtracts modulo 2^32.

This is what everything written later hangs on: `recreate_...` and
`add_destroy_device_object_packets` read nothing but the tracker (and its copy). The driver and the tracker
disagree only on what an object loses with another one (the memory of a buffer, the recording of a
command buffer). `IInv` adds the types of both, that a command buffer without a pool
does not exist and that a pool with command buffers does: without that,
`vkDestroyCommandPool` could leave some behind, and a count of 0 would be wrong. The first
lemmas say what each change does to a world and to a tracker, one lemma per call then
says that both stay in agreement, and the steps of `Next` follow. `delete_redundant_package`
changes only packets, which `IInv` leaves out.

### Only model-checked

Of `Preload` that the replay ends (`Ends`, the fairness of `ReadsLikeSequencer`), and
`ReadsLikeSequencer` with `StatusReread`. Of `PageGuard`
only `FaultReturns`, which is about fairness. Of `TraceCalls` that every call returns
(`CallsReturn`). Of `Swapchain` that destructors end and that every presented image is shown (`TeardownEnds`, the fairness of `ShowsInOrder`). Of `Trim` the trace itself: what is recreated is a fold over
sequences of packets, which needs induction. Everything about liveness and fairness,
in the stream too: liveness, ENABLED and induction over recursive data are outside
what the prover does here.

## 11. What is not modelled, and the plan

Not modelled in the preloader: `calc_chunk_count` and the reading of
`/proc/meminfo` (the ring has any number of chunks), decompression and pointer
fix-up in `load_packet` (a packet is a number and a size), the measurement of
waiting time. Compiler and processor reordering of the unlocked accesses is not
modelled: the statuses change in program order.

Not modelled in the swapchain: creating its images and checking their parameters,
`get_swapchain_images`, frame dumping, and what a page flip thread does between
the signal that ends it and its end (the thread is not joined).

Not modelled in the page guard: memories that are too small to be guarded
(`noGuard`), imported host memory, the check that the handler is still installed
(`checkPageguardHandler`), the branches for trim, and Windows, where a vectored exception handler
takes the place of the signal handler.

Not modelled in the interceptors: all but the ones that create, free, map, flush and
submit; they take the same lock, create a packet and call the driver in the order of one
of those in `TraceCalls`. Contents of packets are left out.

Not modelled in the stream: the handshake and the checkpoints (one exchange each at the
start of a connection, read back and compared), the send buffer, which nothing in the
layer turns on, the `FileLike` of a file, and optional sends.

Not modelled in the trace server: options, the contents of the tables and of the header,
system calls that fail, the log, and Windows.

Not modelled in trimming: images, views, descriptors, pipelines, render passes,
queries, fences, semaphores and acceleration structures; contents, staging and
barriers of what is recreated; the hotkey; destruction in batches.

Left out for good: generated interceptors and object maps, user interfaces,
vendored libraries, scripts. They are most of the implementation: the Vulkan headers
alone are 65 thousand lines, and the interceptors and replay handlers repeat a few
patterns for hundreds of entry points.

Plan, in order:

1. `ReplayLoop`: sequencer, bookmarks, frame range and loops over the preloader's
   abstract specification.
2. `Trim`: images with their layouts, descriptor sets and pools, whose recreation follows
   the same pattern as that of buffers and command buffers.
3. `ChunkCount`: the arithmetic of `calc_chunk_count` with its widths.
4. Proofs: types, `NothingLeft` and the recreation in `Trim`
   object by object, if the prover learns induction over sequences.
5. `Swapchain`: the use of a destroyed descendant by `queue_present`; the page flip
   thread that outlives its swapchain.
