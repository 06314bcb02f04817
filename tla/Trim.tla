-------------------------------- MODULE Trim ---------------------------------
(***************************************************************************)
(* Trimming (vktrace_layer): only the frames of a range are traced, and    *)
(* the trace begins with packets that recreate what the application had    *)
(* when the range began and ends with packets that destroy what is left.   *)
(*                                                                         *)
(* Every interceptor tells the global state tracker what it did, before    *)
(* the range and in it.  start() copies the tracker to the snapshot and    *)
(* writes the packets that recreate it; with post-processing (TrimPost-    *)
(* Processing) the packets of the range are kept in memory instead, each   *)
(* call marks in the snapshot what it uses, and stop() recreates what is   *)
(* marked and writes the kept packets behind it.                           *)
(*                                                                         *)
(* g_mutex_trace is held through every interceptor while trimming is on,   *)
(* so a call is one action here.  The file is modelled by the replay of    *)
(* what is written: file.world has the objects that the packets so far     *)
(* have made, file.failed what could not be played.                        *)
(***************************************************************************)
EXTENDS VulkanObjects, SequencesExt

CONSTANTS
    Options,        \* the ways to trim, and the applications, to consider
    MaxCmds,        \* bound on the commands of a command buffer
    MaxCalls,       \* bound on the packets that post-processing keeps
    CountModulus    \* numCommandBuffersAllocated counts modulo this (2^32)

ASSUME BoundsAreCounts == MaxCmds \in Nat /\ MaxCalls \in Nat
ASSUME CountsFit == IsFiniteSet(Cb) /\ CountModulus \in Nat /\ CountModulus > Cardinality(Cb)

(***************************************************************************)
(* An option: post is g_trimPostProcess.  The others are habits of the     *)
(* application: dedicated memory for a buffer; such memory outliving its   *)
(* buffer by a frame (orphans); primary command buffers that execute       *)
(* secondary ones lasting longer than a frame; freeing command buffers of  *)
(* both levels with one call (mixed).                                      *)
(***************************************************************************)
ASSUME OptionsAreRecords ==
    Options \subseteq [post : BOOLEAN, dedicated : BOOLEAN, orphans : BOOLEAN,
                       lasting : BOOLEAN, mixed : BOOLEAN]

VARIABLES
    opt,    \* the option of this run
    mode,   \* g_trimIsPreTrim, g_trimIsInTrim, g_trimIsPostTrim
    app,    \* the objects of the application's driver
    tk,     \* s_trimGlobalStateTracker
    snap,   \* s_trimStateTrackerSnapshot, kept where it is read: with post
    marks,  \* bReferencedInTrim and bReferencedInTrimChecked in the snapshot
    calls,  \* m_inTrim_calls
    file    \* the replay of the packets written

vars == <<opt, mode, app, tk, snap, marks, calls, file>>

(* A tracker: the created objects, what is kept of each, m_cmdBufferPackets. *)
EmptyTracker == [
    mem |-> [m \in Mem |-> "none"],         \* mappedAddress, or "idle"
    for |-> [m \in Mem |-> Nothing],        \* boundToBuffer
    buf |-> [b \in Buf |-> "none"],         \* the memory of pBindBufferMemoryPacket
    pool |-> {},
    count |-> [p \in Pool |-> [l \in Levels |-> 0]],
    cb |-> [c \in Cb |-> Nothing],          \* commandPool
    packets |-> [c \in Cb |-> <<>>]]

NoMarks == [ref |-> {}, checked |-> {}]

TrackedCbs(t, p, l) == {c \in Cb : t.cb[c] = p /\ Level(c) = l}

-----------------------------------------------------------------------------
(* The replay of packets. *)

(* One packet; a failure is not counted for the command buffers in dead, which
   the application cannot submit before it records them anew. *)
Play(f, p, dead) ==
    IF ~Legal(f.world, p)
    THEN IF p.on \in dead THEN f ELSE [f EXCEPT !.failed = @ \cup {p.op}]
    ELSE [world |-> Effect(f.world, p),
          failed |-> f.failed \cup
            (IF p.op = "QueueSubmit" /\ p.arg # Work(f.world, p.on) THEN {"Work"} ELSE {})]

PlayAll(f, packets, dead) == FoldLeft(LAMBDA g, p : Play(g, p, dead), f, packets)

(* The packets F(x) of each x in S. *)
ForEach(S, F(_)) == FlattenSeq([i \in 1..Cardinality(S) |-> F(SetToSeq(S)[i])])

-----------------------------------------------------------------------------
(* Recreation. *)

(* Command pools, and the command buffers allocated on them: the array has one
   entry per counted command buffer, filled from those tracked. *)
AllocatePacket(t, p, l) ==
    LET cbs == TrackedCbs(t, p, l)
    IN IF t.count[p][l] = 0 THEN <<>>
       ELSE <<Call("AllocateCommandBuffers", p,
                   IF t.count[p][l] = Cardinality(cbs) THEN cbs ELSE cbs \cup {Nothing})>>

recreate_command_pools(t, pools) == ForEach(pools, LAMBDA p :
    <<Call("CreateCommandPool", p, Nothing)>>
        \o AllocatePacket(t, p, "primary") \o AllocatePacket(t, p, "secondary"))

Created(t) == {m \in Mem : t.mem[m] # "none"}

AllocateMemoryPacket(t, m) == <<Call("AllocateMemory", m, t.for[m])>>

recreate_device_mem(t) == ForEach({m \in Created(t) : t.for[m] = Nothing},
    LAMBDA m : AllocateMemoryPacket(t, m))

DedicatedTo(t, b) == {m \in Created(t) : t.for[m] = b}

(* A buffer, the first memory dedicated to it, its contents. *)
recreate_buffers(t, bufs) == ForEach(bufs, LAMBDA b :
    <<Call("CreateBuffer", b, Nothing)>>
    \o (IF DedicatedTo(t, b) = {} THEN <<>>
        ELSE AllocateMemoryPacket(t, CHOOSE m \in DedicatedTo(t, b) : TRUE))
    \o (IF t.buf[b] = "unbound" THEN <<>>
        ELSE <<Call("BindBufferMemory", b, t.buf[b]),
               Call("MapMemory", t.buf[b], Nothing), Call("UnmapMemory", t.buf[b], Nothing)>>))

(* Mutant of recreate_device_persistently_map_mem: memory is left unmapped. *)
NothingMapped(t) == <<>>

recreate_device_persistently_map_mem(t) == ForEach({m \in Mem : t.mem[m] = "mapped"},
    LAMBDA m : <<Call("MapMemory", m, Nothing)>>)

recreate_allocated_command_buffers(t, cbs) ==
    ForEach(cbs \ Primary, LAMBDA c : t.packets[c])
        \o ForEach(cbs \cap Primary, LAMBDA c : t.packets[c])

(* The packets that recreate what is tracked in t, of pools, buffers and recorded
   command buffers only those in kept. *)
Recreation(t, kept) ==
    recreate_command_pools(t, t.pool \cap kept)
    \o recreate_device_mem(t)
    \o recreate_buffers(t, {b \in Buf : t.buf[b] # "none"} \cap kept)
    \o recreate_device_persistently_map_mem(t)
    \o recreate_allocated_command_buffers(t, {c \in Cb : t.cb[c] # Nothing} \cap kept)

Everything == Pool \cup Buf \cup Cb

(* Only the primary command buffers are freed one by one. *)
FreePacket(t, p) ==
    LET cbs == TrackedCbs(t, p, "primary")
    IN IF t.count[p]["primary"] = 0 THEN <<>>
       ELSE <<Call("FreeCommandBuffers", p,
                   IF t.count[p]["primary"] = Cardinality(cbs) THEN cbs ELSE cbs \cup {Nothing})>>

(* Mutant of write_destroy_packets: memory is left to the end of the device. *)
DestroyAllButMemory(t) ==
    ForEach({b \in Buf : t.buf[b] # "none"}, LAMBDA b : <<Call("DestroyBuffer", b, Nothing)>>)
    \o ForEach(t.pool, LAMBDA p :
            FreePacket(t, p) \o <<Call("DestroyCommandPool", p, Nothing)>>)

write_destroy_packets(t) ==
    ForEach({b \in Buf : t.buf[b] # "none"}, LAMBDA b : <<Call("DestroyBuffer", b, Nothing)>>)
    \o ForEach(Created(t), LAMBDA m : <<Call("FreeMemory", m, Nothing)>>)
    \o ForEach(t.pool, LAMBDA p :
            FreePacket(t, p) \o <<Call("DestroyCommandPool", p, Nothing)>>)

-----------------------------------------------------------------------------
(* The tracker. *)

(* vkCmdBindVertexBuffers of buffers that are gone is dropped. *)
delete_redundant_package(t) == [t EXCEPT !.packets = [c \in Cb |->
    SelectSeq(t.packets[c], LAMBDA p : p.arg \in Buf => t.buf[p.arg] # "none")]]

remove_CommandBuffer_calls(t, C) ==
    [t EXCEPT !.packets = [c \in Cb |-> IF c \in C THEN <<>> ELSE t.packets[c]]]

add_CommandBuffer_call(t, c, p) == [t EXCEPT !.packets[c] = Append(@, p)]

PoolCbs(t, p) == {c \in Cb : t.cb[c] = p}

(* The command buffers C are on p, or on none; n more of a level are counted. *)
OnPool(t, C, p) == CbsAre(t, [c \in Cb |-> IF c \in C THEN p ELSE t.cb[c]])

Counted(t, p, l, n) == [t EXCEPT !.count[p][l] = (@ + n) % CountModulus]

NoneCounted(t, p) == [t EXCEPT !.count[p] = [l \in Levels |-> 0]]

remove_CommandBuffers(t, C) == OnPool(remove_CommandBuffer_calls(t, C), C, Nothing)

(* Mutant of remove_CommandPool_object: its command buffers stay tracked. *)
LeaveCommandBuffers(t, p) == PoolsAre(NoneCounted(t, p), t.pool \ {p})

remove_CommandPool_object(t, p) ==
    PoolsAre(NoneCounted(remove_CommandBuffers(t, PoolCbs(t, p)), p), t.pool \ {p})

remove_Buffer_object(t, b) == BufIs(t, b, "none")

InSnapshot == {b \in Buf : snap.buf[b] # "none"} \cup snap.pool

(* Marks of pools and buffers; of command buffers, whose pool they mark and which
   are to be recorded again only if the tracker has packets of them. *)
Marked(m, objects) == [m EXCEPT !.ref = @ \cup (objects \cap InSnapshot)]

mark_CommandBuffers(m, C, packets) ==
    LET new == {c \in C : snap.cb[c] # Nothing /\ c \notin m.checked}
    IN [checked |-> m.checked \cup new,
        ref |-> m.ref \cup {c \in new : packets[c] # <<>>}
                      \cup ({snap.cb[c] : c \in new} \cap InSnapshot)]

(* remove_CommandBuffer_calls marks with the packets gone: the command buffer is
   checked, and never referenced any more. *)
Rerecorded(m, C) == mark_CommandBuffers(m, C, [c \in Cb |-> <<>>])

-----------------------------------------------------------------------------
(* The interceptors. *)

(* trim::write_packet, in the range. *)
write_packet(p) ==
    CASE mode = "pre" -> UNCHANGED <<calls, file>>
      [] mode = "in" /\ opt.post ->
            Len(calls) < MaxCalls /\ calls' = Append(calls, p) /\ UNCHANGED file
      [] mode = "in" /\ ~opt.post -> file' = Play(file, p, {}) /\ UNCHANGED calls

(* A call p that leaves the tracker t and, in the range, the marks m. *)
Hook(p, t, m) ==
    /\ mode # "post"
    /\ Legal(app, p)
    /\ app' = Effect(app, p)
    /\ tk' = t
    /\ marks' = IF mode = "in" THEN m ELSE marks
    /\ write_packet(p)
    /\ UNCHANGED <<opt, mode, snap>>

vkAllocateMemory(m, b) ==
    /\ b # Nothing => opt.dedicated
    /\ Hook(Call("AllocateMemory", m, b), ForIs(MemIs(tk, m, "idle"), m, b), marks)

vkMapMemory(m) == Hook(Call("MapMemory", m, Nothing), MemIs(tk, m, "mapped"), marks)

vkUnmapMemory(m) == Hook(Call("UnmapMemory", m, Nothing), MemIs(tk, m, "idle"), marks)

vkFreeMemory(m) ==
    Hook(Call("FreeMemory", m, Nothing), ForIs(MemIs(tk, m, "none"), m, Nothing), marks)

vkCreateBuffer(b) == Hook(Call("CreateBuffer", b, Nothing), BufIs(tk, b, "unbound"), marks)

vkDestroyBuffer(b) ==
    Hook(Call("DestroyBuffer", b, Nothing), remove_Buffer_object(tk, b), Marked(marks, {b}))

(* Mutant of vkBindBufferMemory: the buffer is not marked. *)
vkBindUnmarked(b, m) ==
    Hook(Call("BindBufferMemory", b, m), BufIs(tk, b, m), marks)

vkBindBufferMemory(b, m) ==
    Hook(Call("BindBufferMemory", b, m), BufIs(tk, b, m), Marked(marks, {b}))

vkCreateCommandPool(p) ==
    Hook(Call("CreateCommandPool", p, Nothing), PoolsAre(tk, tk.pool \cup {p}), marks)

vkDestroyCommandPool(p) ==
    Hook(Call("DestroyCommandPool", p, Nothing), remove_CommandPool_object(tk, p),
         Marked(Rerecorded(marks, PoolCbs(tk, p)), {p}))

vkResetCommandPool(p) ==
    Hook(Call("ResetCommandPool", p, Nothing), remove_CommandBuffer_calls(tk, PoolCbs(tk, p)),
         Marked(Rerecorded(marks, PoolCbs(tk, p)), {p}))

vkAllocateCommandBuffers(p, C) ==
    LET l == Level(CHOOSE c \in C : TRUE)
    IN /\ \A c \in C : Level(c) = l
       /\ Hook(Call("AllocateCommandBuffers", p, C),
               Counted(OnPool(tk, C, p), p, l, Cardinality(C)),
               Marked(marks, {p}))

(* The count of the level of the first one goes down by all of them. *)
vkFreeCommandBuffers(p, C, first) ==
    /\ opt.mixed \/ \A c \in C : Level(c) = Level(first)
    /\ Hook(Call("FreeCommandBuffers", p, C),
            Counted(remove_CommandBuffers(tk, C), p, Level(first),
                    CountModulus - Cardinality(C)),
            Rerecorded(marks, C))

(* Mutant of vkBeginCommandBuffer: the calls recorded before are not removed. *)
vkBeginAgain(c) ==
    LET p == Call("BeginCommandBuffer", c, Nothing)
    IN Hook(p, add_CommandBuffer_call(tk, c, p), Rerecorded(marks, {c}))

vkBeginCommandBuffer(c) ==
    LET p == Call("BeginCommandBuffer", c, Nothing)
    IN Hook(p, add_CommandBuffer_call(remove_CommandBuffer_calls(tk, {c}), c, p),
            Rerecorded(marks, {c}))

(* Buffers are marked by the commands that name them. *)
vkCmdBindVertexBuffers(c, b) ==
    LET p == Call("Cmd", c, b)
    IN /\ Len(app.cb[c].cmds) < MaxCmds
       /\ Hook(p, add_CommandBuffer_call(tk, c, p), Marked(marks, {b}))

(* Mutant of vkCmdExecuteCommands: only the primary command buffer is marked. *)
vkCmdExecuteUnmarked(c, s) ==
    /\ Len(app.cb[c].cmds) < MaxCmds
    /\ Hook(Call("Cmd", c, s), tk, mark_CommandBuffers(marks, {c}, tk.packets))

(* The call is not added to those of the command buffer. *)
vkCmdExecuteCommands(c, s) ==
    /\ Len(app.cb[c].cmds) < MaxCmds
    /\ Hook(Call("Cmd", c, s), tk, mark_CommandBuffers(marks, {c, s}, tk.packets))

vkEndCommandBuffer(c) ==
    LET p == Call("EndCommandBuffer", c, Nothing)
    IN Hook(p, add_CommandBuffer_call(tk, c, p), marks)

vkResetCommandBuffer(c) ==
    Hook(Call("ResetCommandBuffer", c, Nothing), remove_CommandBuffer_calls(tk, {c}),
         Rerecorded(marks, {c}))

(* The packet remembers what the application submits. *)
vkQueueSubmit(c) ==
    Hook(Call("QueueSubmit", c, Work(app, c)), tk, mark_CommandBuffers(marks, {c}, tk.packets))

-----------------------------------------------------------------------------
(* The ends of the range, in vkQueuePresentKHR. *)

(* What the application leaves for the next frame: the memory of a live buffer, which
   the snapshot reads, and more as its habits allow. *)
FrameMayEnd ==
    /\ \A b \in Buf : app.buf[b] # "lost"
    /\ opt.orphans \/ \A m \in Mem : app.for[m] # Nothing => app.buf[app.for[m]] # "none"
    /\ opt.lasting \/ Naming(app, Cb) = {}

Dead == {c \in Cb : app.cb[c].state = "invalid"}

start ==
    /\ mode = "pre" /\ FrameMayEnd
    /\ mode' = "in"
    /\ IF opt.post THEN snap' = tk /\ UNCHANGED <<tk, file>>
       ELSE /\ tk' = delete_redundant_package(tk)
            /\ file' = PlayAll(file, Recreation(tk', Everything), Dead)
            /\ UNCHANGED snap
    /\ UNCHANGED <<opt, app, marks, calls>>

(* What write_all_referenced_object_calls marks: the buffers that the recorded
   commands of a referenced command buffer name. *)
Kept == marks.ref \cup {b \in InSnapshot \cap Buf : \E c \in Cb \cap marks.ref :
    \E i \in DOMAIN snap.packets[c] : snap.packets[c][i].arg = b}

(* What is not recreated is not tracked any more. *)
Forgotten(t, kept) ==
    LET pools == snap.pool \ kept
        bufs == (InSnapshot \cap Buf) \ kept
        u == [t EXCEPT !.buf = [b \in Buf |-> IF b \in bufs THEN "none" ELSE t.buf[b]]]
    IN FoldSet(LAMBDA p, v : remove_CommandPool_object(v, p), u, pools)

stop ==
    LET left == IF opt.post THEN Forgotten(tk, Kept) ELSE tk
        written == IF opt.post THEN PlayAll(file, Recreation(snap, Kept) \o calls, {}) ELSE file
    IN /\ mode = "in"
       /\ mode' = "post"
       /\ tk' = left
       /\ file' = PlayAll(written, write_destroy_packets(left), {})
       /\ snap' = EmptyTracker /\ marks' = NoMarks /\ calls' = <<>>
       /\ UNCHANGED <<opt, app>>

-----------------------------------------------------------------------------
(* A range that begins with frame 0 needs no start(). *)
Init ==
    /\ opt \in Options
    /\ mode \in {"pre", "in"}
    /\ app = NoObjects
    /\ tk = EmptyTracker /\ snap = EmptyTracker /\ marks = NoMarks
    /\ calls = <<>>
    /\ file = [world |-> NoObjects, failed |-> {}]

Next ==
    \/ \E m \in Mem : \/ \E b \in Buf \cup {Nothing} : vkAllocateMemory(m, b)
                      \/ vkMapMemory(m) \/ vkUnmapMemory(m) \/ vkFreeMemory(m)
    \/ \E b \in Buf : \/ vkCreateBuffer(b) \/ vkDestroyBuffer(b)
                      \/ \E m \in Mem : vkBindBufferMemory(b, m)
    \/ \E p \in Pool : \/ vkCreateCommandPool(p) \/ vkDestroyCommandPool(p)
                       \/ vkResetCommandPool(p)
                       \/ \E C \in SUBSET Cb \ {{}} :
                            \/ vkAllocateCommandBuffers(p, C)
                            \/ \E first \in C : vkFreeCommandBuffers(p, C, first)
    \/ \E c \in Cb : \/ vkBeginCommandBuffer(c) \/ vkEndCommandBuffer(c)
                     \/ vkResetCommandBuffer(c) \/ vkQueueSubmit(c)
                     \/ \E b \in Buf : vkCmdBindVertexBuffers(c, b)
                     \/ \E s \in Cb : vkCmdExecuteCommands(c, s)
    \/ start
    \/ stop

Spec == Init /\ [][Next]_vars
=============================================================================
