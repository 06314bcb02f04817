---------------------------- MODULE VulkanObjects ----------------------------
(***************************************************************************)
(* What a Vulkan driver makes of the calls that create, use and destroy    *)
(* memory, buffers and command buffers: an external module.  The capture   *)
(* has one driver below it and the replay another; both follow these       *)
(* rules, so that a packet of a trimmed trace can be checked where it will *)
(* be played.                                                              *)
(*                                                                         *)
(* A world holds the objects of one driver.  A command is the object that  *)
(* it names: a buffer for vkCmdBindVertexBuffers, a secondary command      *)
(* buffer for vkCmdExecuteCommands.                                        *)
(***************************************************************************)
EXTENDS Sequences

CONSTANTS
    Mem, Buf, Pool, Cb,     \* the handles of each type
    Primary,                \* the command buffers of the primary level
    Nothing                 \* VK_NULL_HANDLE

ASSUME PrimariesAreCbs == Primary \subseteq Cb
ASSUME NullIsNoHandle == Nothing \notin Mem \cup Buf \cup Pool \cup Cb
ASSUME MemIsNoState == Mem \cap {"none", "unbound", "lost"} = {}

Levels == {"primary", "secondary"}
Level(c) == IF c \in Primary THEN "primary" ELSE "secondary"

(* A call and the packet of it: the operation, its object, its argument. *)
Call(op, on, arg) == [op |-> op, on |-> on, arg |-> arg]

NoCb == [pool |-> Nothing, state |-> "none", cmds |-> <<>>]

NoObjects == [
    mem |-> [m \in Mem |-> "none"],     \* "none", "idle" or "mapped"
    for |-> [m \in Mem |-> Nothing],    \* the buffer that a dedicated allocation is for
    buf |-> [b \in Buf |-> "none"],     \* "none", "unbound", its memory, or "lost" with it
    pool |-> {},
    cb |-> [c \in Cb |-> NoCb]]

(* A world, or the tracking of one, with one part of it changed. *)
MemIs(w, m, state) == [w EXCEPT !.mem[m] = state]
ForIs(w, m, b) == [w EXCEPT !.for[m] = b]
BufIs(w, b, state) == [w EXCEPT !.buf[b] = state]
PoolsAre(w, pools) == [w EXCEPT !.pool = pools]
CbsAre(w, cbs) == [w EXCEPT !.cb = cbs]
Lost(w, bufs) == [w EXCEPT !.buf = [b \in Buf |-> IF b \in bufs THEN "lost" ELSE w.buf[b]]]

Holding(pool, state, cmds) == [pool |-> pool, state |-> state, cmds |-> cmds]

CbsOf(w, p) == {c \in Cb : w.cb[c].pool = p}

Recorded(w) == {c \in Cb : w.cb[c].state \in {"recording", "executable"}}

Naming(w, X) == {c \in Recorded(w) : \E i \in DOMAIN w.cb[c].cmds : w.cb[c].cmds[i] \in X}

(* The end of an object makes invalid what was recorded with it. *)
Invalidate(w, X) ==
    LET direct == Naming(w, X)
        stale == direct \cup Naming(w, direct)
    IN CbsAre(w, [c \in Cb |->
            IF c \in stale THEN Holding(w.cb[c].pool, "invalid", <<>>) ELSE w.cb[c]])

Cleared(w, C, state) ==
    LET v == Invalidate(w, C)
    IN CbsAre(v, [c \in Cb |-> IF c \in C THEN Holding(w.cb[c].pool, state, <<>>) ELSE v.cb[c]])

Without(w, C) ==
    LET v == Invalidate(w, C) IN CbsAre(v, [c \in Cb |-> IF c \in C THEN NoCb ELSE v.cb[c]])

(* The commands that the submission of c runs. *)
Work(w, c) == [i \in DOMAIN w.cb[c].cmds |->
    LET x == w.cb[c].cmds[i] IN IF x \in Cb THEN w.cb[x].cmds ELSE <<x>>]

Usable(w, c, x) ==
    \/ x \in Buf /\ w.buf[x] \in Mem
    \/ x \in Cb \ Primary /\ c \in Primary /\ w.cb[x].state = "executable"

(* What the specification of Vulkan asks of a call. *)
Legal(w, p) ==
    \/ p.op = "AllocateMemory" /\ w.mem[p.on] = "none" /\ (p.arg \in Buf => w.buf[p.arg] # "none")
    \/ p.op = "MapMemory" /\ w.mem[p.on] = "idle"
    \/ p.op = "UnmapMemory" /\ w.mem[p.on] = "mapped"
    \/ p.op = "FreeMemory" /\ w.mem[p.on] # "none"
    \/ p.op = "CreateBuffer" /\ w.buf[p.on] = "none"
    \/ p.op = "DestroyBuffer" /\ w.buf[p.on] # "none"
    \/ /\ p.op = "BindBufferMemory" /\ w.buf[p.on] = "unbound"
       /\ w.mem[p.arg] # "none" /\ w.for[p.arg] \in {Nothing, p.on}
    \/ p.op = "CreateCommandPool" /\ p.on \notin w.pool
    \/ p.op \in {"DestroyCommandPool", "ResetCommandPool"} /\ p.on \in w.pool
    \/ /\ p.op = "AllocateCommandBuffers" /\ p.on \in w.pool
       /\ p.arg \subseteq Cb /\ \A c \in p.arg : w.cb[c] = NoCb
    \/ p.op = "FreeCommandBuffers" /\ p.arg \subseteq CbsOf(w, p.on)
    \/ p.op = "BeginCommandBuffer" /\ w.cb[p.on].state \in {"initial", "executable"}
    \/ p.op = "Cmd" /\ w.cb[p.on].state = "recording" /\ Usable(w, p.on, p.arg)
    \/ p.op = "EndCommandBuffer" /\ w.cb[p.on].state = "recording"
    \/ p.op = "ResetCommandBuffer" /\ w.cb[p.on].state # "none"
    \/ p.op = "QueueSubmit" /\ p.on \in Primary /\ w.cb[p.on].state = "executable"

(* What a legal call does. *)
Effect(w, p) ==
    CASE p.op = "AllocateMemory" -> ForIs(MemIs(w, p.on, "idle"), p.on, p.arg)
      [] p.op = "MapMemory" -> MemIs(w, p.on, "mapped")
      [] p.op = "UnmapMemory" -> MemIs(w, p.on, "idle")
      [] p.op = "FreeMemory" ->
            LET bound == {b \in Buf : w.buf[b] = p.on}
            IN Lost(ForIs(MemIs(Invalidate(w, bound), p.on, "none"), p.on, Nothing), bound)
      [] p.op = "CreateBuffer" -> BufIs(w, p.on, "unbound")
      [] p.op = "DestroyBuffer" -> BufIs(Invalidate(w, {p.on}), p.on, "none")
      [] p.op = "BindBufferMemory" -> BufIs(w, p.on, p.arg)
      [] p.op = "CreateCommandPool" -> PoolsAre(w, w.pool \cup {p.on})
      [] p.op = "DestroyCommandPool" -> PoolsAre(Without(w, CbsOf(w, p.on)), w.pool \ {p.on})
      [] p.op = "ResetCommandPool" -> Cleared(w, CbsOf(w, p.on), "initial")
      [] p.op = "AllocateCommandBuffers" -> CbsAre(w, [c \in Cb |->
            IF c \in p.arg THEN Holding(p.on, "initial", <<>>) ELSE w.cb[c]])
      [] p.op = "FreeCommandBuffers" -> Without(w, p.arg)
      [] p.op = "BeginCommandBuffer" -> Cleared(w, {p.on}, "recording")
      [] p.op = "Cmd" -> CbsAre(w, [w.cb EXCEPT ![p.on] =
            Holding(@.pool, "recording", Append(@.cmds, p.arg))])
      [] p.op = "EndCommandBuffer" -> CbsAre(w, [w.cb EXCEPT ![p.on] =
            Holding(@.pool, "executable", @.cmds)])
      [] p.op = "ResetCommandBuffer" -> Cleared(w, {p.on}, "initial")
      [] p.op = "QueueSubmit" -> w
=============================================================================
