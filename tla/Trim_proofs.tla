----------------------------- MODULE Trim_proofs -----------------------------
(***************************************************************************)
(* Proofs about trimming: up to the end of the range the tracker agrees    *)
(* with the application, for any numbers of objects, any lengths of        *)
(* recordings and any habits of the application.                           *)
(***************************************************************************)
EXTENDS TrimProps, TLAPS, FiniteSetTheorems

CbStates == {"none", "initial", "recording", "executable", "invalid"}

\* The type of the objects of a driver, with recordings of any length.
IsWorld(w) == w \in [
    mem : [Mem -> {"none", "idle", "mapped"}],
    for : [Mem -> Buf \cup {Nothing}],
    buf : [Buf -> {"none", "unbound", "lost"} \cup Mem],
    pool : SUBSET Pool,
    cb : [Cb -> [pool : Pool \cup {Nothing}, state : CbStates, cmds : Seq(Buf \cup Cb)]]]

\* The type of a tracker, without its packets.
HasParts(t) ==
    /\ t = [mem |-> t.mem, for |-> t.for, buf |-> t.buf, pool |-> t.pool,
            count |-> t.count, cb |-> t.cb, packets |-> t.packets]
    /\ t.mem \in [Mem -> {"none", "idle", "mapped"}]
    /\ t.for \in [Mem -> Buf \cup {Nothing}]
    /\ t.count \in [Pool -> [Levels -> Nat]]
    /\ t.buf \in [Buf -> {"none", "unbound"} \cup Mem]
    /\ t.cb \in [Cb -> Pool \cup {Nothing}]

MemAgrees(w, t) == t.mem = w.mem /\ t.for = w.for

BufAgrees(w, t) ==
    \A b \in Buf : IF w.buf[b] = "lost" THEN t.buf[b] \in Mem ELSE t.buf[b] = w.buf[b]

\* A command buffer is on a pool exactly as long as it is there, and the pool with it.
PoolAgrees(w, t) ==
    /\ t.pool = w.pool
    /\ \A c \in Cb : /\ t.cb[c] = w.cb[c].pool
                     /\ w.cb[c].pool = Nothing => w.cb[c].state = "none"
                     /\ t.cb[c] # Nothing => t.cb[c] \in w.pool

CountsAgree(t) ==
    \A p \in Pool, l \in Levels : t.count[p][l] = Cardinality(TrackedCbs(t, p, l))

Agree(w, t, mixed) ==
    /\ IsWorld(w) /\ HasParts(t)
    /\ MemAgrees(w, t) /\ BufAgrees(w, t) /\ PoolAgrees(w, t)
    /\ ~mixed => CountsAgree(t)

\* The inductive invariant.
IInv == mode # "post" => Agree(app, tk, opt.mixed)

-----------------------------------------------------------------------------
(* The parts that a change leaves alone. *)

SameMem(v, w) == v.mem = w.mem /\ v.for = w.for
SameCbs(v, w) == v.pool = w.pool /\ v.cb = w.cb

-----------------------------------------------------------------------------
(* What the changes do to the objects of a driver. *)

\* MemIs on a world.
LEMMA WorldMemIs ==
    ASSUME NEW w, IsWorld(w), NEW m \in Mem, NEW s \in {"none", "idle", "mapped"}
    PROVE  LET v == MemIs(w, m, s)
           IN /\ IsWorld(v) /\ v.buf = w.buf /\ SameCbs(v, w)
              /\ v.mem = [w.mem EXCEPT ![m] = s] /\ v.for = w.for
BY DEF IsWorld, MemIs, SameCbs

\* ForIs on a world.
LEMMA WorldForIs ==
    ASSUME NEW w, IsWorld(w), NEW m \in Mem, NEW b \in Buf \cup {Nothing}
    PROVE  LET v == ForIs(w, m, b)
           IN /\ IsWorld(v) /\ v.buf = w.buf /\ SameCbs(v, w)
              /\ v.mem = w.mem /\ v.for = [w.for EXCEPT ![m] = b]
BY DEF IsWorld, ForIs, SameCbs

\* BufIs on a world.
LEMMA WorldBufIs ==
    ASSUME NEW w, IsWorld(w), NEW b \in Buf, NEW s \in {"none", "unbound", "lost"} \cup Mem
    PROVE  LET v == BufIs(w, b, s)
           IN IsWorld(v) /\ SameMem(v, w) /\ SameCbs(v, w) /\ v.buf = [w.buf EXCEPT ![b] = s]
BY DEF IsWorld, BufIs, SameMem, SameCbs

\* Lost on a world.
LEMMA WorldLost ==
    ASSUME NEW w, IsWorld(w), NEW B \in SUBSET Buf
    PROVE  LET v == Lost(w, B)
           IN /\ IsWorld(v) /\ SameMem(v, w) /\ SameCbs(v, w)
              /\ v.buf = [b \in Buf |-> IF b \in B THEN "lost" ELSE w.buf[b]]
BY DEF IsWorld, Lost, SameMem, SameCbs

\* PoolsAre on a world.
LEMMA WorldPoolsAre ==
    ASSUME NEW w, IsWorld(w), NEW P \in SUBSET Pool
    PROVE  LET v == PoolsAre(w, P)
           IN IsWorld(v) /\ SameMem(v, w) /\ v.buf = w.buf /\ v.cb = w.cb /\ v.pool = P
BY DEF IsWorld, PoolsAre, SameMem

\* A function of command buffers, as a world has it.
CbFunctions ==
    [Cb -> [pool : Pool \cup {Nothing}, state : CbStates, cmds : Seq(Buf \cup Cb)]]

\* CbsAre on a world.
LEMMA WorldCbsAre ==
    ASSUME NEW w, IsWorld(w), NEW f \in CbFunctions
    PROVE  LET v == CbsAre(w, f)
           IN IsWorld(v) /\ SameMem(v, w) /\ v.buf = w.buf /\ v.pool = w.pool /\ v.cb = f
BY DEF IsWorld, CbsAre, SameMem, CbFunctions

\* What is recorded may become invalid; nothing else changes.
MayInvalidate(v, w, C) == \A c \in C :
    \/ v.cb[c] = w.cb[c]
    \/ /\ v.cb[c] = Holding(w.cb[c].pool, "invalid", <<>>)
       /\ w.cb[c].state \in {"recording", "executable"}

\* Invalidate keeps the pool of every command buffer, and what holds no calls.
LEMMA WorldInvalidate ==
    ASSUME NEW w, IsWorld(w), NEW X
    PROVE  LET v == Invalidate(w, X)
           IN /\ IsWorld(v) /\ SameMem(v, w) /\ v.buf = w.buf /\ v.pool = w.pool
              /\ MayInvalidate(v, w, Cb)
<1> DEFINE stale == Naming(w, X) \cup Naming(w, Naming(w, X))
           f == [c \in Cb |->
                    IF c \in stale THEN Holding(w.cb[c].pool, "invalid", <<>>) ELSE w.cb[c]]
<1>1. \A c \in stale : w.cb[c].state \in {"recording", "executable"}
    BY DEF Naming, Recorded
<1>2. f \in CbFunctions
    BY DEF IsWorld, CbFunctions, Holding, CbStates
<1>3. Invalidate(w, X) = CbsAre(w, f)
    BY DEF Invalidate
<1> HIDE DEF stale
<1>4. \A c \in Cb : f[c] = w.cb[c] \/ (c \in stale /\ f[c] = Holding(w.cb[c].pool, "invalid", <<>>))
    OBVIOUS
<1> HIDE DEF f
<1> QED
    BY <1>1, <1>2, <1>3, <1>4, WorldCbsAre DEF MayInvalidate

\* Cleared gives the command buffers of C the state s.
LEMMA WorldCleared ==
    ASSUME NEW w, IsWorld(w), NEW C \in SUBSET Cb, NEW s \in CbStates
    PROVE  LET v == Cleared(w, C, s)
           IN /\ IsWorld(v) /\ SameMem(v, w) /\ v.buf = w.buf /\ v.pool = w.pool
              /\ MayInvalidate(v, w, Cb \ C)
              /\ \A c \in C : v.cb[c] = Holding(w.cb[c].pool, s, <<>>)
<1> DEFINE v == Invalidate(w, C)
           f == [c \in Cb |-> IF c \in C THEN Holding(w.cb[c].pool, s, <<>>) ELSE v.cb[c]]
<1>1. IsWorld(v) /\ SameMem(v, w) /\ v.buf = w.buf /\ v.pool = w.pool /\ MayInvalidate(v, w, Cb)
    BY WorldInvalidate
<1>2. Cleared(w, C, s) = CbsAre(v, f)
    BY DEF Cleared
<1> HIDE DEF v
<1>3. f \in CbFunctions
    BY <1>1 DEF IsWorld, CbFunctions, Holding
<1>4. /\ \A c \in C : f[c] = Holding(w.cb[c].pool, s, <<>>)
      /\ \A c \in Cb \ C : f[c] = v.cb[c]
    OBVIOUS
<1> HIDE DEF f
<1> QED
    BY <1>1, <1>2, <1>3, <1>4, WorldCbsAre DEF MayInvalidate, SameMem

\* Without takes the command buffers of C away.
LEMMA WorldWithout ==
    ASSUME NEW w, IsWorld(w), NEW C \in SUBSET Cb
    PROVE  LET v == Without(w, C)
           IN /\ IsWorld(v) /\ SameMem(v, w) /\ v.buf = w.buf /\ v.pool = w.pool
              /\ MayInvalidate(v, w, Cb \ C)
              /\ \A c \in C : v.cb[c] = NoCb
<1> DEFINE v == Invalidate(w, C)
           f == [c \in Cb |-> IF c \in C THEN NoCb ELSE v.cb[c]]
<1>1. IsWorld(v) /\ SameMem(v, w) /\ v.buf = w.buf /\ v.pool = w.pool /\ MayInvalidate(v, w, Cb)
    BY WorldInvalidate
<1>2. Without(w, C) = CbsAre(v, f)
    BY DEF Without
<1> HIDE DEF v
<1>3. f \in CbFunctions
    BY <1>1 DEF IsWorld, CbFunctions, NoCb, CbStates
<1>4. /\ \A c \in C : f[c] = NoCb
      /\ \A c \in Cb \ C : f[c] = v.cb[c]
    OBVIOUS
<1> HIDE DEF f
<1> QED
    BY <1>1, <1>2, <1>3, <1>4, WorldCbsAre DEF MayInvalidate, SameMem

-----------------------------------------------------------------------------
(* What the changes do to a tracker. *)

\* MemIs on a tracker.
LEMMA TrackerMemIs ==
    ASSUME NEW t, HasParts(t), NEW m \in Mem, NEW s \in {"none", "idle", "mapped"}
    PROVE  LET u == MemIs(t, m, s)
           IN /\ HasParts(u) /\ u.buf = t.buf /\ SameCbs(u, t) /\ u.count = t.count
              /\ u.mem = [t.mem EXCEPT ![m] = s] /\ u.for = t.for
BY DEF HasParts, MemIs, SameCbs

\* ForIs on a tracker.
LEMMA TrackerForIs ==
    ASSUME NEW t, HasParts(t), NEW m \in Mem, NEW b \in Buf \cup {Nothing}
    PROVE  LET u == ForIs(t, m, b)
           IN /\ HasParts(u) /\ u.buf = t.buf /\ SameCbs(u, t) /\ u.count = t.count
              /\ u.mem = t.mem /\ u.for = [t.for EXCEPT ![m] = b]
BY DEF HasParts, ForIs, SameCbs

\* BufIs on a tracker.
LEMMA TrackerBufIs ==
    ASSUME NEW t, HasParts(t), NEW b \in Buf, NEW s \in {"none", "unbound"} \cup Mem
    PROVE  LET u == BufIs(t, b, s)
           IN /\ HasParts(u) /\ SameMem(u, t) /\ SameCbs(u, t) /\ u.count = t.count
              /\ u.buf = [t.buf EXCEPT ![b] = s]
BY DEF HasParts, BufIs, SameMem, SameCbs

\* PoolsAre on a tracker.
LEMMA TrackerPoolsAre ==
    ASSUME NEW t, HasParts(t), NEW P
    PROVE  LET u == PoolsAre(t, P)
           IN /\ HasParts(u) /\ SameMem(u, t) /\ u.buf = t.buf /\ u.count = t.count
              /\ u.cb = t.cb /\ u.pool = P
BY DEF HasParts, PoolsAre, SameMem

\* OnPool on a tracker.
LEMMA TrackerOnPool ==
    ASSUME NEW t, HasParts(t), NEW C, NEW p \in Pool \cup {Nothing}
    PROVE  LET u == OnPool(t, C, p)
           IN /\ HasParts(u) /\ SameMem(u, t) /\ u.buf = t.buf /\ u.count = t.count
              /\ u.pool = t.pool /\ u.cb = [c \in Cb |-> IF c \in C THEN p ELSE t.cb[c]]
BY DEF HasParts, OnPool, CbsAre, SameMem

\* Any change of the counts of a tracker.
LEMMA TrackerSetCount ==
    ASSUME NEW t, HasParts(t), NEW f \in [Pool -> [Levels -> Nat]]
    PROVE  LET u == [t EXCEPT !.count = f]
           IN HasParts(u) /\ SameMem(u, t) /\ u.buf = t.buf /\ SameCbs(u, t) /\ u.count = f
BY DEF HasParts, SameMem, SameCbs

\* Counted on a tracker.
LEMMA TrackerCounted ==
    ASSUME NEW t, HasParts(t), NEW p \in Pool, NEW l \in Levels, NEW n \in Nat
    PROVE  LET u == Counted(t, p, l, n)
           IN /\ HasParts(u) /\ SameMem(u, t) /\ u.buf = t.buf /\ SameCbs(u, t)
              /\ \A q \in Pool, k \in Levels : u.count[q][k] =
                    IF q = p /\ k = l THEN (t.count[p][l] + n) % CountModulus ELSE t.count[q][k]
<1>1. CountModulus \in Nat /\ CountModulus > 0
    BY CountsFit, FS_CardinalityType
<1>2. t.count \in [Pool -> [Levels -> Nat]] /\ t.count[p][l] \in Nat
    BY DEF HasParts
<1>3. (t.count[p][l] + n) % CountModulus \in Nat
    BY <1>1, <1>2
<1> DEFINE k == (t.count[p][l] + n) % CountModulus
           f == [t.count EXCEPT ![p] = [t.count[p] EXCEPT ![l] = k]]
<1> HIDE DEF k
<1>4. f \in [Pool -> [Levels -> Nat]]
    BY <1>2, <1>3 DEF k
<1>5. \A q \in Pool, j \in Levels : f[q][j] = IF q = p /\ j = l THEN k ELSE t.count[q][j]
    BY <1>2
<1>6. Counted(t, p, l, n) = [t EXCEPT !.count = f]
    BY DEF Counted, k
<1> HIDE DEF f
<1> QED
    BY <1>4, <1>5, <1>6, TrackerSetCount DEF k

\* NoneCounted on a tracker.
LEMMA TrackerNoneCounted ==
    ASSUME NEW t, HasParts(t), NEW p \in Pool
    PROVE  LET u == NoneCounted(t, p)
           IN /\ HasParts(u) /\ SameMem(u, t) /\ u.buf = t.buf /\ SameCbs(u, t)
              /\ \A q \in Pool, k \in Levels :
                    u.count[q][k] = IF q = p THEN 0 ELSE t.count[q][k]
<1> DEFINE f == [t.count EXCEPT ![p] = [k \in Levels |-> 0]]
<1>1. t.count \in [Pool -> [Levels -> Nat]]
    BY DEF HasParts
<1>2. f \in [Pool -> [Levels -> Nat]]
    BY <1>1
<1>3. \A q \in Pool, k \in Levels : f[q][k] = IF q = p THEN 0 ELSE t.count[q][k]
    BY <1>1
<1>4. NoneCounted(t, p) = [t EXCEPT !.count = f]
    BY DEF NoneCounted
<1> HIDE DEF f
<1> QED
    BY <1>2, <1>3, <1>4, TrackerSetCount

\* What changes no more than the packets changes nothing here.
SameButCalls(u, t) ==
    HasParts(u) /\ SameMem(u, t) /\ u.buf = t.buf /\ SameCbs(u, t) /\ u.count = t.count

\* The packets of command buffers.
LEMMA TrackerCalls ==
    ASSUME NEW t, HasParts(t), NEW C, NEW c, NEW p
    PROVE  /\ SameButCalls(remove_CommandBuffer_calls(t, C), t)
           /\ SameButCalls(add_CommandBuffer_call(t, c, p), t)
           /\ SameButCalls(delete_redundant_package(t), t)
<1>1. \A f : SameButCalls([t EXCEPT !.packets = f], t)
    BY DEF SameButCalls, HasParts, SameMem, SameCbs
<1> QED
    BY <1>1 DEF remove_CommandBuffer_calls, add_CommandBuffer_call, delete_redundant_package

\* remove_CommandBuffers on a tracker.
LEMMA TrackerRemove ==
    ASSUME NEW t, HasParts(t), NEW C
    PROVE  LET u == remove_CommandBuffers(t, C)
           IN /\ HasParts(u) /\ SameMem(u, t) /\ u.buf = t.buf /\ u.count = t.count
              /\ u.pool = t.pool
              /\ u.cb = [c \in Cb |-> IF c \in C THEN Nothing ELSE t.cb[c]]
<1> DEFINE s == remove_CommandBuffer_calls(t, C)
<1>1. SameButCalls(s, t)
    BY TrackerCalls
<1> HIDE DEF s
<1>2. remove_CommandBuffers(t, C) = OnPool(s, C, Nothing)
    BY DEF remove_CommandBuffers, s
<1> QED
    BY <1>1, <1>2, TrackerOnPool DEF SameButCalls, SameMem, SameCbs

-----------------------------------------------------------------------------
(* The counts of two trackers that have the same command buffers. *)

\* The count depends on the counts and the command buffers alone.
LEMMA CountsStay ==
    ASSUME NEW t, NEW u, u.count = t.count, u.cb = t.cb, CountsAgree(t)
    PROVE  CountsAgree(u)
BY DEF CountsAgree, TrackedCbs

-----------------------------------------------------------------------------
(* Each call keeps the agreement. *)

\* vkAllocateMemory.
LEMMA AllocateAgrees ==
    ASSUME NEW w, NEW t, NEW mixed, Agree(w, t, mixed),
           NEW m \in Mem, NEW b \in Buf \cup {Nothing}
    PROVE  Agree(Effect(w, Call("AllocateMemory", m, b)),
                 ForIs(MemIs(t, m, "idle"), m, b), mixed)
<1>0. IsWorld(w) /\ HasParts(t)
    BY DEF Agree
<1> DEFINE w1 == MemIs(w, m, "idle")
           v == ForIs(w1, m, b)
           t1 == MemIs(t, m, "idle")
           u == ForIs(t1, m, b)
<1>1. Effect(w, Call("AllocateMemory", m, b)) = v /\ ForIs(MemIs(t, m, "idle"), m, b) = u
    BY DEF Effect, Call
<1>2. /\ IsWorld(v) /\ v.buf = w.buf /\ SameCbs(v, w)
      /\ v.mem = [w.mem EXCEPT ![m] = "idle"] /\ v.for = [w.for EXCEPT ![m] = b]
    <2>1. /\ IsWorld(w1) /\ w1.buf = w.buf /\ SameCbs(w1, w)
          /\ w1.mem = [w.mem EXCEPT ![m] = "idle"] /\ w1.for = w.for
        BY <1>0, WorldMemIs
    <2> HIDE DEF w1
    <2> QED
        BY <2>1, WorldForIs DEF SameCbs
<1>3. /\ HasParts(u) /\ u.buf = t.buf /\ SameCbs(u, t) /\ u.count = t.count
      /\ u.mem = [t.mem EXCEPT ![m] = "idle"] /\ u.for = [t.for EXCEPT ![m] = b]
    <2>1. /\ HasParts(t1) /\ t1.buf = t.buf /\ SameCbs(t1, t) /\ t1.count = t.count
          /\ t1.mem = [t.mem EXCEPT ![m] = "idle"] /\ t1.for = t.for
        BY <1>0, TrackerMemIs
    <2> HIDE DEF t1
    <2> QED
        BY <2>1, TrackerForIs DEF SameCbs
<1> HIDE DEF v, u
<1>4. MemAgrees(v, u) /\ BufAgrees(v, u) /\ PoolAgrees(v, u)
    BY <1>2, <1>3 DEF Agree, MemAgrees, BufAgrees, PoolAgrees, SameCbs
<1>5. ~mixed => CountsAgree(u)
    BY <1>3, CountsStay DEF Agree, SameCbs
<1> QED
    BY <1>1, <1>2, <1>3, <1>4, <1>5 DEF Agree

\* vkMapMemory and vkUnmapMemory.
LEMMA MapAgrees ==
    ASSUME NEW w, NEW t, NEW mixed, Agree(w, t, mixed), NEW m \in Mem
    PROVE  /\ Agree(Effect(w, Call("MapMemory", m, Nothing)), MemIs(t, m, "mapped"), mixed)
           /\ Agree(Effect(w, Call("UnmapMemory", m, Nothing)), MemIs(t, m, "idle"), mixed)
<1>0. IsWorld(w) /\ HasParts(t)
    BY DEF Agree
<1>1. ASSUME NEW s \in {"idle", "mapped"}
      PROVE  Agree(MemIs(w, m, s), MemIs(t, m, s), mixed)
    <2> DEFINE v == MemIs(w, m, s)
               u == MemIs(t, m, s)
    <2>0. MemIs(w, m, s) = v /\ MemIs(t, m, s) = u /\ s \in {"none", "idle", "mapped"}
        OBVIOUS
    <2>1. /\ IsWorld(v) /\ v.buf = w.buf /\ SameCbs(v, w)
          /\ v.mem = [w.mem EXCEPT ![m] = s] /\ v.for = w.for
        BY <1>0, <2>0, WorldMemIs
    <2>2. /\ HasParts(u) /\ u.buf = t.buf /\ SameCbs(u, t) /\ u.count = t.count
          /\ u.mem = [t.mem EXCEPT ![m] = s] /\ u.for = t.for
        BY <1>0, <2>0, TrackerMemIs
    <2> HIDE DEF v, u
    <2>3. MemAgrees(v, u) /\ BufAgrees(v, u) /\ PoolAgrees(v, u)
        BY <2>1, <2>2 DEF Agree, MemAgrees, BufAgrees, PoolAgrees, SameCbs
    <2>4. ~mixed => CountsAgree(u)
        BY <2>2, CountsStay DEF Agree, SameCbs
    <2> QED
        BY <2>0, <2>1, <2>2, <2>3, <2>4 DEF Agree
<1>2. Effect(w, Call("MapMemory", m, Nothing)) = MemIs(w, m, "mapped")
    BY DEF Effect, Call
<1>3. Effect(w, Call("UnmapMemory", m, Nothing)) = MemIs(w, m, "idle")
    BY DEF Effect, Call
<1> QED
    BY <1>1, <1>2, <1>3

\* What makes invalid keeps the agreement on pools.
LEMMA PoolsStay ==
    ASSUME NEW w, NEW v, NEW t, NEW u, PoolAgrees(w, t), MayInvalidate(v, w, Cb),
           v.pool = w.pool, SameCbs(u, t)
    PROVE  PoolAgrees(v, u)
<1>1. ASSUME NEW c \in Cb
      PROVE  /\ v.cb[c].pool = w.cb[c].pool
             /\ w.cb[c].state = "none" => v.cb[c].state = "none"
    <2>1. \A p : Holding(p, "invalid", <<>>).pool = p
        BY DEF Holding
    <2> QED
        BY <2>1 DEF MayInvalidate
<1> QED
    BY <1>1 DEF PoolAgrees, SameCbs

\* vkFreeMemory: the buffers bound to the memory are lost, which the tracker ignores.
LEMMA FreeMemoryAgrees ==
    ASSUME NEW w, NEW t, NEW mixed, Agree(w, t, mixed), NEW m \in Mem
    PROVE  Agree(Effect(w, Call("FreeMemory", m, Nothing)),
                 ForIs(MemIs(t, m, "none"), m, Nothing), mixed)
<1>0. IsWorld(w) /\ HasParts(t)
    BY DEF Agree
<1> DEFINE B == {b \in Buf : w.buf[b] = m}
           w1 == Invalidate(w, B)
           w2 == MemIs(w1, m, "none")
           w3 == ForIs(w2, m, Nothing)
           v == Lost(w3, B)
           t1 == MemIs(t, m, "none")
           u == ForIs(t1, m, Nothing)
<1>1. /\ Effect(w, Call("FreeMemory", m, Nothing)) = v
      /\ ForIs(MemIs(t, m, "none"), m, Nothing) = u
    BY DEF Effect, Call
<1>2. /\ IsWorld(v) /\ v.pool = w.pool /\ MayInvalidate(v, w, Cb)
      /\ v.buf = [b \in Buf |-> IF b \in B THEN "lost" ELSE w.buf[b]]
      /\ v.mem = [w.mem EXCEPT ![m] = "none"] /\ v.for = [w.for EXCEPT ![m] = Nothing]
    <2>1. /\ IsWorld(w1) /\ SameMem(w1, w) /\ w1.buf = w.buf /\ w1.pool = w.pool
          /\ MayInvalidate(w1, w, Cb)
        BY <1>0, WorldInvalidate
    <2> HIDE DEF w1
    <2>2. /\ IsWorld(w2) /\ w2.buf = w1.buf /\ SameCbs(w2, w1)
          /\ w2.mem = [w1.mem EXCEPT ![m] = "none"] /\ w2.for = w1.for
        BY <2>1, WorldMemIs
    <2> HIDE DEF w2
    <2>3. /\ IsWorld(w3) /\ w3.buf = w2.buf /\ SameCbs(w3, w2)
          /\ w3.mem = w2.mem /\ w3.for = [w2.for EXCEPT ![m] = Nothing]
        BY <2>2, WorldForIs
    <2> HIDE DEF w3
    <2>4. B \in SUBSET Buf
        OBVIOUS
    <2> HIDE DEF B
    <2> QED
        BY <2>1, <2>2, <2>3, <2>4, WorldLost DEF SameMem, SameCbs, MayInvalidate
<1>3. /\ HasParts(u) /\ u.buf = t.buf /\ SameCbs(u, t) /\ u.count = t.count
      /\ u.mem = [t.mem EXCEPT ![m] = "none"] /\ u.for = [t.for EXCEPT ![m] = Nothing]
    <2>1. /\ HasParts(t1) /\ t1.buf = t.buf /\ SameCbs(t1, t) /\ t1.count = t.count
          /\ t1.mem = [t.mem EXCEPT ![m] = "none"] /\ t1.for = t.for
        BY <1>0, TrackerMemIs
    <2> HIDE DEF t1
    <2> QED
        BY <2>1, TrackerForIs DEF SameCbs
<1>4. BufAgrees(v, u)
    BY <1>2, <1>3, MemIsNoState DEF Agree, BufAgrees
<1> HIDE DEF v, u
<1>5. MemAgrees(v, u) /\ PoolAgrees(v, u)
    BY <1>2, <1>3, PoolsStay DEF Agree, MemAgrees
<1>6. ~mixed => CountsAgree(u)
    BY <1>3, CountsStay DEF Agree, SameCbs
<1> QED
    BY <1>1, <1>2, <1>3, <1>4, <1>5, <1>6 DEF Agree

\* vkCreateBuffer, vkBindBufferMemory.
LEMMA BufferAgrees ==
    ASSUME NEW w, NEW t, NEW mixed, Agree(w, t, mixed), NEW b \in Buf
    PROVE  /\ Agree(Effect(w, Call("CreateBuffer", b, Nothing)), BufIs(t, b, "unbound"), mixed)
           /\ \A m \in Mem :
                Agree(Effect(w, Call("BindBufferMemory", b, m)), BufIs(t, b, m), mixed)
<1>0. IsWorld(w) /\ HasParts(t)
    BY DEF Agree
<1>1. ASSUME NEW s \in {"unbound"} \cup Mem
      PROVE  Agree(BufIs(w, b, s), BufIs(t, b, s), mixed)
    <2> DEFINE v == BufIs(w, b, s)
               u == BufIs(t, b, s)
    <2>0. BufIs(w, b, s) = v /\ BufIs(t, b, s) = u
        OBVIOUS
    <2>1. IsWorld(v) /\ SameMem(v, w) /\ SameCbs(v, w) /\ v.buf = [w.buf EXCEPT ![b] = s]
        BY <1>0, WorldBufIs
    <2>2. /\ HasParts(u) /\ SameMem(u, t) /\ SameCbs(u, t) /\ u.count = t.count
          /\ u.buf = [t.buf EXCEPT ![b] = s]
        BY <1>0, TrackerBufIs
    <2> HIDE DEF v, u
    <2>3. BufAgrees(v, u)
        BY <2>1, <2>2, MemIsNoState DEF Agree, BufAgrees, IsWorld, HasParts
    <2>4. MemAgrees(v, u) /\ PoolAgrees(v, u)
        BY <2>1, <2>2 DEF Agree, MemAgrees, PoolAgrees, SameMem, SameCbs
    <2>5. ~mixed => CountsAgree(u)
        BY <2>2, CountsStay DEF Agree, SameCbs
    <2> QED
        BY <2>0, <2>1, <2>2, <2>3, <2>4, <2>5 DEF Agree
<1>2. Effect(w, Call("CreateBuffer", b, Nothing)) = BufIs(w, b, "unbound")
    BY DEF Effect, Call
<1>3. \A m \in Mem : Effect(w, Call("BindBufferMemory", b, m)) = BufIs(w, b, m)
    BY DEF Effect, Call
<1> QED
    BY <1>1, <1>2, <1>3

\* vkDestroyBuffer.
LEMMA DestroyBufferAgrees ==
    ASSUME NEW w, NEW t, NEW mixed, Agree(w, t, mixed), NEW b \in Buf
    PROVE  Agree(Effect(w, Call("DestroyBuffer", b, Nothing)), remove_Buffer_object(t, b), mixed)
<1>0. IsWorld(w) /\ HasParts(t)
    BY DEF Agree
<1> DEFINE w1 == Invalidate(w, {b})
           v == BufIs(w1, b, "none")
           u == BufIs(t, b, "none")
<1>1. Effect(w, Call("DestroyBuffer", b, Nothing)) = v /\ remove_Buffer_object(t, b) = u
    BY DEF Effect, Call, remove_Buffer_object
<1>2. /\ IsWorld(v) /\ SameMem(v, w) /\ v.pool = w.pool /\ MayInvalidate(v, w, Cb)
      /\ v.buf = [w.buf EXCEPT ![b] = "none"]
    <2>1. /\ IsWorld(w1) /\ SameMem(w1, w) /\ w1.buf = w.buf /\ w1.pool = w.pool
          /\ MayInvalidate(w1, w, Cb)
        BY <1>0, WorldInvalidate
    <2> HIDE DEF w1
    <2> QED
        BY <2>1, WorldBufIs DEF SameMem, SameCbs, MayInvalidate
<1>3. /\ HasParts(u) /\ SameMem(u, t) /\ SameCbs(u, t) /\ u.count = t.count
      /\ u.buf = [t.buf EXCEPT ![b] = "none"]
    BY <1>0, TrackerBufIs
<1> HIDE DEF v, u
<1>4. BufAgrees(v, u)
    BY <1>2, <1>3 DEF Agree, BufAgrees, IsWorld, HasParts
<1>5. MemAgrees(v, u) /\ PoolAgrees(v, u)
    BY <1>2, <1>3, PoolsStay DEF Agree, MemAgrees, SameMem
<1>6. ~mixed => CountsAgree(u)
    BY <1>3, CountsStay DEF Agree, SameCbs
<1> QED
    BY <1>1, <1>2, <1>3, <1>4, <1>5, <1>6 DEF Agree

-----------------------------------------------------------------------------
(* Pools and command buffers. *)

\* The pool of a command buffer, and what is known of one that is on none.
LEMMA PoolOf ==
    ASSUME NEW w, NEW t, NEW mixed, Agree(w, t, mixed), NEW c \in Cb
    PROVE  /\ t.cb[c] = w.cb[c].pool /\ t.cb[c] \in Pool \cup {Nothing}
           /\ w.cb[c].state # "none" => w.cb[c].pool # Nothing
           /\ t.cb[c] # Nothing => t.cb[c] \in w.pool
BY DEF Agree, PoolAgrees, HasParts

\* vkCreateCommandPool.
LEMMA CreatePoolAgrees ==
    ASSUME NEW w, NEW t, NEW mixed, Agree(w, t, mixed), NEW p \in Pool
    PROVE  Agree(Effect(w, Call("CreateCommandPool", p, Nothing)),
                 PoolsAre(t, t.pool \cup {p}), mixed)
<1>0. IsWorld(w) /\ HasParts(t) /\ t.pool = w.pool
    BY DEF Agree, PoolAgrees
<1> DEFINE P == w.pool \cup {p}
           v == PoolsAre(w, P)
           u == PoolsAre(t, P)
<1>1. /\ Effect(w, Call("CreateCommandPool", p, Nothing)) = v
      /\ PoolsAre(t, t.pool \cup {p}) = u
    BY <1>0 DEF Effect, Call
<1>2. P \in SUBSET Pool
    BY <1>0 DEF IsWorld
<1>3. w.pool \subseteq P
    OBVIOUS
<1> HIDE DEF P
<1>4. IsWorld(v) /\ SameMem(v, w) /\ v.buf = w.buf /\ v.cb = w.cb /\ v.pool = P
    BY <1>0, <1>2, WorldPoolsAre
<1>5. /\ HasParts(u) /\ SameMem(u, t) /\ u.buf = t.buf /\ u.count = t.count
      /\ u.cb = t.cb /\ u.pool = P
    BY <1>0, TrackerPoolsAre
<1> HIDE DEF v, u
<1>6. MemAgrees(v, u) /\ BufAgrees(v, u) /\ PoolAgrees(v, u)
    BY <1>3, <1>4, <1>5 DEF Agree, MemAgrees, BufAgrees, PoolAgrees, SameMem
<1>7. ~mixed => CountsAgree(u)
    BY <1>5, CountsStay DEF Agree
<1> QED
    BY <1>1, <1>4, <1>5, <1>6, <1>7 DEF Agree

\* The command buffers of a pool, and on a pool they all are.
LEMMA CbsOfPool ==
    ASSUME NEW w, NEW t, NEW mixed, Agree(w, t, mixed), NEW p
    PROVE  PoolCbs(t, p) = CbsOf(w, p)
BY PoolOf DEF PoolCbs, CbsOf

\* What C is cleared of: the tracker drops the packets, or drops and adds some.
LEMMA ClearedAgrees ==
    ASSUME NEW w, NEW t, NEW mixed, Agree(w, t, mixed), NEW C \in SUBSET Cb,
           \A c \in C : w.cb[c].pool # Nothing,
           NEW s \in CbStates, NEW u, SameButCalls(u, t)
    PROVE  Agree(Cleared(w, C, s), u, mixed)
<1> DEFINE v == Cleared(w, C, s)
<1>0. IsWorld(w) /\ HasParts(t)
    BY DEF Agree
<1>1. /\ IsWorld(v) /\ SameMem(v, w) /\ v.buf = w.buf /\ v.pool = w.pool
      /\ MayInvalidate(v, w, Cb \ C)
      /\ \A c \in C : v.cb[c] = Holding(w.cb[c].pool, s, <<>>)
    BY <1>0, WorldCleared
<1> HIDE DEF v
<1>2. ASSUME NEW c \in Cb
      PROVE  /\ v.cb[c].pool = w.cb[c].pool
             /\ w.cb[c].pool = Nothing => v.cb[c].state = "none"
    <2>1. \A q, r : Holding(q, r, <<>>).pool = q
        BY DEF Holding
    <2>2. CASE c \in C
        BY <1>1, <2>1, <2>2
    <2>3. CASE c \notin C
        BY <1>1, <2>1, <2>3, PoolOf DEF MayInvalidate
    <2> QED
        BY <2>2, <2>3
<1>3. PoolAgrees(v, u)
    BY <1>1, <1>2, PoolOf DEF PoolAgrees, SameButCalls, SameCbs, Agree
<1>4. MemAgrees(v, u) /\ BufAgrees(v, u)
    BY <1>1 DEF Agree, MemAgrees, BufAgrees, SameButCalls, SameMem
<1>5. ~mixed => CountsAgree(u)
    BY CountsStay DEF Agree, SameButCalls, SameCbs
<1> QED
    BY <1>1, <1>3, <1>4, <1>5 DEF Agree, SameButCalls, v

\* vkResetCommandPool.
LEMMA ResetPoolAgrees ==
    ASSUME NEW w, NEW t, NEW mixed, Agree(w, t, mixed), NEW p \in Pool
    PROVE  Agree(Effect(w, Call("ResetCommandPool", p, Nothing)),
                 remove_CommandBuffer_calls(t, PoolCbs(t, p)), mixed)
<1> DEFINE C == CbsOf(w, p)
           u == remove_CommandBuffer_calls(t, PoolCbs(t, p))
<1>1. Effect(w, Call("ResetCommandPool", p, Nothing)) = Cleared(w, C, "initial")
    BY DEF Effect, Call
<1>2. C \in SUBSET Cb /\ \A c \in C : w.cb[c].pool # Nothing
    BY NullIsNoHandle DEF CbsOf
<1>3. SameButCalls(u, t)
    BY TrackerCalls DEF Agree
<1> HIDE DEF C, u
<1>4. "initial" \in CbStates
    BY DEF CbStates
<1> QED
    BY <1>1, <1>2, <1>3, <1>4, ClearedAgrees DEF u

\* vkBeginCommandBuffer and vkResetCommandBuffer.
LEMMA BeginAgrees ==
    ASSUME NEW w, NEW t, NEW mixed, Agree(w, t, mixed), NEW c \in Cb,
           w.cb[c].state # "none", NEW u, SameButCalls(u, t)
    PROVE  /\ Agree(Effect(w, Call("BeginCommandBuffer", c, Nothing)), u, mixed)
           /\ Agree(Effect(w, Call("ResetCommandBuffer", c, Nothing)), u, mixed)
<1>1. /\ Effect(w, Call("BeginCommandBuffer", c, Nothing)) = Cleared(w, {c}, "recording")
      /\ Effect(w, Call("ResetCommandBuffer", c, Nothing)) = Cleared(w, {c}, "initial")
    BY DEF Effect, Call
<1>2. {c} \in SUBSET Cb /\ \A d \in {c} : w.cb[d].pool # Nothing
    BY PoolOf
<1>3. "initial" \in CbStates /\ "recording" \in CbStates
    BY DEF CbStates
<1> QED
    BY <1>1, <1>2, <1>3, ClearedAgrees

\* A command buffer that stays on its pool, with another state and other commands.
LEMMA RecordedAgrees ==
    ASSUME NEW w, NEW t, NEW mixed, Agree(w, t, mixed), NEW c \in Cb,
           w.cb[c].state # "none", NEW s \in CbStates, NEW cmds \in Seq(Buf \cup Cb),
           NEW u, SameButCalls(u, t)
    PROVE  Agree(CbsAre(w, [w.cb EXCEPT ![c] = Holding(w.cb[c].pool, s, cmds)]), u, mixed)
<1> DEFINE f == [w.cb EXCEPT ![c] = Holding(w.cb[c].pool, s, cmds)]
           v == CbsAre(w, f)
<1>0. IsWorld(w) /\ HasParts(t)
    BY DEF Agree
<1>1. w.cb \in CbFunctions
    BY <1>0 DEF IsWorld, CbFunctions
<1>2. Holding(w.cb[c].pool, s, cmds)
        \in [pool : Pool \cup {Nothing}, state : CbStates, cmds : Seq(Buf \cup Cb)]
    BY <1>1 DEF CbFunctions, Holding
<1>3. /\ f \in CbFunctions
      /\ f[c] = Holding(w.cb[c].pool, s, cmds)
      /\ \A d \in Cb \ {c} : f[d] = w.cb[d]
    BY <1>1, <1>2 DEF CbFunctions
<1> HIDE DEF f
<1>4. IsWorld(v) /\ SameMem(v, w) /\ v.buf = w.buf /\ v.pool = w.pool /\ v.cb = f
    BY <1>0, <1>3, WorldCbsAre
<1> HIDE DEF v
<1>5. ASSUME NEW d \in Cb
      PROVE  /\ v.cb[d].pool = w.cb[d].pool
             /\ w.cb[d].pool = Nothing => v.cb[d].state = "none"
    <2>1. \A q, r, x : Holding(q, r, x).pool = q
        BY DEF Holding
    <2>2. CASE d = c
        BY <1>3, <1>4, <2>1, <2>2, PoolOf
    <2>3. CASE d # c
        BY <1>3, <1>4, <2>3, PoolOf
    <2> QED
        BY <2>2, <2>3
<1>6. PoolAgrees(v, u)
    BY <1>4, <1>5, PoolOf DEF PoolAgrees, SameButCalls, SameCbs, Agree
<1>7. MemAgrees(v, u) /\ BufAgrees(v, u)
    BY <1>4 DEF Agree, MemAgrees, BufAgrees, SameButCalls, SameMem
<1>8. ~mixed => CountsAgree(u)
    BY CountsStay DEF Agree, SameButCalls, SameCbs
<1> QED
    BY <1>4, <1>6, <1>7, <1>8 DEF Agree, SameButCalls, v, f

\* The commands, vkEndCommandBuffer and vkQueueSubmit.
LEMMA RecordAgrees ==
    ASSUME NEW w, NEW t, NEW mixed, Agree(w, t, mixed), NEW c \in Cb, NEW x \in Buf \cup Cb,
           w.cb[c].state = "recording", NEW u, SameButCalls(u, t)
    PROVE  /\ Agree(Effect(w, Call("Cmd", c, x)), u, mixed)
           /\ Agree(Effect(w, Call("EndCommandBuffer", c, Nothing)), u, mixed)
<1>1. /\ Effect(w, Call("Cmd", c, x)) =
            CbsAre(w, [w.cb EXCEPT ![c] =
                Holding(w.cb[c].pool, "recording", Append(w.cb[c].cmds, x))])
      /\ Effect(w, Call("EndCommandBuffer", c, Nothing)) =
            CbsAre(w, [w.cb EXCEPT ![c] = Holding(w.cb[c].pool, "executable", w.cb[c].cmds)])
    BY DEF Effect, Call
<1>2. w.cb[c].cmds \in Seq(Buf \cup Cb)
    BY DEF Agree, IsWorld
<1>3. Append(w.cb[c].cmds, x) \in Seq(Buf \cup Cb)
    BY <1>2
<1>4. "recording" \in CbStates /\ "executable" \in CbStates
    BY DEF CbStates
<1>5. ASSUME NEW s \in CbStates, NEW cmds \in Seq(Buf \cup Cb)
      PROVE  Agree(CbsAre(w, [w.cb EXCEPT ![c] = Holding(w.cb[c].pool, s, cmds)]), u, mixed)
    <2>1. w.cb[c].state # "none"
        OBVIOUS
    <2> QED
        BY <2>1, RecordedAgrees
<1> QED
    BY <1>1, <1>2, <1>3, <1>4, <1>5

-----------------------------------------------------------------------------
(* Command buffers that come and go, and the counts of them. *)

\* A number below the modulus is its own remainder.
LEMMA SmallRemainder ==
    ASSUME NEW M \in Nat, NEW k \in Nat, k < M
    PROVE  k % M = k /\ (k + M) % M = k
OBVIOUS

\* No set of command buffers reaches the modulus.
LEMMA CbsAreFew ==
    ASSUME NEW C \in SUBSET Cb
    PROVE  /\ IsFiniteSet(C) /\ Cardinality(C) \in Nat
           /\ CountModulus \in Nat /\ Cardinality(C) < CountModulus
BY CountsFit, FS_CardinalityType, FS_Subset

\* Every command buffer is of one level.
LEMMA LevelType == \A c : Level(c) \in Levels
BY DEF Level, Levels

\* vkAllocateCommandBuffers.
LEMMA AllocateCbsAgrees ==
    ASSUME NEW w, NEW t, NEW mixed, Agree(w, t, mixed), NEW p \in Pool,
           NEW C \in SUBSET Cb, NEW l \in Levels, \A c \in C : Level(c) = l,
           p \in w.pool, \A c \in C : w.cb[c] = NoCb
    PROVE  Agree(Effect(w, Call("AllocateCommandBuffers", p, C)),
                 Counted(OnPool(t, C, p), p, l, Cardinality(C)), mixed)
<1> DEFINE f == [c \in Cb |-> IF c \in C THEN Holding(p, "initial", <<>>) ELSE w.cb[c]]
           v == CbsAre(w, f)
           t1 == OnPool(t, C, p)
           u == Counted(t1, p, l, Cardinality(C))
<1>0. IsWorld(w) /\ HasParts(t)
    BY DEF Agree
<1>1. /\ Effect(w, Call("AllocateCommandBuffers", p, C)) = v
      /\ Counted(OnPool(t, C, p), p, l, Cardinality(C)) = u
    BY DEF Effect, Call
<1>2. f \in CbFunctions
    BY <1>0 DEF IsWorld, CbFunctions, Holding, CbStates
<1>3. /\ \A c \in C : f[c] = Holding(p, "initial", <<>>)
      /\ \A c \in Cb \ C : f[c] = w.cb[c]
    OBVIOUS
<1> HIDE DEF f
<1>4. IsWorld(v) /\ SameMem(v, w) /\ v.buf = w.buf /\ v.pool = w.pool /\ v.cb = f
    BY <1>0, <1>2, WorldCbsAre
<1>5. /\ HasParts(t1) /\ SameMem(t1, t) /\ t1.buf = t.buf /\ t1.count = t.count
      /\ t1.pool = t.pool /\ t1.cb = [c \in Cb |-> IF c \in C THEN p ELSE t.cb[c]]
    BY <1>0, TrackerOnPool
<1> HIDE DEF t1
<1>6. /\ HasParts(u) /\ SameMem(u, t) /\ u.buf = t.buf /\ u.pool = t.pool
      /\ u.cb = [c \in Cb |-> IF c \in C THEN p ELSE t.cb[c]]
      /\ \A q \in Pool, k \in Levels : u.count[q][k] =
            IF q = p /\ k = l THEN (t.count[p][l] + Cardinality(C)) % CountModulus
                              ELSE t.count[q][k]
    <2>1. Cardinality(C) \in Nat
        BY CbsAreFew
    <2>2. /\ HasParts(u) /\ SameMem(u, t1) /\ u.buf = t1.buf /\ SameCbs(u, t1)
          /\ \A q \in Pool, k \in Levels : u.count[q][k] =
                IF q = p /\ k = l THEN (t1.count[p][l] + Cardinality(C)) % CountModulus
                                  ELSE t1.count[q][k]
        BY <1>5, <2>1, TrackerCounted
    <2> HIDE DEF u
    <2> QED
        BY <1>5, <2>2 DEF SameMem, SameCbs
<1> HIDE DEF v, u
<1>7. PoolAgrees(v, u)
    <2>1. ASSUME NEW c \in Cb
          PROVE  /\ u.cb[c] = v.cb[c].pool
                 /\ v.cb[c].pool = Nothing => v.cb[c].state = "none"
                 /\ u.cb[c] # Nothing => u.cb[c] \in w.pool
        <3>1. /\ Holding(p, "initial", <<>>).pool = p
              /\ p # Nothing
            BY NullIsNoHandle DEF Holding
        <3>2. CASE c \in C
            BY <1>3, <1>4, <1>6, <3>1, <3>2
        <3>3. CASE c \notin C
            BY <1>3, <1>4, <1>6, <3>3, PoolOf
        <3> QED
            BY <3>2, <3>3
    <2> QED
        BY <1>4, <1>6, <2>1 DEF PoolAgrees, Agree
<1>8. MemAgrees(v, u) /\ BufAgrees(v, u)
    BY <1>4, <1>6 DEF Agree, MemAgrees, BufAgrees, SameMem
<1>9. ASSUME CountsAgree(t) PROVE CountsAgree(u)
    <2>1. \A c \in C : t.cb[c] = Nothing
        BY PoolOf DEF NoCb
    <2>2. ASSUME NEW q \in Pool, NEW k \in Levels
          PROVE  u.count[q][k] = Cardinality(TrackedCbs(u, q, k))
        <3>1. CASE q = p /\ k = l
            <4> DEFINE T == TrackedCbs(t, p, l)
            <4>1. TrackedCbs(u, q, k) = T \cup C /\ T \cap C = {} /\ T \in SUBSET Cb
                BY <1>6, <2>1, <3>1, NullIsNoHandle DEF TrackedCbs
            <4>2. t.count[p][l] = Cardinality(T)
                BY <1>9 DEF CountsAgree
            <4> HIDE DEF T
            <4>3. Cardinality(T \cup C) = Cardinality(T) + Cardinality(C)
                <5>1. /\ IsFiniteSet(T) /\ IsFiniteSet(C)
                      /\ Cardinality(T) \in Nat /\ Cardinality(C) \in Nat
                    BY <4>1, CbsAreFew
                <5>2. Cardinality(T \cap C) = 0
                    BY <4>1, FS_EmptySet
                <5>3. Cardinality(T \cup C)
                        = Cardinality(T) + Cardinality(C) - Cardinality(T \cap C)
                    BY <5>1, FS_Union
                <5> QED
                    BY <5>1, <5>2, <5>3
            <4>4. T \cup C \in SUBSET Cb
                BY <4>1
            <4>5. Cardinality(T \cup C) % CountModulus = Cardinality(T \cup C)
                BY <4>4, CbsAreFew, SmallRemainder
            <4> QED
                BY <1>6, <3>1, <4>1, <4>2, <4>3, <4>5
        <3>2. CASE ~(q = p /\ k = l)
            <4>1. TrackedCbs(u, q, k) = TrackedCbs(t, q, k)
                BY <1>6, <2>1, <3>2, NullIsNoHandle DEF TrackedCbs
            <4> QED
                BY <1>6, <1>9, <3>2, <4>1 DEF CountsAgree
        <3> QED
            BY <3>1, <3>2
    <2> QED
        BY <2>2 DEF CountsAgree
<1> QED
    BY <1>1, <1>4, <1>6, <1>7, <1>8, <1>9 DEF Agree

\* Command buffers that are gone leave the rest in agreement; the counts are extra.
LEMMA WithoutAgrees ==
    ASSUME NEW w, NEW t, NEW mixed, Agree(w, t, mixed), NEW C \in SUBSET Cb
    PROVE  LET v == Without(w, C)
               u == remove_CommandBuffers(t, C)
           IN /\ IsWorld(v) /\ v.pool = w.pool
              /\ HasParts(u) /\ u.count = t.count
              /\ u.cb = [c \in Cb |-> IF c \in C THEN Nothing ELSE t.cb[c]]
              /\ MemAgrees(v, u) /\ BufAgrees(v, u) /\ PoolAgrees(v, u)
<1> DEFINE v == Without(w, C)
           u == remove_CommandBuffers(t, C)
<1>0. IsWorld(w) /\ HasParts(t)
    BY DEF Agree
<1>1. /\ IsWorld(v) /\ SameMem(v, w) /\ v.buf = w.buf /\ v.pool = w.pool
      /\ MayInvalidate(v, w, Cb \ C)
      /\ \A c \in C : v.cb[c] = NoCb
    BY <1>0, WorldWithout
<1>2. /\ HasParts(u) /\ SameMem(u, t) /\ u.buf = t.buf /\ u.count = t.count
      /\ u.pool = t.pool
      /\ u.cb = [c \in Cb |-> IF c \in C THEN Nothing ELSE t.cb[c]]
    BY <1>0, TrackerRemove
<1> HIDE DEF v, u
<1>3. PoolAgrees(v, u)
    <2>1. ASSUME NEW c \in Cb
          PROVE  /\ u.cb[c] = v.cb[c].pool
                 /\ v.cb[c].pool = Nothing => v.cb[c].state = "none"
                 /\ u.cb[c] # Nothing => u.cb[c] \in w.pool
        <3>1. /\ \A q : Holding(q, "invalid", <<>>).pool = q
              /\ NoCb.pool = Nothing /\ NoCb.state = "none"
            BY DEF Holding, NoCb
        <3>2. CASE c \in C
            BY <1>1, <1>2, <3>1, <3>2
        <3>3. CASE c \notin C
            <4>1. /\ v.cb[c].pool = w.cb[c].pool
                  /\ w.cb[c].pool = Nothing => v.cb[c].state = "none"
                BY <1>1, <3>1, <3>3, PoolOf DEF MayInvalidate
            <4> QED
                BY <1>2, <3>3, <4>1, PoolOf
        <3> QED
            BY <3>2, <3>3
    <2> QED
        BY <1>1, <1>2, <2>1 DEF PoolAgrees, Agree
<1>4. MemAgrees(v, u) /\ BufAgrees(v, u)
    BY <1>1, <1>2 DEF Agree, MemAgrees, BufAgrees, SameMem
<1> QED
    BY <1>1, <1>2, <1>3, <1>4 DEF v, u

\* vkFreeCommandBuffers, of one level unless the application mixes them.
LEMMA FreeCbsAgrees ==
    ASSUME NEW w, NEW t, NEW mixed, Agree(w, t, mixed), NEW p \in Pool,
           NEW C \in SUBSET Cb, NEW l \in Levels, mixed \/ \A c \in C : Level(c) = l,
           C \subseteq CbsOf(w, p)
    PROVE  Agree(Effect(w, Call("FreeCommandBuffers", p, C)),
                 Counted(remove_CommandBuffers(t, C), p, l, CountModulus - Cardinality(C)),
                 mixed)
<1> DEFINE v == Without(w, C)
           t1 == remove_CommandBuffers(t, C)
           u == Counted(t1, p, l, CountModulus - Cardinality(C))
<1>1. /\ Effect(w, Call("FreeCommandBuffers", p, C)) = v
      /\ Counted(remove_CommandBuffers(t, C), p, l, CountModulus - Cardinality(C)) = u
    BY DEF Effect, Call
<1>2. /\ IsWorld(v) /\ v.pool = w.pool
      /\ HasParts(t1) /\ t1.count = t.count
      /\ t1.cb = [c \in Cb |-> IF c \in C THEN Nothing ELSE t.cb[c]]
      /\ MemAgrees(v, t1) /\ BufAgrees(v, t1) /\ PoolAgrees(v, t1)
    BY WithoutAgrees
<1>3. CountModulus - Cardinality(C) \in Nat
    BY CbsAreFew
<1> HIDE DEF v, t1
<1>4. /\ HasParts(u) /\ SameMem(u, t1) /\ u.buf = t1.buf /\ SameCbs(u, t1)
      /\ \A q \in Pool, k \in Levels : u.count[q][k] =
            IF q = p /\ k = l THEN (t.count[p][l] + (CountModulus - Cardinality(C))) % CountModulus
                              ELSE t.count[q][k]
    BY <1>2, <1>3, TrackerCounted
<1> HIDE DEF u
<1>5. MemAgrees(v, u) /\ BufAgrees(v, u) /\ PoolAgrees(v, u)
    BY <1>2, <1>4 DEF MemAgrees, BufAgrees, PoolAgrees, SameMem, SameCbs
<1>6. ASSUME ~mixed, CountsAgree(t) PROVE CountsAgree(u)
    <2>1. \A c \in C : t.cb[c] = p /\ Level(c) = l
        BY <1>6, PoolOf DEF CbsOf
    <2>2. ASSUME NEW q \in Pool, NEW k \in Levels
          PROVE  u.count[q][k] = Cardinality(TrackedCbs(u, q, k))
        <3>1. CASE q = p /\ k = l
            <4> DEFINE T == TrackedCbs(t, p, l)
            <4>1. TrackedCbs(u, q, k) = T \ C /\ C \subseteq T /\ T \in SUBSET Cb
                BY <1>2, <1>4, <2>1, <3>1, NullIsNoHandle DEF TrackedCbs, SameCbs
            <4>2. t.count[p][l] = Cardinality(T)
                BY <1>6 DEF CountsAgree
            <4> HIDE DEF T
            <4>3. Cardinality(T \ C) = Cardinality(T) - Cardinality(C)
                <5>1. T \cap C = C
                    BY <4>1
                <5> QED
                    BY <4>1, <5>1, CbsAreFew, FS_Difference
            <4>4. T \ C \in SUBSET Cb
                BY <4>1
            <4>5. /\ Cardinality(T \ C) \in Nat /\ Cardinality(C) \in Nat /\ CountModulus \in Nat
                  /\ Cardinality(T) \in Nat
                  /\ (Cardinality(T \ C) + CountModulus) % CountModulus = Cardinality(T \ C)
                BY <4>1, <4>4, CbsAreFew, SmallRemainder
            <4>6. Cardinality(T) + (CountModulus - Cardinality(C))
                    = Cardinality(T \ C) + CountModulus
                BY <4>3, <4>5
            <4> QED
                BY <1>4, <3>1, <4>1, <4>2, <4>5, <4>6
        <3>2. CASE ~(q = p /\ k = l)
            <4>1. TrackedCbs(u, q, k) = TrackedCbs(t, q, k)
                BY <1>2, <1>4, <2>1, <3>2, NullIsNoHandle DEF TrackedCbs, SameCbs
            <4> QED
                BY <1>4, <1>6, <3>2, <4>1 DEF CountsAgree
        <3> QED
            BY <3>1, <3>2
    <2> QED
        BY <2>2 DEF CountsAgree
<1> QED
    BY <1>1, <1>2, <1>4, <1>5, <1>6 DEF Agree

\* vkDestroyCommandPool.
LEMMA DestroyPoolAgrees ==
    ASSUME NEW w, NEW t, NEW mixed, Agree(w, t, mixed), NEW p \in Pool
    PROVE  Agree(Effect(w, Call("DestroyCommandPool", p, Nothing)),
                 remove_CommandPool_object(t, p), mixed)
<1> DEFINE C == CbsOf(w, p)
           P == w.pool \ {p}
           w1 == Without(w, C)
           v == PoolsAre(w1, P)
           t1 == remove_CommandBuffers(t, C)
           t2 == NoneCounted(t1, p)
           u == PoolsAre(t2, P)
<1>1. Effect(w, Call("DestroyCommandPool", p, Nothing)) = v
    BY DEF Effect, Call
<1>2. remove_CommandPool_object(t, p) = u
    <2>1. t.pool = w.pool /\ PoolCbs(t, p) = C
        BY CbsOfPool DEF Agree, PoolAgrees
    <2> QED
        BY <2>1 DEF remove_CommandPool_object
<1>3. C \in SUBSET Cb /\ \A c \in Cb : c \in C <=> w.cb[c].pool = p
    BY DEF CbsOf
<1>4. P \in SUBSET Pool
    BY DEF Agree, IsWorld
<1> HIDE DEF C, P
<1>5. /\ IsWorld(w1) /\ w1.pool = w.pool
      /\ HasParts(t1) /\ t1.count = t.count
      /\ t1.cb = [c \in Cb |-> IF c \in C THEN Nothing ELSE t.cb[c]]
      /\ MemAgrees(w1, t1) /\ BufAgrees(w1, t1) /\ PoolAgrees(w1, t1)
    BY <1>3, WithoutAgrees
<1> HIDE DEF w1, t1
<1>6. IsWorld(v) /\ SameMem(v, w1) /\ v.buf = w1.buf /\ v.cb = w1.cb /\ v.pool = P
    BY <1>4, <1>5, WorldPoolsAre
<1>7. /\ HasParts(t2) /\ SameMem(t2, t1) /\ t2.buf = t1.buf /\ SameCbs(t2, t1)
      /\ \A q \in Pool, k \in Levels : t2.count[q][k] = IF q = p THEN 0 ELSE t.count[q][k]
    BY <1>5, TrackerNoneCounted
<1> HIDE DEF t2
<1>8. /\ HasParts(u) /\ SameMem(u, t1) /\ u.buf = t1.buf /\ u.cb = t1.cb /\ u.pool = P
      /\ u.count = t2.count
    BY <1>7, TrackerPoolsAre DEF SameMem, SameCbs
<1> HIDE DEF v, u
<1>9. MemAgrees(v, u) /\ BufAgrees(v, u)
    BY <1>5, <1>6, <1>8 DEF MemAgrees, BufAgrees, SameMem
<1>10. PoolAgrees(v, u)
    <2>1. \A c \in Cb : t1.cb[c] # Nothing => t1.cb[c] \in P
        BY <1>3, <1>5, PoolOf DEF P
    <2> QED
        BY <1>5, <1>6, <1>8, <2>1 DEF PoolAgrees
<1>11. ASSUME CountsAgree(t) PROVE CountsAgree(u)
    <2>1. ASSUME NEW q \in Pool, NEW k \in Levels
          PROVE  u.count[q][k] = Cardinality(TrackedCbs(u, q, k))
        <3>1. CASE q = p
            <4>1. TrackedCbs(u, q, k) = {}
                BY <1>3, <1>5, <1>8, <3>1, PoolOf, NullIsNoHandle DEF TrackedCbs
            <4> QED
                BY <1>7, <1>8, <3>1, <4>1, FS_EmptySet
        <3>2. CASE q # p
            <4>1. TrackedCbs(u, q, k) = TrackedCbs(t, q, k)
                BY <1>3, <1>5, <1>8, <3>2, PoolOf, NullIsNoHandle DEF TrackedCbs
            <4> QED
                BY <1>7, <1>8, <1>11, <3>2, <4>1 DEF CountsAgree
        <3> QED
            BY <3>1, <3>2
    <2> QED
        BY <2>1 DEF CountsAgree
<1> QED
    BY <1>1, <1>2, <1>6, <1>8, <1>9, <1>10, <1>11 DEF Agree

-----------------------------------------------------------------------------
(* The specification. *)

\* Nothing exists at first, and nothing is tracked.
LEMMA InitInvariant == Init => IInv
<1> SUFFICES ASSUME Init PROVE Agree(NoObjects, EmptyTracker, opt.mixed)
    BY DEF Init, IInv
<1>1. NoObjects.cb \in CbFunctions /\ NoCb.pool = Nothing /\ NoCb.state = "none"
    BY DEF NoObjects, NoCb, CbFunctions, CbStates
<1>2. IsWorld(NoObjects)
    BY <1>1 DEF IsWorld, NoObjects, CbFunctions
<1>3. HasParts(EmptyTracker)
    BY DEF HasParts, EmptyTracker
<1>4. MemAgrees(NoObjects, EmptyTracker) /\ BufAgrees(NoObjects, EmptyTracker)
    BY DEF MemAgrees, BufAgrees, NoObjects, EmptyTracker
<1>5. PoolAgrees(NoObjects, EmptyTracker)
    BY <1>1 DEF PoolAgrees, NoObjects, EmptyTracker
<1>6. CountsAgree(EmptyTracker)
    <2>1. \A p \in Pool, l \in Levels : TrackedCbs(EmptyTracker, p, l) = {}
        BY NullIsNoHandle DEF TrackedCbs, EmptyTracker
    <2> QED
        BY <2>1, FS_EmptySet DEF CountsAgree, EmptyTracker
<1> QED
    BY <1>2, <1>3, <1>4, <1>5, <1>6 DEF Agree

\* A call whose effect the tracker t agrees with keeps the invariant.
LEMMA HookInvariant ==
    ASSUME IInv, NEW p, NEW t, NEW m, Hook(p, t, m),
           Agree(Effect(app, p), t, opt.mixed)
    PROVE  IInv'
BY DEF IInv, Hook

\* What changes no part but the packets.
LEMMA SameAgrees ==
    ASSUME NEW w, NEW t, NEW mixed, Agree(w, t, mixed), NEW u, SameButCalls(u, t)
    PROVE  Agree(w, u, mixed)
<1>1. ~mixed => CountsAgree(u)
    BY CountsStay DEF Agree, SameButCalls, SameCbs
<1> QED
    BY <1>1 DEF Agree, SameButCalls, MemAgrees, BufAgrees, PoolAgrees, SameMem, SameCbs

\* The interceptors of memory and buffers.
LEMMA ObjectsInvariant ==
    ASSUME IInv, mode # "post"
    PROVE  /\ \A m \in Mem, b \in Buf \cup {Nothing} : vkAllocateMemory(m, b) => IInv'
           /\ \A m \in Mem : vkMapMemory(m) \/ vkUnmapMemory(m) \/ vkFreeMemory(m) => IInv'
           /\ \A b \in Buf : vkCreateBuffer(b) \/ vkDestroyBuffer(b) => IInv'
           /\ \A b \in Buf, m \in Mem : vkBindBufferMemory(b, m) => IInv'
<1>1. Agree(app, tk, opt.mixed)
    BY DEF IInv
<1>2. ASSUME NEW m \in Mem, NEW b \in Buf \cup {Nothing}, vkAllocateMemory(m, b) PROVE IInv'
    BY <1>1, <1>2, AllocateAgrees, HookInvariant DEF vkAllocateMemory
<1>3. ASSUME NEW m \in Mem, vkMapMemory(m) PROVE IInv'
    BY <1>1, <1>3, MapAgrees, HookInvariant DEF vkMapMemory
<1>4. ASSUME NEW m \in Mem, vkUnmapMemory(m) PROVE IInv'
    BY <1>1, <1>4, MapAgrees, HookInvariant DEF vkUnmapMemory
<1>5. ASSUME NEW m \in Mem, vkFreeMemory(m) PROVE IInv'
    BY <1>1, <1>5, FreeMemoryAgrees, HookInvariant DEF vkFreeMemory
<1>6. ASSUME NEW b \in Buf, vkCreateBuffer(b) PROVE IInv'
    BY <1>1, <1>6, BufferAgrees, HookInvariant DEF vkCreateBuffer
<1>7. ASSUME NEW b \in Buf, vkDestroyBuffer(b) PROVE IInv'
    BY <1>1, <1>7, DestroyBufferAgrees, HookInvariant DEF vkDestroyBuffer
<1>8. ASSUME NEW b \in Buf, NEW m \in Mem, vkBindBufferMemory(b, m) PROVE IInv'
    BY <1>1, <1>8, BufferAgrees, HookInvariant DEF vkBindBufferMemory
<1> QED
    BY <1>2, <1>3, <1>4, <1>5, <1>6, <1>7, <1>8

\* The interceptors of pools, and of the command buffers that they hold.
LEMMA PoolsInvariant ==
    ASSUME IInv, mode # "post", NEW p \in Pool
    PROVE  /\ vkCreateCommandPool(p) => IInv'
           /\ vkDestroyCommandPool(p) => IInv'
           /\ vkResetCommandPool(p) => IInv'
           /\ \A C \in SUBSET Cb \ {{}} :
                /\ vkAllocateCommandBuffers(p, C) => IInv'
                /\ \A first \in C : vkFreeCommandBuffers(p, C, first) => IInv'
<1>1. Agree(app, tk, opt.mixed)
    BY DEF IInv
<1>2. ASSUME vkCreateCommandPool(p) PROVE IInv'
    BY <1>1, <1>2, CreatePoolAgrees, HookInvariant DEF vkCreateCommandPool
<1>3. ASSUME vkDestroyCommandPool(p) PROVE IInv'
    BY <1>1, <1>3, DestroyPoolAgrees, HookInvariant DEF vkDestroyCommandPool
<1>4. ASSUME vkResetCommandPool(p) PROVE IInv'
    BY <1>1, <1>4, ResetPoolAgrees, HookInvariant DEF vkResetCommandPool
<1>5. ASSUME NEW C \in SUBSET Cb \ {{}}, vkAllocateCommandBuffers(p, C) PROVE IInv'
    <2> DEFINE l == Level(CHOOSE c \in C : TRUE)
               P == Call("AllocateCommandBuffers", p, C)
               t == Counted(OnPool(tk, C, p), p, l, Cardinality(C))
    <2>1. (\A c \in C : Level(c) = l) /\ Hook(P, t, Marked(marks, {p}))
        BY <1>5 DEF vkAllocateCommandBuffers
    <2>2. l \in Levels /\ C \in SUBSET Cb
        BY LevelType
    <2> HIDE DEF l
    <2>3. p \in app.pool /\ \A c \in C : app.cb[c] = NoCb
        BY <2>1 DEF Hook, Legal, Call
    <2>4. Agree(Effect(app, P), t, opt.mixed)
        BY <1>1, <2>1, <2>2, <2>3, AllocateCbsAgrees
    <2> HIDE DEF P, t
    <2> QED
        BY <2>1, <2>4, HookInvariant
<1>6. ASSUME NEW C \in SUBSET Cb \ {{}}, NEW first \in C, vkFreeCommandBuffers(p, C, first)
      PROVE  IInv'
    <2> DEFINE l == Level(first)
               P == Call("FreeCommandBuffers", p, C)
               t == Counted(remove_CommandBuffers(tk, C), p, l, CountModulus - Cardinality(C))
    <2>1. (opt.mixed \/ \A c \in C : Level(c) = l) /\ Hook(P, t, Rerecorded(marks, C))
        BY <1>6 DEF vkFreeCommandBuffers
    <2>2. l \in Levels /\ C \in SUBSET Cb
        BY LevelType
    <2> HIDE DEF l
    <2>3. C \subseteq CbsOf(app, p)
        BY <2>1 DEF Hook, Legal, Call
    <2>4. Agree(Effect(app, P), t, opt.mixed)
        BY <1>1, <2>1, <2>2, <2>3, FreeCbsAgrees
    <2> HIDE DEF P, t
    <2> QED
        BY <2>1, <2>4, HookInvariant
<1> QED
    BY <1>2, <1>3, <1>4, <1>5, <1>6

\* The interceptors of one command buffer.
LEMMA RecordingInvariant ==
    ASSUME IInv, mode # "post", NEW c \in Cb
    PROVE  /\ vkBeginCommandBuffer(c) => IInv'
           /\ vkEndCommandBuffer(c) => IInv'
           /\ vkResetCommandBuffer(c) => IInv'
           /\ vkQueueSubmit(c) => IInv'
           /\ \A b \in Buf : vkCmdBindVertexBuffers(c, b) => IInv'
           /\ \A s \in Cb : vkCmdExecuteCommands(c, s) => IInv'
<1>1. Agree(app, tk, opt.mixed) /\ HasParts(tk)
    BY DEF IInv, Agree
<1>2. \A C, p : SameButCalls(remove_CommandBuffer_calls(tk, C), tk)
                /\ SameButCalls(add_CommandBuffer_call(tk, c, p), tk)
    BY <1>1, TrackerCalls
<1>3. SameButCalls(tk, tk)
    BY <1>1 DEF SameButCalls, SameMem, SameCbs
<1>4. ASSUME vkBeginCommandBuffer(c) PROVE IInv'
    <2> DEFINE P == Call("BeginCommandBuffer", c, Nothing)
               s == remove_CommandBuffer_calls(tk, {c})
               t == add_CommandBuffer_call(s, c, P)
    <2>1. Hook(P, t, Rerecorded(marks, {c}))
        BY <1>4 DEF vkBeginCommandBuffer
    <2>2. app.cb[c].state # "none"
        BY <2>1 DEF Hook, Legal, Call
    <2>3. SameButCalls(s, tk)
        BY <1>2
    <2> HIDE DEF s
    <2>4. SameButCalls(t, s)
        BY <2>3, TrackerCalls DEF SameButCalls
    <2> HIDE DEF t
    <2>5. SameButCalls(t, tk)
        BY <2>3, <2>4 DEF SameButCalls, SameMem, SameCbs
    <2>6. Agree(Effect(app, P), t, opt.mixed)
        BY <1>1, <2>2, <2>5, BeginAgrees
    <2> HIDE DEF P
    <2> QED
        BY <2>1, <2>6, HookInvariant
<1>5. ASSUME vkResetCommandBuffer(c) PROVE IInv'
    <2> DEFINE P == Call("ResetCommandBuffer", c, Nothing)
               t == remove_CommandBuffer_calls(tk, {c})
    <2>1. Hook(P, t, Rerecorded(marks, {c}))
        BY <1>5 DEF vkResetCommandBuffer
    <2>2. app.cb[c].state # "none"
        BY <2>1 DEF Hook, Legal, Call
    <2>3. SameButCalls(t, tk)
        BY <1>2
    <2> HIDE DEF t
    <2>4. Agree(Effect(app, P), t, opt.mixed)
        BY <1>1, <2>2, <2>3, BeginAgrees
    <2> HIDE DEF P
    <2> QED
        BY <2>1, <2>4, HookInvariant
<1>6. ASSUME vkEndCommandBuffer(c) PROVE IInv'
    <2> DEFINE P == Call("EndCommandBuffer", c, Nothing)
               t == add_CommandBuffer_call(tk, c, P)
    <2>1. Hook(P, t, marks)
        BY <1>6 DEF vkEndCommandBuffer
    <2>2. app.cb[c].state = "recording"
        BY <2>1 DEF Hook, Legal, Call
    <2>3. SameButCalls(t, tk)
        BY <1>2
    <2> HIDE DEF t
    <2>4. Agree(Effect(app, P), t, opt.mixed)
        BY <1>1, <2>2, <2>3, RecordAgrees
    <2> HIDE DEF P
    <2> QED
        BY <2>1, <2>4, HookInvariant
<1>7. ASSUME NEW x \in Buf \cup Cb, NEW t, NEW m, Hook(Call("Cmd", c, x), t, m),
             SameButCalls(t, tk)
      PROVE  IInv'
    <2> DEFINE P == Call("Cmd", c, x)
    <2>1. app.cb[c].state = "recording"
        BY <1>7 DEF Hook, Legal, Call
    <2>2. Agree(Effect(app, P), t, opt.mixed)
        BY <1>1, <1>7, <2>1, RecordAgrees
    <2>3. Hook(P, t, m)
        BY <1>7
    <2> HIDE DEF P
    <2> QED
        BY <2>2, <2>3, HookInvariant
<1>8. ASSUME NEW b \in Buf, vkCmdBindVertexBuffers(c, b) PROVE IInv'
    <2> DEFINE P == Call("Cmd", c, b)
    <2>1. Hook(P, add_CommandBuffer_call(tk, c, P), Marked(marks, {b}))
        BY <1>8 DEF vkCmdBindVertexBuffers
    <2> QED
        BY <1>2, <1>7, <2>1
<1>9. ASSUME NEW s \in Cb, vkCmdExecuteCommands(c, s) PROVE IInv'
    BY <1>3, <1>7, <1>9 DEF vkCmdExecuteCommands
<1>10. ASSUME vkQueueSubmit(c) PROVE IInv'
    <2> DEFINE P == Call("QueueSubmit", c, Work(app, c))
    <2>1. Hook(P, tk, mark_CommandBuffers(marks, {c}, tk.packets))
        BY <1>10 DEF vkQueueSubmit
    <2>2. Effect(app, P) = app
        BY DEF Effect, Call
    <2> HIDE DEF P
    <2> QED
        BY <1>1, <2>1, <2>2, HookInvariant
<1> QED
    BY <1>4, <1>5, <1>6, <1>8, <1>9, <1>10

\* Every step keeps the invariant.
LEMMA StepInvariant == IInv /\ [Next]_vars => IInv'
<1> SUFFICES ASSUME IInv, [Next]_vars PROVE IInv'
    OBVIOUS
<1>1. CASE UNCHANGED vars
    BY <1>1 DEF IInv, vars
<1>2. CASE start
    <2>1. mode # "post" /\ app' = app /\ opt' = opt
        BY <1>2 DEF start
    <2>2. Agree(app, tk, opt.mixed) /\ HasParts(tk)
        BY <2>1 DEF IInv, Agree
    <2>3. SameButCalls(tk', tk)
        <3>1. tk' = tk \/ tk' = delete_redundant_package(tk)
            BY <1>2 DEF start
        <3> QED
            BY <2>2, <3>1, TrackerCalls DEF SameButCalls, SameMem, SameCbs
    <2>4. Agree(app, tk', opt.mixed)
        BY <2>2, <2>3, SameAgrees
    <2> QED
        BY <2>1, <2>4 DEF IInv
<1>3. CASE stop
    BY <1>3 DEF stop, IInv
<1>4. CASE mode = "post"
    <2>1. \A p, t, m : ~Hook(p, t, m)
        BY <1>4 DEF Hook
    <2>2. ~start /\ ~stop
        BY <1>4 DEF start, stop
    <2> QED
        BY <1>1, <2>1, <2>2 DEF Next, vkAllocateMemory, vkMapMemory, vkUnmapMemory,
            vkFreeMemory, vkCreateBuffer, vkDestroyBuffer, vkBindBufferMemory,
            vkCreateCommandPool, vkDestroyCommandPool, vkResetCommandPool,
            vkAllocateCommandBuffers, vkFreeCommandBuffers, vkBeginCommandBuffer,
            vkEndCommandBuffer, vkResetCommandBuffer, vkQueueSubmit,
            vkCmdBindVertexBuffers, vkCmdExecuteCommands
<1>5. CASE mode # "post" /\ Next
    BY <1>2, <1>3, <1>5, ObjectsInvariant, PoolsInvariant, RecordingInvariant DEF Next
<1> QED
    BY <1>1, <1>4, <1>5

\* Until the range ends the tracker agrees with the application (StateTracker and the
\* interceptors that keep it), for any numbers of objects and any habits.
THEOREM Invariance == Spec => []IInv
<1>1. Init => IInv
    BY InitInvariant
<1>2. IInv /\ [Next]_vars => IInv'
    BY StepInvariant
<1> QED
    BY <1>1, <1>2, PTL DEF Spec

\* The tracker says what the application has, in whatever state start() or stop() reads it.
THEOREM TrackerIsRight == Spec => []TrackerAgrees
<1>1. IInv => TrackerAgrees
    BY DEF IInv, TrackerAgrees, Agree, MemAgrees, BufAgrees, PoolAgrees, CountsAgree
<1> QED
    BY <1>1, Invariance, PTL
=============================================================================
