------------------------------ MODULE PageGuard ------------------------------
(***************************************************************************)
(* Mapped memory in the tracing layer (vktrace_lib_pageguard*.cpp, Linux). *)
(*                                                                         *)
(* The application never gets the memory that vkMapMemory returns, the     *)
(* real memory.  It gets a shadow copy whose pages are read-only: the      *)
(* first store to a page raises SIGSEGV, whose handler marks the page as   *)
(* changed and makes it writable.  A flush, explicit or before a queue     *)
(* submission, takes the marked pages, makes them read-only again, copies  *)
(* them to the real memory and writes them to the trace.                   *)
(*                                                                         *)
(* A page has two parts: "host" counts the stores of the application,      *)
(* "dev" the writes of the device.  Every entry point and the handler hold *)
(* the semaphore map_lock_sem_id from beginning to end (pageguardEnter and *)
(* pageguardExit); only a store to a writable page needs nothing.          *)
(***************************************************************************)
EXTENDS Integers, Sequences, FiniteSets

CONSTANTS
    Mems,       \* the VkDeviceMemory objects that the application maps
    PageCount,  \* PageGuardAmount: the pages of each
    Threads,    \* the threads of the application
    Cached,     \* the memories of a type with HOST_CACHED
    AsMems,     \* the memories one of whose buffers backs an acceleration structure
    SyncBack,   \* VKTRACE_PAGEGUARD_ENABLE_SYNC_GPU_DATA_BACK is set
    Targets,    \* the memories that jobs write to
    Quiet,      \* the application makes no store while it submits
    RangeLists, \* the memories of the ranges that one explicit flush may name
    MaxStores,  \* bound on the stores of the application
    MaxDev,     \* bound on the writes of the device to one page
    NoThread,   \* nobody holds map_lock_sem_id
    NoMem       \* no memory is being handled

Pages == 1..PageCount
FlushStates == {"NoFlush", "ApiFlush", "InternalFlush"}
Page == [host : Nat, dev : Nat]
Contents == [Mems -> [Pages -> Page]]

ASSUME PagesAreCounted == PageCount \in Nat \ {0}
ASSUME KindsOfMemory ==
    IsFiniteSet(Mems) /\ Cached \subseteq Mems /\ AsMems \subseteq Mems /\ Targets \subseteq Mems
ASSUME RangesNameMemory == RangeLists \subseteq Seq(Mems) \ {<<>>}
ASSUME ModesAreFlags == SyncBack \in BOOLEAN /\ Quiet \in BOOLEAN
ASSUME BoundsAreCounts == MaxStores \in Nat /\ MaxDev \in Nat
ASSUME NobodyIsNobody == NoThread \notin Threads /\ NoMem \notin Mems

VARIABLES
    shadow,     \* pMappedData: what the application reads and writes
    real,       \* pRealMappedData: what the device reads and writes
    traced,     \* what the packets written so far make of the memory on replay
    mapped,     \* the memories in PageGuardCapture::MapMemory
    open,       \* the pages that are PROT_READ | PROT_WRITE
    active,     \* activeChangesArray: the pages marked as changed
    captured,   \* capturedChangesArray: the snapshot a flush works on
    package,    \* pChangedDataPackage: the changed pages, by page
    didFlush,   \* VKAllocInfo::didFlush
    holder,     \* the thread that has passed pageguardEnter
    pc,         \* where each thread is with a store of its own
    target,     \* the page of that store
    step,       \* how far the entry point of the holder is
    call,       \* which entry point that is
    cur,        \* the memory that it handles
    rest,       \* the changed pages of cur that it has still to copy
    todo,       \* the memories after cur, in order
    later,      \* flushAllChangedMappedMemory: cachedMemory
    noted,      \* the memories that the packet of an explicit flush has still to take in
    stores,     \* the stores made so far
    seen        \* the shadow memory when the last submission began (history)

lockVars == <<holder, step, call, cur, rest, todo, later, noted>>
threadVars == <<pc, target, stores>>
memVars == <<shadow, real, traced, mapped, open, active, captured, package, didFlush>>
vars == <<memVars, threadVars, lockVars, seen>>

Fresh == [host |-> 0, dev |-> 0]
Blank == [p \in Pages |-> Fresh]
Nothing == [p \in {} |-> Fresh]
NoTarget == <<NoMem, 0>>

Init ==
    /\ shadow = [m \in Mems |-> Blank]
    /\ real = shadow
    /\ traced = shadow
    /\ mapped = {}
    /\ open = [m \in Mems |-> {}]
    /\ active = [m \in Mems |-> {}]
    /\ captured = [m \in Mems |-> {}]
    /\ package = [m \in Mems |-> Nothing]
    /\ didFlush = [m \in Mems |-> "NoFlush"]
    /\ holder = NoThread
    /\ pc = [t \in Threads |-> "idle"]
    /\ target = [t \in Threads |-> NoTarget]
    /\ step = "none"
    /\ call = "none"
    /\ cur = NoMem
    /\ rest = {}
    /\ todo = <<>>
    /\ later = <<>>
    /\ noted = {}
    /\ stores = 0
    /\ seen = shadow

Idle(t) == pc[t] = "idle" /\ holder # t
Free == holder = NoThread

(* The contents c with the pages in the package g put in. *)
Patched(c, g) == [p \in Pages |-> IF p \in DOMAIN g THEN g[p] ELSE c[p]]

-----------------------------------------------------------------------------
(* The application's stores and the SIGSEGV handler. *)

(* A thread stores to a page of mapped memory.  It does not store to memory
   that another thread is unmapping: that is the application's to avoid. *)
MayStore(t, m, p) ==
    \/ Idle(t) /\ m \in mapped /\ stores < MaxStores
       /\ ~(call \in {"unmap", "free"} /\ cur = m)
       /\ ~(Quiet /\ call = "submit")
    \/ pc[t] = "retry" /\ target[t] = <<m, p>>

Store(t, m, p) ==
    /\ MayStore(t, m, p)
    /\ p \in open[m]
    /\ shadow' = [shadow EXCEPT ![m][p].host = @ + 1]
    /\ stores' = stores + 1
    /\ pc' = [pc EXCEPT ![t] = "idle"]
    /\ target' = [target EXCEPT ![t] = NoTarget]
    /\ UNCHANGED <<real, traced, mapped, open, active, captured, package, didFlush,
                   lockVars, seen>>

Fault(t, m, p) ==
    /\ MayStore(t, m, p)
    /\ p \notin open[m]
    /\ pc' = [pc EXCEPT ![t] = "fault"]
    /\ target' = [target EXCEPT ![t] = <<m, p>>]
    /\ UNCHANGED <<memVars, lockVars, stores, seen>>

(* PageGuardExceptionHandler: pageguardEnter. *)
HandlerEnter(t) ==
    /\ pc[t] = "fault"
    /\ Free
    /\ holder' = t
    /\ pc' = [pc EXCEPT ![t] = "mark"]
    /\ UNCHANGED <<memVars, target, stores, step, call, cur, rest, todo, later, noted, seen>>

(* Mutant of HandlerMark: the bit of the next page is set. *)
HandlerMarkNext(t) ==
    /\ pc[t] = "mark"
    /\ active' = [active EXCEPT ![target[t][1]] = @ \cup {target[t][2] + 1}]
    /\ pc' = [pc EXCEPT ![t] = "unprotect"]
    /\ UNCHANGED <<shadow, real, traced, mapped, open, captured, package, didFlush,
                   target, stores, lockVars, seen>>

(* PageGuardExceptionHandler: setMappedBlockChanged(index, true, BLOCK_FLAG_ARRAY_CHANGED). *)
HandlerMark(t) ==
    /\ pc[t] = "mark"
    /\ active' = [active EXCEPT ![target[t][1]] = @ \cup {target[t][2]}]
    /\ pc' = [pc EXCEPT ![t] = "unprotect"]
    /\ UNCHANGED <<shadow, real, traced, mapped, open, captured, package, didFlush,
                   target, stores, lockVars, seen>>

(* Mutant of HandlerUnprotect: the page is left read-only. *)
HandlerNotUnprotect(t) ==
    /\ pc[t] = "unprotect"
    /\ holder' = NoThread
    /\ pc' = [pc EXCEPT ![t] = "retry"]
    /\ UNCHANGED <<memVars, target, stores, step, call, cur, rest, todo, later, noted, seen>>

(* PageGuardExceptionHandler: mprotect and pageguardExit; the store is tried again. *)
HandlerUnprotect(t) ==
    /\ pc[t] = "unprotect"
    /\ open' = [open EXCEPT ![target[t][1]] = @ \cup {target[t][2]}]
    /\ holder' = NoThread
    /\ pc' = [pc EXCEPT ![t] = "retry"]
    /\ UNCHANGED <<shadow, real, traced, mapped, active, captured, package, didFlush,
                   target, stores, step, call, cur, rest, todo, later, noted, seen>>

-----------------------------------------------------------------------------
(* Entering and leaving an entry point. *)

(* An entry point takes map_lock_sem_id. *)
Enter(t, name) ==
    /\ Free
    /\ Idle(t)
    /\ holder' = t
    /\ call' = name

(* pageguardExit. *)
Exit ==
    /\ holder' = NoThread
    /\ step' = "none"
    /\ call' = "none"
    /\ cur' = NoMem
    /\ rest' = {}
    /\ todo' = <<>>
    /\ later' = <<>>
    /\ noted' = {}

(* __HOOKED_vkMapMemory, vkMapMemoryPageGuardHandle: the shadow memory is made
   and filled, and its pages are protected, before the application knows of it. *)
MapMemory(t, m) ==
    /\ Free
    /\ Idle(t)
    /\ m \notin mapped
    /\ mapped' = mapped \cup {m}
    /\ shadow' = [shadow EXCEPT ![m] = real[m]]
    /\ open' = [open EXCEPT ![m] = {}]
    /\ active' = [active EXCEPT ![m] = {}]
    /\ captured' = [captured EXCEPT ![m] = {}]
    /\ UNCHANGED <<real, traced, package, didFlush, threadVars, lockVars, seen>>

(* __HOOKED_vkFlushMappedMemoryRanges is called. *)
FlushRanges(t, ranges) ==
    /\ Enter(t, "flush")
    /\ \A i \in 1..Len(ranges) : ranges[i] \in mapped
    /\ step' = "swap"
    /\ cur' = Head(ranges)
    /\ todo' = Tail(ranges)
    /\ noted' = {ranges[i] : i \in 1..Len(ranges)}
    /\ UNCHANGED <<memVars, threadVars, rest, later, seen>>

(* __HOOKED_vkQueueSubmit is called: flushAllChangedMappedMemory goes through the
   mapped memories in the order of a hash table. *)
QueueSubmit(t) ==
    /\ Enter(t, "submit")
    /\ Quiet => \A u \in Threads : target[u] = NoTarget
    /\ \E order \in [1..Cardinality(mapped) -> mapped] :
        /\ {order[i] : i \in 1..Cardinality(mapped)} = mapped
        /\ todo' = order
    /\ step' = "choose"
    /\ seen' = shadow
    /\ UNCHANGED <<memVars, threadVars, cur, rest, later, noted>>

(* flushTargetChangedMappedMemory finds some buffer of the memory, in the order of a
   hash table: if it is an acceleration structure's, the memory is not flushed. *)
Skipping(m, next) == IF m \in AsMems THEN {next} ELSE {}

(* Mutant of ReleaseMemory: the shadow memory goes without a flush. *)
ReleaseUnflushed(t, m, name) ==
    /\ Enter(t, name)
    /\ m \in mapped
    /\ \A u \in Threads : target[u][1] # m
    /\ step' = "drop"
    /\ cur' = m
    /\ UNCHANGED <<memVars, threadVars, rest, todo, later, noted, seen>>

(* __HOOKED_vkUnmapMemory is called, or __HOOKED_vkFreeMemory for mapped memory;
   no thread of the application is using the memory any more. *)
ReleaseMemory(t, m, name) ==
    /\ Enter(t, name)
    /\ m \in mapped
    /\ \A u \in Threads : target[u][1] # m
    /\ step' \in {"swap"} \cup Skipping(m, "drop")
    /\ cur' = m
    /\ UNCHANGED <<memVars, threadVars, rest, todo, later, noted, seen>>

-----------------------------------------------------------------------------
(* The flush of one memory: vkFlushMappedMemoryRangePageGuardHandle. *)

(* Mutant of Swap: the old snapshot is not handed on, its pages are forgotten. *)
SwapForgets ==
    /\ step = "swap"
    /\ active' = [active EXCEPT ![cur] = {}]
    /\ captured' = [captured EXCEPT ![cur] = active[cur]]
    /\ rest' = active[cur]
    /\ package' = [package EXCEPT ![cur] = Nothing]
    /\ step' = IF active[cur] = {} THEN "back" ELSE "protect"
    /\ UNCHANGED <<shadow, real, traced, mapped, open, didFlush, threadVars,
                   holder, call, cur, todo, later, noted, seen>>

(* backupBlockChangedArraySnapshot: the two arrays change places. *)
Swap ==
    /\ step = "swap"
    /\ active' = [active EXCEPT ![cur] = captured[cur]]
    /\ captured' = [captured EXCEPT ![cur] = active[cur]]
    /\ rest' = active[cur]
    /\ package' = [package EXCEPT ![cur] = Nothing]
    /\ step' = IF active[cur] = {} THEN "back" ELSE "protect"
    /\ UNCHANGED <<shadow, real, traced, mapped, open, didFlush, threadVars,
                   holder, call, cur, todo, later, noted, seen>>

(* Mutant of Protect: the page stays writable until the packet is written. *)
ProtectLate ==
    /\ step = "protect"
    /\ step' = "copy"
    /\ UNCHANGED <<memVars, threadVars, holder, call, cur, rest, todo, later, noted, seen>>

(* getChangedBlockInfo: writes to the next changed page are disabled ... *)
Protect ==
    /\ step = "protect"
    /\ \E p \in rest :
        /\ \A q \in rest : p <= q
        /\ open' = [open EXCEPT ![cur] = @ \ {p}]
    /\ step' = "copy"
    /\ UNCHANGED <<shadow, real, traced, mapped, active, captured, package, didFlush,
                   threadVars, holder, call, cur, rest, todo, later, noted, seen>>

(* ... before it is copied to the package. *)
Copy ==
    /\ step = "copy"
    /\ \E p \in rest :
        /\ \A q \in rest : p <= q
        /\ package' = [package EXCEPT ![cur] =
                [q \in DOMAIN package[cur] \cup {p} |->
                    IF q = p THEN shadow[cur][p] ELSE package[cur][q]]]
        /\ rest' = rest \ {p}
        /\ step' = IF rest = {p} THEN "back" ELSE "protect"
    /\ UNCHANGED <<shadow, real, traced, mapped, open, active, captured, didFlush,
                   threadVars, holder, call, cur, todo, later, noted, seen>>

(* The package is copied to the real memory.  vkFlushMappedMemoryRanges flushes all
   its ranges before it writes any of them to the trace. *)
CopyBack ==
    /\ step = "back"
    /\ real' = [real EXCEPT ![cur] = Patched(@, package[cur])]
    /\ IF call = "flush" /\ todo # <<>>
       THEN step' = "swap" /\ cur' = Head(todo) /\ todo' = Tail(todo)
       ELSE step' = "record" /\ UNCHANGED <<cur, todo>>
    /\ UNCHANGED <<shadow, traced, mapped, open, active, captured, package, didFlush,
                   threadVars, holder, call, rest, later, noted, seen>>

(* What a memory's packet does: it puts the package in the trace, and then
   resetMemoryObjectAllChangedFlagAndPageGuard protects the pages of the snapshot
   and clears it. *)
WritePacket(m) ==
    /\ traced' = [traced EXCEPT ![m] = Patched(@, package[m])]
    /\ open' = [open EXCEPT ![m] = @ \ captured[m]]
    /\ captured' = [captured EXCEPT ![m] = {}]
    /\ package' = [package EXCEPT ![m] = Nothing]

(* __HOOKED_vkFlushMappedMemoryRanges writes its packet: each memory once, however
   many ranges name it, and in an order that makes no difference to the packet. *)
RecordRanges ==
    /\ step = "record"
    /\ call = "flush"
    /\ \E m \in noted :
        /\ WritePacket(m)
        /\ didFlush' = [didFlush EXCEPT ![m] = "ApiFlush"]
        /\ IF noted = {m} THEN Exit
           ELSE noted' = noted \ {m} /\ UNCHANGED <<holder, step, call, cur, rest, todo, later>>
    /\ UNCHANGED <<shadow, real, mapped, active, threadVars, seen>>

(* flushAllChangedMappedMemory puts this memory off until the others are flushed. *)
Deferred(m) == m \in Cached /\ didFlush[m] = "ApiFlush"

(* vkFlushMappedMemoryRangesWithoutAPICall writes the packet of one memory.  A
   memory that was put off is given back its first flush state afterwards. *)
RecordOne ==
    /\ step = "record"
    /\ call # "flush"
    /\ WritePacket(cur)
    /\ didFlush' = [didFlush EXCEPT ![cur] =
                        IF call = "submit" /\ Deferred(cur) THEN "NoFlush" ELSE "InternalFlush"]
    /\ step' = IF call = "submit" THEN "choose" ELSE "drop"
    /\ cur' = IF call = "submit" THEN NoMem ELSE cur
    /\ UNCHANGED <<shadow, real, mapped, active, threadVars,
                   holder, call, rest, todo, later, noted, seen>>

-----------------------------------------------------------------------------
(* A submission: flushAllChangedMappedMemory, the job, the data that comes back. *)

(* Mutant of ChooseNow: a memory that is put off is not noted. *)
ChooseNowForgets ==
    /\ step = "choose"
    /\ todo # <<>>
    /\ todo' = Tail(todo)
    /\ LET m == Head(todo)
       IN  IF Deferred(m) THEN UNCHANGED <<cur, step>>
           ELSE /\ step' \in {"swap"} \cup Skipping(m, "choose")
                /\ cur' = IF step' = "swap" THEN m ELSE cur
    /\ UNCHANGED <<memVars, threadVars, holder, call, rest, later, noted, seen>>

(* The next memory of the first loop: it is put off, skipped by
   flushTargetChangedMappedMemory (isAsMemory), or flushed. *)
ChooseNow ==
    /\ step = "choose"
    /\ todo # <<>>
    /\ todo' = Tail(todo)
    /\ LET m == Head(todo)
       IN  IF Deferred(m)
           THEN later' = Append(later, m) /\ UNCHANGED <<cur, step>>
           ELSE /\ UNCHANGED later
                /\ step' \in {"swap"} \cup Skipping(m, "choose")
                /\ cur' = IF step' = "swap" THEN m ELSE cur
    /\ UNCHANGED <<memVars, threadVars, holder, call, rest, noted, seen>>

(* The next memory of the second loop. *)
ChooseLater ==
    /\ step = "choose"
    /\ todo = <<>>
    /\ later # <<>>
    /\ later' = Tail(later)
    /\ LET m == Head(later)
       IN  /\ step' \in {"swap"} \cup Skipping(m, "choose")
           /\ IF step' = "swap"
              THEN cur' = m /\ UNCHANGED didFlush
              ELSE didFlush' = [didFlush EXCEPT ![m] = "NoFlush"] /\ UNCHANGED cur
    /\ UNCHANGED <<shadow, real, traced, mapped, open, active, captured, package,
                   threadVars, holder, call, rest, todo, noted, seen>>

FlushedAll ==
    /\ step = "choose"
    /\ todo = <<>>
    /\ later = <<>>
    /\ step' = "run"
    /\ UNCHANGED <<memVars, threadVars, holder, call, cur, rest, todo, later, noted, seen>>

(* The contents c after the device has written the pages w of the memory m. *)
DeviceWrites(c, m, w) ==
    [c EXCEPT ![m] = [p \in Pages |->
        IF p \in w THEN [c[m][p] EXCEPT !.dev = @ + 1] ELSE c[m][p]]]

(* Mutant of RunJob: the memory that the device wrote is not copied back. *)
RunJobOnly ==
    /\ step = "run"
    /\ \E m \in Targets : \E written \in SUBSET Pages :
        /\ \A p \in written : real[m][p].dev < MaxDev
        /\ real' = DeviceWrites(real, m, written)
        /\ traced' = DeviceWrites(traced, m, written)
    /\ Exit
    /\ seen' = [m \in Mems |-> Blank]
    /\ UNCHANGED <<shadow, mapped, open, active, captured, package, didFlush,
                   threadVars>>

(* The device runs the job, now and on replay: it writes some pages.  With SyncBack
   and mapped destinations the layer waits for the queue and copies the memory back. *)
RunJob ==
    /\ step = "run"
    /\ \E m \in Mems : \E written \in SUBSET Pages :
        /\ written # {} => m \in Targets
        /\ \A p \in written : real[m][p].dev < MaxDev
        /\ real' = DeviceWrites(real, m, written)
        /\ traced' = DeviceWrites(traced, m, written)
        /\ IF SyncBack /\ written # {} /\ m \in mapped
           THEN step' = "syncOpen" /\ cur' = m
                /\ UNCHANGED <<holder, call, rest, todo, later, noted>>
           ELSE Exit
    /\ seen' = [m \in Mems |-> Blank]
    /\ UNCHANGED <<shadow, mapped, open, active, captured, package, didFlush,
                   threadVars>>

(* SyncRealMappedMemoryToMemoryCopyHandle: setAllPageGuardAndFlag(false, isBlockChanged). *)
SyncOpen ==
    /\ step = "syncOpen"
    /\ open' = [open EXCEPT ![cur] = Pages]
    /\ active' = [active EXCEPT ![cur] = IF @ = {} THEN {} ELSE Pages]
    /\ step' = "syncCopy"
    /\ UNCHANGED <<shadow, real, traced, mapped, captured, package, didFlush, threadVars,
                   holder, call, cur, rest, todo, later, noted, seen>>

(* Mutant of SyncCopy: the first page is left out. *)
SyncCopyFromTwo ==
    /\ step = "syncCopy"
    /\ open[cur] = Pages
    /\ shadow' = [shadow EXCEPT ![cur] = [real[cur] EXCEPT ![1] = shadow[cur][1]]]
    /\ step' = "syncClose"
    /\ UNCHANGED <<real, traced, mapped, open, active, captured, package, didFlush,
                   threadVars, holder, call, cur, rest, todo, later, noted, seen>>

(* SyncRealMappedMemoryToMemoryCopyHandle: the copy, by the thread that holds the
   lock; a page that is still protected would make it wait for itself. *)
SyncCopy ==
    /\ step = "syncCopy"
    /\ open[cur] = Pages
    /\ shadow' = [shadow EXCEPT ![cur] = real[cur]]
    /\ step' = "syncClose"
    /\ UNCHANGED <<real, traced, mapped, open, active, captured, package, didFlush,
                   threadVars, holder, call, cur, rest, todo, later, noted, seen>>

(* Mutant of SyncClose: the pages stay writable. *)
SyncLeaveOpen ==
    /\ step = "syncClose"
    /\ Exit
    /\ UNCHANGED <<memVars, threadVars, seen>>

(* SyncRealMappedMemoryToMemoryCopyHandle: setAllPageGuardAndFlag(true, isBlockChanged),
   with the value that was read before the pages were opened. *)
SyncClose ==
    /\ step = "syncClose"
    /\ open' = [open EXCEPT ![cur] = {}]
    /\ Exit
    /\ UNCHANGED <<shadow, real, traced, mapped, active, captured, package, didFlush,
                   threadVars, seen>>

(* The end of __HOOKED_vkUnmapMemory and __HOOKED_vkFreeMemory: the shadow memory is
   gone.  The packet of vkUnmapMemory holds all of it when nothing was ever flushed.
   Freed memory is forgotten (rm_handle_from_mem_info) and allocated anew. *)
Drop ==
    /\ step = "drop"
    /\ mapped' = mapped \ {cur}
    /\ open' = [open EXCEPT ![cur] = {}]
    /\ active' = [active EXCEPT ![cur] = {}]
    /\ captured' = [captured EXCEPT ![cur] = {}]
    /\ shadow' = [shadow EXCEPT ![cur] = Blank]
    /\ IF call = "free"
       THEN /\ real' = [real EXCEPT ![cur] = Blank]
            /\ traced' = [traced EXCEPT ![cur] = Blank]
            /\ didFlush' = [didFlush EXCEPT ![cur] = "NoFlush"]
       ELSE /\ traced' = IF didFlush[cur] = "NoFlush"
                         THEN [traced EXCEPT ![cur] = shadow[cur]] ELSE traced
            /\ UNCHANGED <<real, didFlush>>
    /\ Exit
    /\ UNCHANGED <<package, threadVars, seen>>

-----------------------------------------------------------------------------
(* A step of the thread that holds the lock. *)
HolderStep ==
    \/ Swap \/ Protect \/ Copy \/ CopyBack \/ RecordRanges \/ RecordOne
    \/ ChooseNow \/ ChooseLater \/ FlushedAll \/ RunJob
    \/ SyncOpen \/ SyncCopy \/ SyncClose \/ Drop

StoreStep(t) == \E m \in Mems, p \in Pages : Store(t, m, p)
FaultStep(t) == \E m \in Mems, p \in Pages : Fault(t, m, p)
HandlerStep(t) == HandlerMark(t) \/ HandlerUnprotect(t)

(* A thread of the application calls an entry point. *)
CallStep(t) ==
    \/ \E m \in Mems : MapMemory(t, m)
    \/ \E ranges \in RangeLists : FlushRanges(t, ranges)
    \/ QueueSubmit(t)
    \/ \E m \in Mems : ReleaseMemory(t, m, "unmap") \/ ReleaseMemory(t, m, "free")

Next ==
    \/ HolderStep
    \/ \E t \in Threads : \/ StoreStep(t) \/ FaultStep(t)
                          \/ HandlerEnter(t) \/ HandlerStep(t)
                          \/ CallStep(t)

Spec == Init /\ [][Next]_vars

(* The holder is never stopped, a semaphore is passed on to a thread that keeps
   asking, and a store that keeps finding its page writable is made. *)
Fairness ==
    /\ WF_vars(HolderStep)
    /\ \A t \in Threads :
        /\ WF_vars(HandlerStep(t))
        /\ SF_vars(HandlerEnter(t))
        /\ WF_vars(pc[t] = "retry" /\ FaultStep(t))
        /\ SF_vars(pc[t] = "retry" /\ StoreStep(t))

FairSpec == Spec /\ Fairness
=============================================================================
