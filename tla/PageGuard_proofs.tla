-------------------------- MODULE PageGuard_proofs --------------------------
(***************************************************************************)
(* Proofs about the page guard, for all memories, numbers of pages and     *)
(* threads, whatever the application maps, stores, flushes, submits and    *)
(* frees: no store is lost, a job and the replay see what they should, and *)
(* the data that comes back from the device is what the device wrote.      *)
(***************************************************************************)
EXTENDS PageGuardProps, TLAPS, FiniteSetTheorems, SequenceTheorems

Copying == {"protect", "copy"}
Syncing == {"syncOpen", "syncCopy", "syncClose"}

\* The layer does not copy memory back, or it does so while the application makes no store.
Gentle == ~SyncBack \/ Quiet

\* A thread in the handler holds the lock, and no entry point is under way; the page
\* of a store that faulted is known, and marked before it is made writable.
HandlerInv ==
    \A t \in Threads :
        /\ pc[t] # "idle" => target[t] \in Mems \X Pages
        /\ pc[t] \in {"mark", "unprotect"} => holder = t /\ step = "none"
        /\ pc[t] = "unprotect" => target[t][2] \in active[target[t][1]]

\* Where the holder is tells which memory it handles and that some page is left to copy.
HolderInv ==
    /\ Free => step = "none"
    /\ step \in {"swap", "protect", "copy", "back", "record", "drop"} \cup Syncing => cur \in Mems
    /\ step \notin Copying => rest = {}

\* An entry point goes only through its own steps; what is synchronised, unmapped or freed
\* is mapped.
CallInv ==
    /\ step = "none" <=> call = "none"
    /\ step \in {"choose", "run"} \cup Syncing => call = "submit"
    /\ step = "drop" => call \in {"unmap", "free"}
    /\ step \in Syncing => SyncBack /\ cur \in mapped /\ cur \in Targets
    /\ call \in {"unmap", "free"} => cur \in mapped

\* A thread with a store to make makes it to mapped memory that nobody unmaps, and a quiet
\* application has none while it submits.
UsersInv ==
    /\ \A t \in Threads : pc[t] = "idle" <=> target[t] = NoTarget
    /\ \A t \in Threads : pc[t] # "idle" => target[t][1] \in mapped
    /\ call \in {"unmap", "free"} => \A t \in Threads : target[t][1] # cur
    /\ Quiet /\ call = "submit" => \A t \in Threads : target[t] = NoTarget

\* A writable page is marked, unless the flush under way has still to protect it or the
\* layer has opened it to fill it; the page that is being copied is protected.
OpenInv ==
    /\ \A m \in Mems : \A p \in open[m] :
            \/ p \in active[m]
            \/ cur = m /\ step \in Copying /\ p \in rest
            \/ cur = m /\ step \in {"syncCopy", "syncClose"}
    /\ step = "copy" => \A p \in rest : (\A q \in rest : p <= q) => p \notin open[cur]

\* A page in the package is as the application sees it, or will be copied again.
PackageInv ==
    step \in Copying \cup {"back"} =>
        \A p \in DOMAIN package[cur] :
            \/ package[cur][p].host = shadow[cur][p].host
            \/ p \in active[cur] \cup rest

\* The inductive invariant.
IInv ==
    /\ TypeOK /\ HandlerInv /\ HolderInv /\ CallInv /\ UsersInv /\ OpenInv /\ PackageInv
    /\ Gentle => NoWriteLost

\* The part of it that the steps of an entry point disturb.
Core == TypeOK /\ HandlerInv /\ HolderInv /\ OpenInv /\ PackageInv /\ (Gentle => NoWriteLost)

-----------------------------------------------------------------------------
(* Contents of memory.                                                     *)

\* One page of one memory may be given any other contents.
LEMMA PageReplaced ==
    ASSUME NEW c \in Contents, NEW m \in Mems, NEW p \in Pages, NEW r \in Page
    PROVE  [c EXCEPT ![m][p] = r] \in Contents
BY DEF Contents

\* So may all the pages of one memory.
LEMMA MemoryReplaced ==
    ASSUME NEW c \in Contents, NEW m \in Mems, NEW d \in [Pages -> Page]
    PROVE  [c EXCEPT ![m] = d] \in Contents
BY DEF Contents

\* A page of the contents of memory is a page.
LEMMA PageType ==
    ASSUME NEW c \in Contents, NEW m \in Mems, NEW p \in Pages
    PROVE  c[m] \in [Pages -> Page] /\ c[m][p] \in Page
BY DEF Contents

\* Another store, another write of the device.
LEMMA PageCounts ==
    ASSUME NEW r \in Page
    PROVE  /\ [r EXCEPT !.host = @ + 1] \in Page
           /\ [r EXCEPT !.dev = @ + 1] \in Page
           /\ [r EXCEPT !.dev = @ + 1].host = r.host
BY DEF Page

\* Putting a package in.
LEMMA PatchedType ==
    ASSUME NEW d \in [Pages -> Page], NEW D \in SUBSET Pages, NEW g \in [D -> Page]
    PROVE  Patched(d, g) \in [Pages -> Page]
BY DEF Patched

-----------------------------------------------------------------------------
(* The application's stores and the handler.                               *)

\* A store only changes a page that is writable, and such a page is marked.
LEMMA StoreKeeps ==
    ASSUME IInv, NEW t \in Threads, NEW m \in Mems, NEW p \in Pages, Store(t, m, p)
    PROVE  Core'
<1> DEFINE r == [shadow[m][p] EXCEPT !.host = @ + 1]
<1>1. shadow \in Contents
    BY DEF IInv, TypeOK
<1>2. shadow' = [shadow EXCEPT ![m][p] = r] /\ p \in open[m]
    BY DEF Store
<1>3. r \in Page
    BY <1>1, PageType, PageCounts
<1> HIDE DEF r
<1>4. \A n \in Mems, q \in Pages : n # m \/ q # p => shadow'[n][q] = shadow[n][q]
    BY <1>1, <1>2 DEF Contents
<1>5. \/ p \in active[m]
      \/ cur = m /\ step \in Copying /\ p \in rest
      \/ step \in {"syncCopy", "syncClose"}
    BY <1>2 DEF IInv, OpenInv
<1>12. Gentle => step \notin Syncing
    <2> SUFFICES ASSUME Gentle, step \in Syncing PROVE FALSE
        OBVIOUS
    <2>1. Quiet /\ call = "submit"
        BY DEF Gentle, IInv, CallInv
    <2>2. target[t] = NoTarget /\ pc[t] = "idle"
        BY <2>1 DEF IInv, UsersInv
    <2> QED BY <2>1, <2>2 DEF Store, MayStore
<1>6. TypeOK'
    <2>1. shadow' \in Contents
        BY <1>1, <1>2, <1>3, PageReplaced
    <2> QED BY <2>1 DEF IInv, TypeOK, Store, lockVars
<1>7. HandlerInv'
    BY DEF Store, IInv, TypeOK, HandlerInv, lockVars
<1>8. HolderInv' /\ OpenInv'
    BY DEF Store, IInv, HolderInv, OpenInv, Free, lockVars
<1>9. UNCHANGED <<real, mapped, active, package, step, cur, rest>>
    BY DEF Store, lockVars
<1>10. PackageInv'
    <2> SUFFICES ASSUME step \in Copying \cup {"back"},
                        NEW q \in DOMAIN package[cur], q \notin active[cur] \cup rest
                 PROVE  package[cur][q].host = shadow'[cur][q].host
        BY <1>9 DEF PackageInv
    <2>1. cur \in Mems /\ q \in Pages
        BY DEF IInv, TypeOK, HolderInv, Copying
    <2>2. package[cur][q].host = shadow[cur][q].host
        BY DEF IInv, PackageInv
    <2> QED BY <1>4, <1>5, <2>1, <2>2 DEF Copying
<1>11. Gentle => NoWriteLost'
    <2> SUFFICES ASSUME Gentle, NEW n \in mapped, NEW q \in Pages,
                        shadow'[n][q].host # real[n][q].host,
                        n # m \/ q # p
                 PROVE  q \in OnTheWay(n)'
        BY <1>5, <1>9, <1>12 DEF NoWriteLost, OnTheWay, Copying, Syncing
    <2>1. n \in Mems
        BY DEF IInv, TypeOK
    <2>2. shadow'[n][q] = shadow[n][q]
        BY <1>4, <2>1
    <2>3. q \in OnTheWay(n)
        BY <2>2 DEF IInv, NoWriteLost
    <2> QED BY <1>9, <2>2, <2>3 DEF OnTheWay
<1> QED BY <1>6, <1>7, <1>8, <1>10, <1>11 DEF Core, Gentle

\* A fault changes nothing but where its thread is.
LEMMA FaultKeeps ==
    ASSUME IInv, NEW t \in Threads, NEW m \in Mems, NEW p \in Pages, Fault(t, m, p)
    PROVE  Core'
<1> USE DEF Fault, IInv, Core, Gentle, lockVars, memVars
<1>1. TypeOK'
    BY DEF TypeOK
<1>2. HandlerInv'
    BY DEF TypeOK, HandlerInv
<1>3. HolderInv' /\ OpenInv' /\ PackageInv' /\ (Gentle => NoWriteLost')
    BY DEF HolderInv, OpenInv, PackageInv, NoWriteLost, OnTheWay, Free
<1> QED BY <1>1, <1>2, <1>3

\* The handler gets the lock when no entry point is under way.
LEMMA HandlerEnterKeeps ==
    ASSUME IInv, NEW t \in Threads, HandlerEnter(t)
    PROVE  Core'
<1> USE DEF HandlerEnter, IInv, Core, Gentle, memVars, Free
<1>1. TypeOK'
    BY DEF TypeOK
<1>2. HandlerInv'
    BY NobodyIsNobody DEF TypeOK, HandlerInv, HolderInv
<1>3. HolderInv' /\ OpenInv' /\ PackageInv' /\ (Gentle => NoWriteLost')
    BY NobodyIsNobody DEF HolderInv, OpenInv, PackageInv, NoWriteLost, OnTheWay
<1> QED BY <1>1, <1>2, <1>3

\* The page is marked before it is made writable ...
LEMMA HandlerMarkKeeps ==
    ASSUME IInv, NEW t \in Threads, HandlerMark(t)
    PROVE  Core'
<1> USE DEF HandlerMark, IInv, Core, Gentle, lockVars
<1>1. target[t] \in Mems \X Pages
    BY DEF HandlerInv
<1>2. \A m \in Mems : active[m] \subseteq active'[m]
    BY <1>1 DEF TypeOK
<1>3. TypeOK'
    BY <1>1 DEF TypeOK
<1>4. HandlerInv'
    BY <1>1 DEF TypeOK, HandlerInv
<1>5. HolderInv' /\ OpenInv'
    BY <1>2 DEF HolderInv, OpenInv, Free
<1>6. PackageInv'
    BY <1>2 DEF HolderInv, PackageInv, Copying
<1>7. Gentle => NoWriteLost'
    BY <1>2 DEF TypeOK, NoWriteLost, OnTheWay
<1> QED BY <1>3, <1>4, <1>5, <1>6, <1>7

\* ... and is still marked then.
LEMMA HandlerUnprotectKeeps ==
    ASSUME IInv, NEW t \in Threads, HandlerUnprotect(t)
    PROVE  Core'
<1> USE DEF HandlerUnprotect, IInv, Core, Gentle
<1>1. /\ target[t] \in Mems \X Pages
      /\ step = "none"
      /\ target[t][2] \in active[target[t][1]]
    BY DEF HandlerInv
<1>2. TypeOK'
    BY <1>1 DEF TypeOK
<1>3. HandlerInv'
    BY <1>1 DEF TypeOK, HandlerInv
<1>4. HolderInv' /\ OpenInv'
    BY <1>1 DEF TypeOK, HolderInv, OpenInv, Copying, Free
<1>5. PackageInv' /\ (Gentle => NoWriteLost')
    BY <1>1 DEF PackageInv, NoWriteLost, OnTheWay, Copying
<1> QED BY <1>2, <1>3, <1>4, <1>5
-----------------------------------------------------------------------------
(* Calling an entry point.                                                 *)

\* Mapping makes a shadow memory that agrees with the real one and is protected.
LEMMA MapMemoryKeeps ==
    ASSUME IInv, NEW t \in Threads, NEW m \in Mems, MapMemory(t, m)
    PROVE  Core'
<1>1. shadow \in Contents /\ real \in Contents
    BY DEF IInv, TypeOK
<1>2. step = "none" /\ shadow' = [shadow EXCEPT ![m] = real[m]]
    BY DEF IInv, HolderInv, MapMemory
<1>3. TypeOK'
    <2>1. shadow' \in Contents
        BY <1>1, <1>2, MemoryReplaced DEF Contents
    <2> QED BY <2>1 DEF IInv, TypeOK, MapMemory, lockVars, threadVars
<1>4. HandlerInv'
    BY NobodyIsNobody DEF MapMemory, IInv, TypeOK, HandlerInv, lockVars, threadVars, Free
<1>5. HolderInv' /\ OpenInv' /\ PackageInv'
    BY <1>2 DEF MapMemory, IInv, TypeOK, HolderInv, OpenInv, PackageInv, Free, lockVars, Copying
<1>6. Gentle => NoWriteLost'
    <2> SUFFICES ASSUME Gentle, NEW n \in mapped', NEW q \in Pages,
                        shadow'[n][q].host # real[n][q].host
                 PROVE  q \in active'[n]
        BY <1>2 DEF MapMemory, NoWriteLost, OnTheWay, lockVars
    <2>1. n \in mapped /\ n # m /\ n \in Mems
        BY <1>1, <1>2 DEF MapMemory, IInv, TypeOK, Contents
    <2>2. q \in OnTheWay(n)
        BY <1>1, <1>2, <2>1 DEF IInv, NoWriteLost, Contents
    <2> QED BY <1>2, <2>1, <2>2 DEF OnTheWay, MapMemory, IInv, TypeOK
<1> QED BY <1>3, <1>4, <1>5, <1>6 DEF Core, Gentle

\* What an entry point needs on its way in: it changes nothing but the holder's state.
LEMMA EnterKeeps ==
    ASSUME IInv, NEW t \in Threads, Free, Idle(t), holder' = t,
           UNCHANGED <<memVars, threadVars, rest>>,
           step' \in {"swap", "choose", "drop"}, step' # "choose" => cur' \in Mems,
           TypeOK'
    PROVE  Core'
<1>1. step = "none" /\ rest = {}
    BY DEF IInv, HolderInv, Copying
<1>2. HandlerInv'
    BY NobodyIsNobody DEF IInv, TypeOK, HandlerInv, Free, memVars, threadVars
<1>3. HolderInv' /\ OpenInv' /\ PackageInv'
    BY <1>1, NobodyIsNobody
       DEF IInv, HolderInv, OpenInv, PackageInv, Free, Copying, Syncing, memVars
<1>4. Gentle => NoWriteLost'
    BY <1>1 DEF IInv, NoWriteLost, OnTheWay, memVars
<1> QED BY <1>2, <1>3, <1>4 DEF Core, Gentle

\* vkFlushMappedMemoryRanges begins with the first of its ranges.
LEMMA FlushRangesKeeps ==
    ASSUME IInv, NEW t \in Threads, NEW ranges \in RangeLists, FlushRanges(t, ranges)
    PROVE  Core'
<1>1. ranges \in Seq(Mems) /\ ranges # <<>>
    BY RangesNameMemory
<1>2. Head(ranges) \in Mems /\ Tail(ranges) \in Seq(Mems)
    BY <1>1
<1>3. {ranges[i] : i \in 1..Len(ranges)} \in SUBSET Mems
    BY <1>1
<1>4. TypeOK'
    BY <1>2, <1>3 DEF FlushRanges, Enter, IInv, TypeOK, memVars, threadVars
<1> QED BY <1>2, <1>4, EnterKeeps DEF FlushRanges, Enter

\* vkQueueSubmit begins with any mapped memory, or has nothing to flush.
LEMMA QueueSubmitKeeps ==
    ASSUME IInv, NEW t \in Threads, QueueSubmit(t)
    PROVE  Core'
<1>1. mapped \in SUBSET Mems /\ Cardinality(mapped) \in Nat
    BY KindsOfMemory, FS_Subset, FS_CardinalityType DEF IInv, TypeOK
<1>2. todo' \in Seq(Mems)
    <2> DEFINE n == Cardinality(mapped)
    <2>1. PICK order \in [1..n -> mapped] : todo' = order
        BY DEF QueueSubmit
    <2>2. order \in Seq(mapped)
        BY <1>1
    <2> QED BY <1>1, <2>1, <2>2
<1>3. TypeOK'
    BY <1>2 DEF QueueSubmit, Enter, IInv, TypeOK, memVars, threadVars
<1> QED BY <1>3, EnterKeeps DEF QueueSubmit, Enter

\* vkUnmapMemory and vkFreeMemory flush first, or drop an unguarded memory at once.
LEMMA ReleaseMemoryKeeps ==
    ASSUME IInv, NEW t \in Threads, NEW m \in Mems, NEW name \in {"unmap", "free"},
           ReleaseMemory(t, m, name)
    PROVE  Core'
<1>1. step' \in {"swap", "drop"}
    BY DEF ReleaseMemory, Skipping
<1>2. TypeOK'
    BY <1>1 DEF ReleaseMemory, Enter, IInv, TypeOK, memVars, threadVars
<1> QED BY <1>1, <1>2, EnterKeeps DEF ReleaseMemory, Enter
-----------------------------------------------------------------------------
(* The flush of one memory.                                                *)

\* While an entry point is under way, no thread is inside the handler.
LEMMA NotHandling ==
    ASSUME IInv, step # "none"
    PROVE  \A t \in Threads : pc[t] \notin {"mark", "unprotect"}
BY DEF IInv, HandlerInv

\* Such a step leaves the threads' own state alone.
LEMMA HandlerInvKept ==
    ASSUME IInv, step # "none", UNCHANGED <<pc, target>>
    PROVE  HandlerInv'
BY NotHandling DEF IInv, HandlerInv

\* The pages that were marked are the ones to be copied.
LEMMA SwapKeeps ==
    ASSUME IInv, Swap
    PROVE  Core'
<1>1. step = "swap" /\ cur \in Mems
    BY DEF Swap, IInv, HolderInv
<1>2. /\ rest' = active[cur]
      /\ package' = [package EXCEPT ![cur] = Nothing]
      /\ step' = IF active[cur] = {} THEN "back" ELSE "protect"
      /\ UNCHANGED <<shadow, real, traced, mapped, open, didFlush, pc, target, stores,
                     holder, call, cur, todo, later, noted, seen>>
    BY DEF Swap, threadVars
<1>3. /\ active'[cur] = captured[cur]
      /\ \A m \in Mems : m # cur => active'[m] = active[m]
    BY <1>1 DEF Swap, IInv, TypeOK
<1>4. package'[cur] = Nothing /\ DOMAIN package'[cur] = {}
    BY <1>1, <1>2 DEF IInv, TypeOK, Nothing
<1>5. TypeOK'
    <2>1. active' \in [Mems -> SUBSET Pages] /\ captured' \in [Mems -> SUBSET Pages]
        BY <1>1 DEF Swap, IInv, TypeOK
    <2>2. /\ DOMAIN package' = Mems
          /\ \A m \in Mems : \E D \in SUBSET Pages : package'[m] \in [D -> Page]
        <3>1. Nothing \in [{} -> Page]
            BY DEF Nothing
        <3> QED BY <1>1, <1>2, <3>1 DEF IInv, TypeOK
    <2> QED BY <1>1, <1>2, <2>1, <2>2 DEF IInv, TypeOK
<1>6. HandlerInv'
    BY <1>1, <1>2, HandlerInvKept
<1>7. HolderInv' /\ PackageInv'
    BY <1>1, <1>2, <1>4 DEF IInv, HolderInv, PackageInv, Free, Copying
<1>8. OpenInv'
    BY <1>1, <1>2, <1>3 DEF IInv, OpenInv, Copying
<1>9. Gentle => NoWriteLost'
    BY <1>1, <1>2, <1>3 DEF IInv, TypeOK, NoWriteLost, OnTheWay
<1> QED BY <1>5, <1>6, <1>7, <1>8, <1>9 DEF Core, Gentle

\* The next page is protected while it is still on the list.
LEMMA ProtectKeeps ==
    ASSUME IInv, Protect
    PROVE  Core'
<1>1. step = "protect" /\ cur \in Mems /\ step' = "copy"
    BY DEF Protect, IInv, HolderInv
<1>2. PICK p \in rest : /\ \A q \in rest : p <= q
                       /\ open' = [open EXCEPT ![cur] = @ \ {p}]
    BY DEF Protect
<1>3. UNCHANGED <<shadow, real, traced, mapped, active, captured, package, didFlush,
                  pc, target, stores, holder, call, cur, rest, todo, later, noted, seen>>
    BY DEF Protect, threadVars
<1>4. TypeOK'
    BY <1>1, <1>2, <1>3 DEF IInv, TypeOK
<1>5. HandlerInv'
    BY <1>1, <1>3, HandlerInvKept
<1>6. HolderInv' /\ PackageInv'
    BY <1>1, <1>3 DEF IInv, HolderInv, PackageInv, Free, Copying
<1>7. OpenInv'
    <2>1. \A m \in Mems : open'[m] \subseteq open[m]
        BY <1>1, <1>2 DEF IInv, TypeOK
    <2>2. ASSUME NEW q \in rest, \A r \in rest : q <= r PROVE q \notin open'[cur]
        <3>1. p \in Int /\ q \in Int
            BY PagesAreCounted DEF IInv, TypeOK, Pages
        <3>2. q = p
            BY <1>2, <2>2, <3>1
        <3> QED BY <1>1, <1>2, <3>2 DEF IInv, TypeOK
    <2> QED BY <1>1, <1>3, <2>1, <2>2 DEF IInv, OpenInv, Copying
<1>8. Gentle => NoWriteLost'
    BY <1>1, <1>3 DEF IInv, NoWriteLost, OnTheWay
<1> QED BY <1>4, <1>5, <1>6, <1>7, <1>8 DEF Core, Gentle

\* A page leaves the list only when it is protected and in the package as it is.
LEMMA CopyKeeps ==
    ASSUME IInv, Copy
    PROVE  Core'
<1>1. step = "copy" /\ cur \in Mems
    BY DEF Copy, IInv, HolderInv
<1> DEFINE G(p) == [q \in DOMAIN package[cur] \cup {p} |->
                        IF q = p THEN shadow[cur][p] ELSE package[cur][q]]
<1>2. PICK p \in rest : /\ \A q \in rest : p <= q
                       /\ package' = [package EXCEPT ![cur] = G(p)]
                       /\ rest' = rest \ {p}
                       /\ step' = IF rest = {p} THEN "back" ELSE "protect"
    BY DEF Copy
<1>3. UNCHANGED <<shadow, real, traced, mapped, open, active, captured, didFlush,
                  pc, target, stores, holder, call, cur, todo, later, noted, seen>>
    BY DEF Copy, threadVars
<1>4. package'[cur] = G(p) /\ p \in Pages
    BY <1>1, <1>2 DEF IInv, TypeOK
<1>5. PICK D \in SUBSET Pages : package[cur] \in [D -> Page]
    BY <1>1 DEF IInv, TypeOK
<1>6. G(p) \in [D \cup {p} -> Page]
    BY <1>1, <1>4, <1>5, PageType DEF IInv, TypeOK
<1>7. /\ DOMAIN package'[cur] = DOMAIN package[cur] \cup {p}
      /\ package'[cur][p] = shadow[cur][p]
      /\ \A q \in DOMAIN package[cur] : q # p => package'[cur][q] = package[cur][q]
    BY <1>4
<1> HIDE DEF G
<1>8. TypeOK'
    <2>1. /\ DOMAIN package' = Mems
          /\ \A m \in Mems : \E E \in SUBSET Pages : package'[m] \in [E -> Page]
        <3> SUFFICES ASSUME NEW m \in Mems
                     PROVE  \E E \in SUBSET Pages : package'[m] \in [E -> Page]
            BY <1>2 DEF IInv, TypeOK
        <3>1. CASE m = cur
            BY <3>1, <1>4, <1>5, <1>6
        <3>2. CASE m # cur
            BY <3>2, <1>1, <1>2 DEF IInv, TypeOK
        <3> QED BY <3>1, <3>2
    <2> QED BY <1>2, <1>3, <2>1 DEF IInv, TypeOK
<1>9. HandlerInv'
    BY <1>1, <1>3, HandlerInvKept
<1>10. HolderInv'
    BY <1>1, <1>2, <1>3 DEF IInv, HolderInv, Free, Copying
<1>11. OpenInv'
    <2>1. p \notin open[cur]
        BY <1>1, <1>2 DEF IInv, OpenInv
    <2> QED BY <1>1, <1>2, <1>3, <2>1 DEF IInv, OpenInv, Copying
<1>12. PackageInv'
    BY <1>1, <1>2, <1>3, <1>7 DEF IInv, PackageInv, Copying
<1>13. Gentle => NoWriteLost'
    <2> SUFFICES ASSUME Gentle, NEW m \in mapped, NEW q \in Pages,
                        shadow[m][q].host # real[m][q].host
                 PROVE  q \in OnTheWay(m)'
        BY <1>3 DEF NoWriteLost
    <2>1. q \in OnTheWay(m)
        BY DEF IInv, NoWriteLost
    <2>2. CASE m # cur
        BY <1>3, <2>1, <2>2 DEF OnTheWay
    <2>3. CASE m = cur
        BY <1>1, <1>2, <1>3, <1>7, <2>1, <2>3 DEF OnTheWay
    <2> QED BY <2>2, <2>3
<1> QED BY <1>8, <1>9, <1>10, <1>11, <1>12, <1>13 DEF Core, Gentle

\* What the package lacks, or holds in an older form, is marked.
LEMMA CopyBackKeeps ==
    ASSUME IInv, CopyBack
    PROVE  Core'
<1>1. step = "back" /\ cur \in Mems /\ rest = {}
    BY DEF CopyBack, IInv, HolderInv, Copying
<1>2. /\ real' = [real EXCEPT ![cur] = Patched(@, package[cur])]
      /\ UNCHANGED <<shadow, traced, mapped, open, active, captured, package, didFlush,
                     pc, target, stores, holder, call, rest, later, noted, seen>>
    BY DEF CopyBack, threadVars
<1>3. /\ step' \in {"swap", "record"}
      /\ cur' \in Mems
      /\ todo' \in Seq(Mems)
    <2>1. todo \in Seq(Mems)
        BY DEF IInv, TypeOK
    <2>2. todo # <<>> => Head(todo) \in Mems /\ Tail(todo) \in Seq(Mems)
        BY <2>1
    <2> QED BY <1>1, <2>1, <2>2 DEF CopyBack
<1>4. TypeOK'
    <2>1. real' \in Contents
        <3>1. PICK D \in SUBSET Pages : package[cur] \in [D -> Page]
            BY <1>1 DEF IInv, TypeOK
        <3>2. real \in Contents /\ real[cur] \in [Pages -> Page]
            BY <1>1 DEF IInv, TypeOK, Contents
        <3>3. Patched(real[cur], package[cur]) \in [Pages -> Page]
            BY <3>1, <3>2, PatchedType
        <3> QED BY <1>1, <1>2, <3>2, <3>3, MemoryReplaced
    <2> QED BY <1>2, <1>3, <2>1 DEF IInv, TypeOK
<1>5. HandlerInv'
    BY <1>1, <1>2, HandlerInvKept
<1>6. HolderInv' /\ OpenInv' /\ PackageInv'
    BY <1>1, <1>2, <1>3 DEF IInv, HolderInv, OpenInv, PackageInv, Free, Copying
<1>7. Gentle => NoWriteLost'
    <2> SUFFICES ASSUME Gentle, NEW m \in mapped, NEW q \in Pages,
                        shadow[m][q].host # real'[m][q].host
                 PROVE  q \in active[m]
        BY <1>2 DEF NoWriteLost, OnTheWay
    <2>1. m \in Mems /\ real \in Contents
        BY DEF IInv, TypeOK
    <2>2. CASE m # cur
        <3>1. real'[m] = real[m]
            BY <1>1, <1>2, <2>1, <2>2 DEF Contents
        <3> QED BY <2>2, <3>1 DEF IInv, NoWriteLost, OnTheWay
    <2>3. CASE m = cur /\ q \in DOMAIN package[cur]
        <3>1. real'[m][q] = package[cur][q]
            BY <1>1, <1>2, <2>1, <2>3 DEF Contents, Patched
        <3> QED BY <1>1, <2>3, <3>1 DEF IInv, PackageInv
    <2>4. CASE m = cur /\ q \notin DOMAIN package[cur]
        <3>1. real'[m][q] = real[m][q]
            BY <1>1, <1>2, <2>1, <2>4 DEF Contents, Patched
        <3>2. q \in OnTheWay(m)
            BY <3>1 DEF IInv, NoWriteLost
        <3> QED BY <1>1, <2>4, <3>2 DEF OnTheWay
    <2> QED BY <2>2, <2>3, <2>4
<1> QED BY <1>4, <1>5, <1>6, <1>7 DEF Core, Gentle
-----------------------------------------------------------------------------
(* Packets, jobs, and the end of an entry point.                           *)

\* A packet protects pages and clears the snapshot.
LEMMA WritePacketType ==
    ASSUME TypeOK, NEW m \in Mems, WritePacket(m)
    PROVE  /\ traced' \in Contents
           /\ open' \in [Mems -> SUBSET Pages] /\ captured' \in [Mems -> SUBSET Pages]
           /\ DOMAIN package' = Mems
           /\ \A n \in Mems : \E D \in SUBSET Pages : package'[n] \in [D -> Page]
           /\ \A n \in Mems : open'[n] \subseteq open[n]
<1>1. PICK D \in SUBSET Pages : package[m] \in [D -> Page]
    BY DEF TypeOK
<1>2. traced \in Contents /\ traced[m] \in [Pages -> Page]
    BY DEF TypeOK, Contents
<1>3. Patched(traced[m], package[m]) \in [Pages -> Page]
    BY <1>1, <1>2, PatchedType
<1>4. traced' \in Contents
    BY <1>2, <1>3, MemoryReplaced DEF WritePacket
<1>5. Nothing \in [{} -> Page]
    BY DEF Nothing
<1> QED BY <1>4, <1>5 DEF WritePacket, TypeOK

\* What every step that leaves the lock needs: it keeps the real and the shadow memory
\* of what stays mapped, and opens no page.
LEMMA QuietStepKeeps ==
    ASSUME IInv, step \notin Copying \cup {"none", "back"},
           UNCHANGED <<pc, target>>, rest' = {},
           step' \notin {"protect", "copy", "back", "syncCopy", "syncClose"},
           holder' = NoThread => step' = "none",
           step' \in {"swap", "record", "drop", "syncOpen"} => cur' \in Mems,
           step \in Syncing => open'[cur] = {},
           TypeOK',
           \A m \in Mems : open'[m] = {} \/ (open'[m] \subseteq open[m] /\ active'[m] = active[m]),
           \A m \in mapped' : /\ m \in mapped
                              /\ active'[m] = active[m]
                              /\ \A p \in Pages : /\ shadow'[m][p].host = shadow[m][p].host
                                                 /\ real'[m][p].host = real[m][p].host
    PROVE  Core'
<1>1. HandlerInv'
    BY HandlerInvKept
<1>2. HolderInv' /\ PackageInv'
    BY DEF IInv, HolderInv, PackageInv, Free, Copying, Syncing
<1>3. OpenInv'
    BY DEF IInv, OpenInv, Copying, Syncing
<1>4. Gentle => NoWriteLost'
    <2> SUFFICES ASSUME Gentle, NEW m \in mapped', NEW q \in Pages,
                        shadow'[m][q].host # real'[m][q].host
                 PROVE  q \in active'[m]
        BY DEF NoWriteLost, OnTheWay
    <2> QED BY DEF IInv, NoWriteLost, OnTheWay, Copying
<1> QED BY <1>1, <1>2, <1>3, <1>4 DEF Core, Gentle

\* pageguardExit leaves every variable of the holder with its type.
LEMMA ExitType ==
    ASSUME Exit
    PROVE  /\ holder' = NoThread /\ step' = "none" /\ call' = "none" /\ cur' = NoMem
           /\ rest' = {} /\ todo' \in Seq(Mems) /\ later' \in Seq(Mems) /\ noted' = {}
BY DEF Exit

\* The packet of an explicit flush.
LEMMA RecordRangesKeeps ==
    ASSUME IInv, RecordRanges
    PROVE  Core'
<1>1. step = "record" /\ rest = {}
    BY DEF RecordRanges, IInv, HolderInv, Copying
<1>2. PICK m \in noted :
        /\ WritePacket(m)
        /\ didFlush' = [didFlush EXCEPT ![m] = "ApiFlush"]
        /\ IF noted = {m} THEN Exit
           ELSE noted' = noted \ {m} /\ UNCHANGED <<holder, step, call, cur, rest, todo, later>>
    BY DEF RecordRanges
<1>3. m \in Mems
    BY DEF IInv, TypeOK
<1>4. UNCHANGED <<shadow, real, mapped, active, pc, target, stores, seen>>
    BY DEF RecordRanges, threadVars
<1>5. TypeOK'
    <2>1. didFlush' \in [Mems -> FlushStates]
        BY <1>2, <1>3 DEF IInv, TypeOK, FlushStates
    <2>2. CASE noted = {m}
        BY <1>2, <1>3, <1>4, <2>1, <2>2, WritePacketType, ExitType DEF IInv, TypeOK
    <2>3. CASE noted # {m}
        BY <1>2, <1>3, <1>4, <2>1, <2>3, WritePacketType DEF IInv, TypeOK
    <2> QED BY <2>2, <2>3
<1>6. /\ rest' = {} /\ step' \in {"none", "record"}
      /\ holder' = NoThread => step' = "none"
      /\ step' = "record" => cur' \in Mems
    BY <1>1, <1>2 DEF Exit, IInv, HolderInv, Free
<1>7. \A n \in Mems : open'[n] \subseteq open[n]
    BY <1>2, <1>3, WritePacketType DEF IInv
<1> QED BY <1>1, <1>4, <1>5, <1>6, <1>7, QuietStepKeeps DEF Copying, Syncing

\* The packet of one memory.
LEMMA RecordOneKeeps ==
    ASSUME IInv, RecordOne
    PROVE  Core'
<1>1. step = "record" /\ rest = {} /\ cur \in Mems /\ ~Free
    BY DEF RecordOne, IInv, HolderInv, Copying
<1>2. /\ WritePacket(cur)
      /\ UNCHANGED <<shadow, real, mapped, active, pc, target, stores,
                     holder, call, rest, todo, later, noted, seen>>
      /\ step' \in {"choose", "drop"}
      /\ step' = "drop" => cur' = cur
      /\ cur' \in {cur, NoMem}
    BY DEF RecordOne, threadVars
<1>3. didFlush' \in [Mems -> FlushStates]
    BY <1>1 DEF RecordOne, IInv, TypeOK, FlushStates
<1>4. TypeOK'
    BY <1>1, <1>2, <1>3, WritePacketType DEF IInv, TypeOK
<1>5. \A n \in Mems : open'[n] \subseteq open[n]
    BY <1>1, <1>2, WritePacketType DEF IInv
<1> QED BY <1>1, <1>2, <1>4, <1>5, QuietStepKeeps DEF Copying, Syncing, Free

\* Choosing the next memory of a submission changes nothing but the flush states.
LEMMA ChooseKeeps ==
    ASSUME IInv, ChooseNow \/ ChooseLater \/ FlushedAll
    PROVE  Core'
<1>1. step = "choose" /\ rest = {} /\ ~Free
    BY DEF ChooseNow, ChooseLater, FlushedAll, IInv, HolderInv, Copying
<1>2. todo \in Seq(Mems) /\ later \in Seq(Mems)
    BY DEF IInv, TypeOK
<1>3. UNCHANGED <<shadow, real, traced, mapped, open, active, captured, package, pc, target,
                  stores, holder, call, rest, noted, seen>>
    BY DEF ChooseNow, ChooseLater, FlushedAll, memVars, threadVars
<1>4. /\ step' \in {"choose", "run", "swap"}
      /\ step' = "swap" => cur' \in Mems
      /\ cur' \in Mems \cup {NoMem}
      /\ didFlush' \in [Mems -> FlushStates]
      /\ todo' \in Seq(Mems) /\ later' \in Seq(Mems)
    <2>1. didFlush \in [Mems -> FlushStates] /\ cur \in Mems \cup {NoMem}
        BY DEF IInv, TypeOK
    <2>2. CASE ChooseNow
        <3>1. Head(todo) \in Mems /\ Tail(todo) \in Seq(Mems)
            BY <1>2, <2>2 DEF ChooseNow
        <3>2. Append(later, Head(todo)) \in Seq(Mems)
            BY <1>2, <3>1
        <3> QED BY <1>1, <1>2, <2>1, <2>2, <3>1, <3>2 DEF ChooseNow, Skipping, memVars
    <2>3. CASE ChooseLater
        <3>1. Head(later) \in Mems /\ Tail(later) \in Seq(Mems)
            BY <1>2, <2>3 DEF ChooseLater
        <3> QED BY <1>1, <1>2, <2>1, <2>3, <3>1 DEF ChooseLater, Skipping, FlushStates
    <2>4. CASE FlushedAll
        BY <1>2, <2>1, <2>4 DEF FlushedAll, memVars
    <2> QED BY <2>2, <2>3, <2>4
<1>5. TypeOK'
    BY <1>3, <1>4 DEF IInv, TypeOK
<1> QED BY <1>1, <1>3, <1>4, <1>5, QuietStepKeeps DEF Copying, Syncing, Free

\* What the device writes leaves the application's stores alone.
LEMMA DeviceWritesHost ==
    ASSUME NEW c \in Contents, NEW m \in Mems, NEW w \in SUBSET Pages
    PROVE  /\ DeviceWrites(c, m, w) \in Contents
           /\ \A n \in Mems, p \in Pages : DeviceWrites(c, m, w)[n][p].host = c[n][p].host
<1> DEFINE d == [p \in Pages |-> IF p \in w THEN [c[m][p] EXCEPT !.dev = @ + 1] ELSE c[m][p]]
<1>1. d \in [Pages -> Page] /\ \A p \in Pages : d[p].host = c[m][p].host
    BY PageType, PageCounts
<1>2. DeviceWrites(c, m, w) = [c EXCEPT ![m] = d]
    BY DEF DeviceWrites
<1> HIDE DEF d
<1>3. [c EXCEPT ![m] = d] \in Contents
    BY <1>1, MemoryReplaced
<1>4. \A n \in Mems, p \in Pages : [c EXCEPT ![m] = d][n][p].host = c[n][p].host
    BY <1>1 DEF Contents
<1> QED BY <1>2, <1>3, <1>4

\* The device does not change what the application has stored.
LEMMA RunJobKeeps ==
    ASSUME IInv, RunJob
    PROVE  Core'
<1>1. step = "run" /\ rest = {} /\ ~Free
    BY DEF RunJob, IInv, HolderInv, Copying
<1>2. PICK m \in Mems, w \in SUBSET Pages :
        /\ real' = DeviceWrites(real, m, w) /\ traced' = DeviceWrites(traced, m, w)
        /\ \/ step' = "syncOpen" /\ cur' = m /\ UNCHANGED <<holder, call, rest, todo, later, noted>>
           \/ Exit
    BY DEF RunJob
<1>3. /\ step' \in {"syncOpen", "none"} /\ rest' = {}
      /\ step' = "syncOpen" => cur' \in Mems
      /\ holder' = NoThread => step' = "none"
    BY <1>1, <1>2 DEF Exit, Free
<1>4. /\ real' \in Contents /\ traced' \in Contents
      /\ \A n \in Mems, p \in Pages : real'[n][p].host = real[n][p].host
    BY <1>2, DeviceWritesHost DEF IInv, TypeOK
<1>5. UNCHANGED <<shadow, mapped, open, active, captured, package, didFlush, pc, target, stores>>
    BY DEF RunJob, threadVars
<1>6. TypeOK'
    <2>1. seen' \in Contents
        BY DEF RunJob, Contents, Page, Blank, Fresh
    <2>2. CASE Exit
        BY <1>4, <1>5, <2>1, <2>2, ExitType DEF IInv, TypeOK
    <2>3. CASE step' = "syncOpen" /\ cur' = m /\ UNCHANGED <<holder, call, rest, todo, later, noted>>
        BY <1>4, <1>5, <2>1, <2>3 DEF IInv, TypeOK
    <2> QED BY <1>2, <2>2, <2>3
<1> QED BY <1>1, <1>3, <1>4, <1>5, <1>6, QuietStepKeeps DEF Copying, Syncing, IInv, TypeOK

\* Opening all pages marks no fewer of them.
LEMMA SyncOpenKeeps ==
    ASSUME IInv, SyncOpen
    PROVE  Core'
<1>1. step = "syncOpen" /\ cur \in Mems /\ step' = "syncCopy" /\ rest = {}
    BY DEF SyncOpen, IInv, HolderInv, Syncing, Copying
<1>2. UNCHANGED <<shadow, real, traced, mapped, captured, package, didFlush, pc, target, stores,
                  holder, call, cur, rest, todo, later, noted, seen>>
    BY DEF SyncOpen, threadVars
<1>3. /\ \A m \in Mems : active[m] \subseteq active'[m]
      /\ \A m \in Mems : m # cur => open'[m] = open[m]
    BY <1>1 DEF SyncOpen, IInv, TypeOK
<1>4. TypeOK'
    BY <1>1, <1>2 DEF SyncOpen, IInv, TypeOK
<1>5. HandlerInv'
    BY <1>1, <1>2, HandlerInvKept, NotHandling DEF HandlerInv
<1>6. HolderInv' /\ PackageInv'
    BY <1>1, <1>2 DEF IInv, HolderInv, PackageInv, Free, Copying, Syncing
<1>7. OpenInv'
    BY <1>1, <1>2, <1>3 DEF IInv, OpenInv, Copying
<1>8. Gentle => NoWriteLost'
    BY <1>1, <1>2, <1>3 DEF IInv, TypeOK, NoWriteLost, OnTheWay
<1> QED BY <1>4, <1>5, <1>6, <1>7, <1>8 DEF Core, Gentle

\* What is filled from the real memory agrees with it.
LEMMA SyncCopyKeeps ==
    ASSUME IInv, SyncCopy
    PROVE  Core'
<1>1. step = "syncCopy" /\ cur \in Mems /\ step' = "syncClose" /\ rest = {}
    BY DEF SyncCopy, IInv, HolderInv, Syncing, Copying
<1>2. UNCHANGED <<real, traced, mapped, open, active, captured, package, didFlush, pc, target,
                  stores, holder, call, cur, rest, todo, later, noted, seen>>
    BY DEF SyncCopy, threadVars
<1>3. shadow \in Contents /\ real \in Contents
    BY DEF IInv, TypeOK
<1>4. shadow' \in Contents /\ shadow' = [shadow EXCEPT ![cur] = real[cur]]
    BY <1>1, <1>3, MemoryReplaced DEF SyncCopy, Contents
<1>5. TypeOK'
    BY <1>1, <1>2, <1>4 DEF IInv, TypeOK
<1>6. HandlerInv'
    BY <1>1, <1>2, HandlerInvKept
<1>7. HolderInv' /\ PackageInv' /\ OpenInv'
    BY <1>1, <1>2 DEF IInv, HolderInv, OpenInv, PackageInv, Free, Copying, Syncing
<1>8. Gentle => NoWriteLost'
    <2> SUFFICES ASSUME Gentle, NEW m \in mapped, NEW q \in Pages,
                        shadow'[m][q].host # real[m][q].host
                 PROVE  q \in OnTheWay(m)'
        BY <1>2 DEF NoWriteLost
    <2>1. m \in Mems
        BY DEF IInv, TypeOK
    <2>2. m # cur /\ shadow'[m] = shadow[m]
        BY <1>1, <1>3, <1>4, <2>1 DEF Contents
    <2> QED BY <1>1, <1>2, <2>2 DEF IInv, NoWriteLost, OnTheWay
<1> QED BY <1>5, <1>6, <1>7, <1>8 DEF Core, Gentle

\* The pages are protected again.
LEMMA SyncCloseKeeps ==
    ASSUME IInv, SyncClose
    PROVE  Core'
<1>1. step = "syncClose" /\ cur \in Mems /\ Exit
    BY DEF SyncClose, IInv, HolderInv, Syncing
<1>2. /\ open' = [open EXCEPT ![cur] = {}]
      /\ UNCHANGED <<shadow, real, traced, mapped, active, captured, package, didFlush, pc, target,
                     stores, seen>>
    BY DEF SyncClose, threadVars
<1>3. TypeOK'
    BY <1>1, <1>2, ExitType DEF IInv, TypeOK
<1>4. \A m \in Mems : open'[m] \subseteq open[m]
    BY <1>1, <1>2 DEF IInv, TypeOK
<1>5. open'[cur] = {}
    BY <1>1, <1>2 DEF IInv, TypeOK
<1> QED BY <1>1, <1>2, <1>3, <1>4, <1>5, QuietStepKeeps DEF Copying, Syncing, Exit

\* What is given up is no longer mapped.
LEMMA DropKeeps ==
    ASSUME IInv, Drop
    PROVE  Core'
<1>1. step = "drop" /\ rest = {} /\ cur \in Mems /\ Exit
    BY DEF Drop, IInv, HolderInv, Copying
<1>2. /\ mapped' = mapped \ {cur}
      /\ open' = [open EXCEPT ![cur] = {}]
      /\ active' = [active EXCEPT ![cur] = {}]
      /\ captured' = [captured EXCEPT ![cur] = {}]
      /\ shadow' = [shadow EXCEPT ![cur] = Blank]
      /\ UNCHANGED <<package, pc, target, stores, seen>>
    BY DEF Drop, threadVars
<1>3. real' = real \/ real' = [real EXCEPT ![cur] = Blank]
    BY DEF Drop
<1>4. TypeOK'
    <2>1. Blank \in [Pages -> Page]
        BY DEF Blank, Fresh, Page
    <2>2. shadow' \in Contents /\ real' \in Contents
        <3>1. shadow \in Contents /\ real \in Contents
            BY DEF IInv, TypeOK
        <3> QED BY <1>1, <1>2, <1>3, <2>1, <3>1, MemoryReplaced
    <2>3. traced' \in Contents
        <3>1. \/ traced' = traced
              \/ traced' = [traced EXCEPT ![cur] = Blank]
              \/ traced' = [traced EXCEPT ![cur] = shadow[cur]]
            BY DEF Drop
        <3>2. traced \in Contents /\ shadow[cur] \in [Pages -> Page]
            BY <1>1 DEF IInv, TypeOK, Contents
        <3> QED BY <1>1, <2>1, <3>1, <3>2, MemoryReplaced
    <2>4. didFlush' \in [Mems -> FlushStates]
        BY <1>1 DEF Drop, IInv, TypeOK, FlushStates
    <2>5. open' \in [Mems -> SUBSET Pages] /\ active' \in [Mems -> SUBSET Pages]
          /\ captured' \in [Mems -> SUBSET Pages]
        BY <1>1, <1>2 DEF IInv, TypeOK
    <2> QED BY <1>1, <1>2, <2>2, <2>3, <2>4, <2>5, ExitType DEF IInv, TypeOK
<1>5. \A m \in Mems : open'[m] = {} \/ (open'[m] \subseteq open[m] /\ active'[m] = active[m])
    BY <1>1, <1>2 DEF IInv, TypeOK
<1>6. ASSUME NEW m \in mapped'
      PROVE  m \in mapped /\ active'[m] = active[m] /\ shadow'[m] = shadow[m] /\ real'[m] = real[m]
    BY <1>1, <1>2, <1>3 DEF IInv, TypeOK, Contents
<1> QED BY <1>1, <1>2, <1>4, <1>5, <1>6, QuietStepKeeps DEF Copying, Syncing, Exit

-----------------------------------------------------------------------------
(* Who does what.                                                          *)

\* What threads do on their own: a store or a fault is to mapped memory.
LEMMA ThreadRoles ==
    ASSUME IInv, NEW t \in Threads,
           StoreStep(t) \/ FaultStep(t) \/ HandlerEnter(t) \/ HandlerStep(t)
    PROVE  CallInv' /\ UsersInv'
<1>1. UNCHANGED <<step, call, cur, mapped>>
    BY DEF StoreStep, FaultStep, HandlerEnter, HandlerStep, Store, Fault, HandlerMark,
           HandlerUnprotect, lockVars, memVars
<1>2. CallInv'
    BY <1>1 DEF IInv, CallInv
<1>3. /\ pc \in [Threads -> {"idle", "fault", "mark", "unprotect", "retry"}]
      /\ target \in [Threads -> (Mems \X Pages) \cup {NoTarget}]
    BY DEF IInv, TypeOK
<1>4. ASSUME NEW m \in Mems, NEW p \in Pages, Store(t, m, p)
      PROVE  UsersInv'
    <2>1. pc' = [pc EXCEPT ![t] = "idle"] /\ target' = [target EXCEPT ![t] = NoTarget]
        BY <1>4 DEF Store
    <2>2. call \in {"unmap", "free"} => NoTarget[1] # cur
        BY NobodyIsNobody DEF IInv, TypeOK, CallInv, NoTarget
    <2> HIDE DEF NoTarget
    <2> QED BY <1>1, <1>3, <2>1, <2>2 DEF IInv, UsersInv
<1>5. ASSUME NEW m \in Mems, NEW p \in Pages, Fault(t, m, p)
      PROVE  UsersInv'
    <2>1. /\ pc' = [pc EXCEPT ![t] = "fault"] /\ target' = [target EXCEPT ![t] = <<m, p>>]
          /\ MayStore(t, m, p)
        BY <1>5 DEF Fault
    <2>2. /\ m \in mapped
          /\ call \in {"unmap", "free"} => m # cur
          /\ ~(Quiet /\ call = "submit")
        BY <2>1, <1>3, NobodyIsNobody DEF MayStore, IInv, UsersInv, NoTarget
    <2>3. <<m, p>> # NoTarget
        BY NobodyIsNobody DEF NoTarget
    <2> QED BY <1>1, <1>3, <2>1, <2>2, <2>3 DEF IInv, UsersInv
<1>6. CASE HandlerEnter(t) \/ HandlerStep(t)
    <2>1. target' = target /\ pc[t] # "idle"
        BY <1>6 DEF HandlerEnter, HandlerStep, HandlerMark, HandlerUnprotect
    <2>2. \E s \in {"mark", "unprotect", "retry"} : pc' = [pc EXCEPT ![t] = s]
        BY <1>6 DEF HandlerEnter, HandlerStep, HandlerMark, HandlerUnprotect
    <2>3. \A u \in Threads : pc'[u] = "idle" <=> pc[u] = "idle"
        BY <1>3, <2>1, <2>2
    <2>4. \A u \in Threads : pc'[u] = "idle" <=> target'[u] = NoTarget
        BY <2>1, <2>3 DEF IInv, UsersInv
    <2>5. \A u \in Threads : pc'[u] # "idle" => target'[u][1] \in mapped'
        BY <1>1, <2>1, <2>3 DEF IInv, UsersInv
    <2> QED BY <1>1, <1>2, <2>1, <2>4, <2>5 DEF IInv, UsersInv
<1> QED BY <1>2, <1>4, <1>5, <1>6 DEF StoreStep, FaultStep

\* Calls: what is unmapped or freed is mapped, and nobody uses it.
LEMMA CallRoles ==
    ASSUME IInv, NEW t \in Threads, CallStep(t)
    PROVE  CallInv' /\ UsersInv'
<1>1. Free /\ step = "none" /\ call = "none"
    BY DEF CallStep, MapMemory, FlushRanges, QueueSubmit, ReleaseMemory, Enter, IInv, HolderInv,
           CallInv
<1>2. ASSUME NEW m \in Mems, MapMemory(t, m)
      PROVE  CallInv' /\ UsersInv'
    BY <1>1, <1>2 DEF MapMemory, IInv, CallInv, UsersInv, lockVars, threadVars, Syncing
<1>3. ASSUME NEW ranges \in RangeLists, FlushRanges(t, ranges)
      PROVE  CallInv' /\ UsersInv'
    BY <1>3 DEF FlushRanges, Enter, IInv, CallInv, UsersInv, memVars, threadVars, Syncing
<1>4. CASE QueueSubmit(t)
    BY <1>4 DEF QueueSubmit, Enter, IInv, CallInv, UsersInv, memVars, threadVars, Syncing
<1>5. ASSUME NEW m \in Mems, NEW name \in {"unmap", "free"}, ReleaseMemory(t, m, name)
      PROVE  CallInv' /\ UsersInv'
    BY <1>5 DEF ReleaseMemory, Skipping, Enter, IInv, CallInv, UsersInv, memVars, threadVars, Syncing
<1> QED BY <1>2, <1>3, <1>4, <1>5 DEF CallStep

\* The holder goes through the steps of its entry point.
LEMMA HolderRoles ==
    ASSUME IInv, HolderStep
    PROVE  CallInv' /\ UsersInv'
<1>1. UNCHANGED <<pc, target>>
    BY DEF HolderStep, Swap, Protect, Copy, CopyBack, RecordRanges, RecordOne, ChooseNow,
           ChooseLater, FlushedAll, RunJob, SyncOpen, SyncCopy, SyncClose, Drop, threadVars
<1>2. CASE Exit
    <2>1. \A t \in Threads : pc[t] # "idle" => target[t][1] \in mapped'
        <3>1. mapped' = mapped \/ (Drop /\ mapped' = mapped \ {cur})
            BY DEF HolderStep, Swap, Protect, Copy, CopyBack, RecordRanges, RecordOne, ChooseNow,
               ChooseLater, FlushedAll, RunJob, SyncOpen, SyncCopy, SyncClose, Drop, memVars
        <3> QED BY <3>1 DEF IInv, UsersInv, CallInv, Drop
    <2> QED BY <1>1, <1>2, <2>1 DEF Exit, IInv, CallInv, UsersInv, Syncing
<1>3. CASE Swap \/ Protect \/ Copy
    BY <1>1, <1>3 DEF Swap, Protect, Copy, IInv, CallInv, UsersInv, Syncing
<1>4. CASE CopyBack
    BY <1>1, <1>4 DEF CopyBack, IInv, CallInv, UsersInv, Syncing
<1>5. CASE RecordRanges /\ ~Exit
    BY <1>1, <1>5 DEF RecordRanges, IInv, CallInv, UsersInv, Syncing
<1>6. CASE RecordOne
    BY <1>1, <1>6 DEF RecordOne, IInv, TypeOK, CallInv, UsersInv, Syncing
<1>7. CASE ChooseNow \/ ChooseLater \/ FlushedAll
    <2>1. step = "choose" /\ call = "submit" /\ UNCHANGED <<call, mapped>>
        BY <1>7 DEF ChooseNow, ChooseLater, FlushedAll, IInv, CallInv, memVars
    <2>2. step' \in {"choose", "swap", "run"}
        BY <1>7, <2>1 DEF ChooseNow, ChooseLater, FlushedAll, Skipping
    <2> QED BY <1>1, <2>1, <2>2 DEF IInv, CallInv, UsersInv, Syncing
<1>8. CASE RunJob /\ ~Exit
    <2>1. PICK m \in Mems, w \in SUBSET Pages :
            /\ w # {} => m \in Targets
            /\ IF SyncBack /\ w # {} /\ m \in mapped
               THEN step' = "syncOpen" /\ cur' = m
                    /\ UNCHANGED <<holder, call, rest, todo, later, noted>>
               ELSE Exit
        BY <1>8 DEF RunJob
    <2>2. /\ SyncBack /\ m \in mapped /\ m \in Targets
          /\ step' = "syncOpen" /\ cur' = m /\ call' = call
        BY <1>8, <2>1
    <2>3. step = "run" /\ mapped' = mapped
        BY <1>8 DEF RunJob
    <2> QED BY <1>1, <2>2, <2>3 DEF IInv, CallInv, UsersInv, Syncing
<1>9. CASE SyncOpen \/ SyncCopy
    BY <1>1, <1>9 DEF SyncOpen, SyncCopy, IInv, CallInv, UsersInv, Syncing
<1>10. SyncClose \/ Drop => Exit
    BY DEF SyncClose, Drop
<1> QED BY <1>2, <1>3, <1>4, <1>5, <1>6, <1>7, <1>8, <1>9, <1>10 DEF HolderStep

-----------------------------------------------------------------------------
(* The invariant.                                                          *)

\* At the start nothing is mapped.
LEMMA InitIInv == Init => IInv
<1> SUFFICES ASSUME Init PROVE IInv
    OBVIOUS
<1>1. shadow \in Contents /\ real = shadow /\ traced = shadow /\ seen = shadow
    BY DEF Init, Contents, Page, Blank, Fresh
<1>2. Nothing \in [{} -> Page]
    BY DEF Nothing
<1>3. TypeOK
    <2>1. /\ DOMAIN package = Mems
          /\ \A m \in Mems : \E D \in SUBSET Pages : package[m] \in [D -> Page]
        BY <1>2 DEF Init
    <2>2. todo \in Seq(Mems) /\ later \in Seq(Mems)
        BY DEF Init
    <2>3. /\ pc \in [Threads -> {"idle", "fault", "mark", "unprotect", "retry"}]
          /\ target \in [Threads -> (Mems \X Pages) \cup {NoTarget}]
          /\ didFlush \in [Mems -> FlushStates]
        BY DEF Init, FlushStates
    <2>4. /\ open \in [Mems -> SUBSET Pages] /\ active \in [Mems -> SUBSET Pages]
          /\ captured \in [Mems -> SUBSET Pages]
        BY DEF Init
    <2> QED BY <1>1, <2>1, <2>2, <2>3, <2>4 DEF Init, TypeOK
<1>4. HandlerInv /\ HolderInv /\ CallInv /\ UsersInv
    BY DEF Init, HandlerInv, HolderInv, CallInv, UsersInv, Copying, Syncing
<1>5. OpenInv /\ PackageInv /\ NoWriteLost
    BY <1>1 DEF Init, OpenInv, PackageInv, NoWriteLost, Copying
<1> QED BY <1>3, <1>4, <1>5 DEF IInv

\* Every step keeps the invariant.
LEMMA NextIInv == ASSUME IInv, [Next]_vars PROVE IInv'
<1>1. CASE UNCHANGED vars
    BY <1>1 DEF vars, memVars, threadVars, lockVars, IInv, TypeOK, HandlerInv, HolderInv, CallInv,
                UsersInv, OpenInv, PackageInv, NoWriteLost, OnTheWay, Free, Gentle
<1>2. CASE HolderStep
    <2>1. Core'
        BY <1>2, SwapKeeps, ProtectKeeps, CopyKeeps, CopyBackKeeps, RecordRangesKeeps,
           RecordOneKeeps, ChooseKeeps, RunJobKeeps, SyncOpenKeeps, SyncCopyKeeps, SyncCloseKeeps,
           DropKeeps DEF HolderStep
    <2> QED BY <1>2, <2>1, HolderRoles DEF IInv, Core
<1>3. ASSUME NEW t \in Threads,
             StoreStep(t) \/ FaultStep(t) \/ HandlerEnter(t) \/ HandlerStep(t)
      PROVE  IInv'
    <2>1. Core'
        BY <1>3, StoreKeeps, FaultKeeps, HandlerEnterKeeps, HandlerMarkKeeps, HandlerUnprotectKeeps
           DEF StoreStep, FaultStep, HandlerStep
    <2> QED BY <1>3, <2>1, ThreadRoles DEF IInv, Core
<1>4. ASSUME NEW t \in Threads, CallStep(t)
      PROVE  IInv'
    <2>1. Core'
        BY <1>4, MapMemoryKeeps, FlushRangesKeeps, QueueSubmitKeeps, ReleaseMemoryKeeps DEF CallStep
    <2> QED BY <1>4, <2>1, CallRoles DEF IInv, Core
<1> QED BY <1>1, <1>2, <1>3, <1>4 DEF Next

\* The invariant holds throughout.
THEOREM Invariance == Spec => []IInv
BY InitIInv, NextIInv, PTL DEF Spec

\* Type correctness, for every number of memories, pages and threads.
THEOREM TypeCorrect == Spec => []TypeOK
<1>1. IInv => TypeOK
    BY DEF IInv
<1> QED BY <1>1, Invariance, PTL

\* No store of the application is lost, however stores, faults and flushes of any number of
\* threads interleave (getChangedBlockInfo, PageGuardExceptionHandler); when memory is copied
\* back, as long as the application does not store while it submits.
THEOREM NoWriteIsLost == Gentle => (Spec => []NoWriteLost)
<1> SUFFICES ASSUME Gentle PROVE Spec => []NoWriteLost
    OBVIOUS
<1>1. IInv => NoWriteLost
    BY DEF IInv
<1> QED BY <1>1, Invariance, PTL
-----------------------------------------------------------------------------
(* The trace.  What differs between the real memory and its replay is marked or on its   *)
(* way into a packet, and a submission or the end of a mapping leaves no difference.     *)

Flushing == Copying \cup {"back", "record"}

\* The memories in a list.
Names(s) == {s[i] : i \in 1..Len(s)}

\* The pages of a memory that the flush under way has taken and not yet recorded.
Left(m) == IF cur = m /\ step \in Copying THEN rest ELSE {}
Pend(m) == DOMAIN package[m] \cup Left(m)

\* The replay has the memory as the capture has it.
Same(m) == \A p \in Pages : traced[m][p] = real[m][p]

\* An explicit flush handles memories that its packet names, and what is flushed is mapped.
NamedInv ==
    /\ call = "flush" /\ step # "record" => cur \in noted /\ Names(todo) \subseteq noted
    /\ Names(todo) \cup Names(later) \subseteq mapped
    /\ step \in {"swap"} \cup Flushing => cur \in mapped
    /\ step = "run" => todo = <<>> /\ later = <<>>

\* Only a flush under way has a package; its pages are in the snapshot, and once it is
\* copied back it agrees with the real memory.
PendInv ==
    \A m \in Mems :
        /\ DOMAIN package[m] # {} =>
                \/ call = "flush" /\ m \in noted
                \/ call # "flush" /\ cur = m /\ step \in Flushing
        /\ Pend(m) \subseteq captured[m]
        /\ \A p \in DOMAIN package[m] :
                package[m][p] = real[m][p] \/ (cur = m /\ step \in Copying \cup {"back"})

\* What the replay lacks is marked or pending ...
BehindInv ==
    \A m \in Mems \ AsMems : \A p \in Pages :
        traced[m][p] # real[m][p] => p \in active[m] \cup Pend(m)

\* ... and nothing of unmapped memory is lacking ...
UnmappedInv == \A m \in Mems \ AsMems : m \notin mapped => Same(m)

\* ... nor of memory whose flush is complete: unless an explicit flush names a memory twice,
\* all that is lacking is in the package.
TakenInv ==
    /\ call \in {"submit", "unmap", "free"} /\ cur \notin AsMems /\ step \in Flushing =>
            \A p \in Pages : traced[cur][p] # real[cur][p] => p \in Pend(cur)
    /\ call = "submit" => \A m \in mapped \ AsMems :
            \/ m \in Names(todo) \cup Names(later)
            \/ m = cur /\ step \in {"swap"} \cup Flushing
            \/ Same(m)
    /\ step = "drop" /\ cur \notin AsMems => Same(cur) /\ didFlush[cur] # "NoFlush"

TraceInv == NamedInv /\ PendInv /\ BehindInv /\ UnmappedInv /\ TakenInv

\* A list without its head, with one more name, and without any.
LEMMA NamesTail ==
    ASSUME NEW s \in Seq(Mems), s # <<>>
    PROVE  /\ Head(s) \in Mems /\ Tail(s) \in Seq(Mems) /\ Head(s) \in Names(s)
           /\ Names(s) = {Head(s)} \cup Names(Tail(s))
<1>1. /\ Len(s) \in Nat /\ Len(s) > 0 /\ Head(s) = s[1]
      /\ Head(s) \in Mems /\ Tail(s) \in Seq(Mems)
      /\ Len(Tail(s)) = Len(s) - 1
      /\ \A i \in 1..Len(s) - 1 : Tail(s)[i] = s[i + 1]
    BY HeadTailProperties
<1>2. ASSUME NEW m \in Names(s) PROVE m = Head(s) \/ m \in Names(Tail(s))
    <2>1. PICK i \in 1..Len(s) : m = s[i]
        BY DEF Names
    <2>2. CASE i = 1
        BY <1>1, <2>1, <2>2
    <2>3. CASE i # 1
        <3>1. i - 1 \in 1..Len(Tail(s)) /\ Tail(s)[i - 1] = s[(i - 1) + 1]
            BY <1>1, <2>3
        <3>2. (i - 1) + 1 = i
            OBVIOUS
        <3> QED BY <2>1, <3>1, <3>2 DEF Names
    <2> QED BY <2>2, <2>3
<1>3. ASSUME NEW m \in Names(Tail(s)) PROVE m \in Names(s)
    <2>1. PICK i \in 1..Len(Tail(s)) : m = Tail(s)[i]
        BY DEF Names
    <2>2. i \in 1..Len(s) - 1 /\ i + 1 \in 1..Len(s)
        BY <1>1
    <2> QED BY <1>1, <2>1, <2>2 DEF Names
<1>4. Head(s) \in Names(s)
    BY <1>1 DEF Names
<1> QED BY <1>1, <1>2, <1>3, <1>4

\* What the sequences of memories name.
LEMMA NamesAppend ==
    ASSUME NEW s \in Seq(Mems), NEW m \in Mems
    PROVE  Names(Append(s, m)) = Names(s) \cup {m}
<1>1. /\ Len(s) \in Nat /\ Len(Append(s, m)) = Len(s) + 1
      /\ \A i \in 1..Len(s) : Append(s, m)[i] = s[i]
      /\ Append(s, m)[Len(s) + 1] = m
    BY AppendProperties, LenProperties
<1>2. \A i \in 1..Len(s) + 1 : i \in 1..Len(s) \/ i = Len(s) + 1
    BY <1>1
<1>3. (1..Len(s)) \subseteq 1..Len(s) + 1 /\ Len(s) + 1 \in 1..Len(s) + 1
    BY <1>1
<1> QED BY <1>1, <1>2, <1>3 DEF Names

\* No memory is named by the empty sequence.
LEMMA NamesEmpty == Names(<<>>) = {}
BY DEF Names

\* A step that takes nothing, writes no packet and only marks more pages changes nothing here.
LEMMA TraceStands ==
    ASSUME IInv, TraceInv,
           UNCHANGED <<real, traced, mapped, captured, package, didFlush, call, cur, rest, todo,
                       later, noted>>,
           \/ step' = step
           \/ {step, step'} \subseteq Copying
           \/ {step, step'} \subseteq Syncing,
           \A m \in Mems : active[m] \subseteq active'[m]
    PROVE  TraceInv'
<1>1. \A m \in Mems : Pend(m)' = Pend(m)
    BY DEF Pend, Left, Copying, Syncing
<1>2. \A m \in Mems : Same(m)' <=> Same(m)
    BY DEF Same
<1>3. \A n : Names(todo)' = Names(todo) /\ Names(later)' = Names(later)
    BY DEF Names
<1>4. NamedInv'
    BY <1>3 DEF TraceInv, NamedInv, Flushing, Copying, Syncing
<1>5. PendInv'
    BY <1>1 DEF TraceInv, PendInv, Flushing, Copying, Syncing
<1>6. BehindInv' /\ UnmappedInv'
    BY <1>1, <1>2 DEF TraceInv, BehindInv, UnmappedInv
<1>7. TakenInv'
    <2>1. mapped \in SUBSET Mems /\ (step \in {"drop"} \cup Flushing => cur \in Mems)
        BY DEF IInv, TypeOK, HolderInv, Flushing, Copying
    <2> QED BY <1>1, <1>2, <1>3, <2>1 DEF TraceInv, TakenInv, Flushing, Copying, Syncing
<1> QED BY <1>4, <1>5, <1>6, <1>7 DEF TraceInv

\* Steps of the application and the handler write no packet and take no page.
LEMMA StandingSteps ==
    ASSUME IInv, TraceInv,
           \/ Protect \/ SyncOpen \/ SyncCopy
           \/ \E t \in Threads : StoreStep(t) \/ FaultStep(t) \/ HandlerEnter(t) \/ HandlerStep(t)
    PROVE  TraceInv'
<1>1. active \in [Mems -> SUBSET Pages]
    BY DEF IInv, TypeOK
<1>2. ASSUME NEW t \in Threads, StoreStep(t) \/ FaultStep(t) \/ HandlerEnter(t) \/ HandlerUnprotect(t)
      PROVE  TraceInv'
    BY <1>2, TraceStands DEF StoreStep, FaultStep, Store, Fault, HandlerEnter, HandlerUnprotect,
                             memVars, lockVars
<1>3. ASSUME NEW t \in Threads, HandlerMark(t)
      PROVE  TraceInv'
    <2>1. target[t] \in Mems \X Pages
        BY <1>3 DEF HandlerMark, IInv, HandlerInv
    <2>2. \A m \in Mems : active[m] \subseteq active'[m]
        BY <1>1, <1>3, <2>1 DEF HandlerMark
    <2> QED BY <1>3, <2>2, TraceStands DEF HandlerMark, lockVars
<1>4. CASE Protect
    BY <1>4, TraceStands DEF Protect, Copying
<1>5. CASE SyncOpen
    <2>1. \A m \in Mems : active[m] \subseteq active'[m]
        BY <1>1, <1>5 DEF SyncOpen
    <2> QED BY <1>5, <2>1, TraceStands DEF SyncOpen, Syncing
<1>6. CASE SyncCopy
    BY <1>6, TraceStands DEF SyncCopy, Syncing
<1> QED BY <1>2, <1>3, <1>4, <1>5, <1>6 DEF HandlerStep

\* Between two entry points all that counts is what is marked.
LEMMA TraceRests ==
    ASSUME step' = "none", call' = "none", todo' = <<>>, later' = <<>>,
           \A m \in Mems : DOMAIN package'[m] = {},
           UnmappedInv',
           \A m \in Mems \ AsMems : \A p \in Pages : traced'[m][p] # real'[m][p] => p \in active'[m]
    PROVE  TraceInv'
<1>1. \A m \in Mems : Pend(m)' = {}
    BY DEF Pend, Left, Copying
<1>2. Names(todo)' = {} /\ Names(later)' = {}
    BY DEF Names
<1>3. NamedInv' /\ PendInv' /\ BehindInv' /\ TakenInv'
    BY <1>1, <1>2 DEF NamedInv, PendInv, BehindInv, TakenInv, Flushing, Copying
<1> QED BY <1>3 DEF TraceInv

\* Outside a flush there are no packages.
LEMMA NoPackages ==
    ASSUME IInv, TraceInv, call # "flush", step \notin Flushing
    PROVE  /\ \A m \in Mems : DOMAIN package[m] = {} /\ Pend(m) = {}
           /\ \A m \in Mems \ AsMems : \A p \in Pages :
                traced[m][p] # real[m][p] => p \in active[m]
<1>1. \A m \in Mems : DOMAIN package[m] = {}
    BY DEF TraceInv, PendInv
<1>2. \A m \in Mems : Pend(m) = {}
    BY <1>1 DEF Pend, Left, Flushing
<1> QED BY <1>1, <1>2 DEF TraceInv, BehindInv

\* Calls change neither the trace nor the real memory.
LEMMA TraceCall ==
    ASSUME IInv, TraceInv, NEW t \in Threads, CallStep(t)
    PROVE  TraceInv'
<1>1. Free /\ step = "none" /\ call = "none"
    BY DEF CallStep, MapMemory, FlushRanges, QueueSubmit, ReleaseMemory, Enter, IInv, HolderInv,
           CallInv
<1>2. /\ \A m \in Mems : DOMAIN package[m] = {} /\ Pend(m) = {}
      /\ \A m \in Mems \ AsMems : \A p \in Pages :
                traced[m][p] # real[m][p] => p \in active[m]
    BY <1>1, NoPackages DEF Flushing, Copying
<1>3. /\ mapped \in SUBSET Mems /\ Cardinality(mapped) \in Nat
      /\ active \in [Mems -> SUBSET Pages] /\ captured \in [Mems -> SUBSET Pages]
    BY KindsOfMemory, FS_Subset, FS_CardinalityType DEF IInv, TypeOK
<1>4. UNCHANGED <<real, traced, package, didFlush>>
    BY DEF CallStep, MapMemory, FlushRanges, QueueSubmit, ReleaseMemory, memVars
<1>5. \A m \in Mems : Same(m)' <=> Same(m)
    BY <1>4 DEF Same
<1>6. Names(todo) \cup Names(later) \subseteq mapped
    BY DEF TraceInv, NamedInv
<1>7. ASSUME NEW m \in Mems, MapMemory(t, m)
      PROVE  TraceInv'
    <2>1. /\ mapped' = mapped \cup {m} /\ m \notin mapped
          /\ active' = [active EXCEPT ![m] = {}] /\ captured' = [captured EXCEPT ![m] = {}]
          /\ UNCHANGED <<step, call, cur, rest, todo, later, noted>>
        BY <1>7 DEF MapMemory, lockVars
    <2>2. NamedInv'
        BY <1>1, <1>6, <2>1 DEF NamedInv, Flushing, Copying, Names
    <2>3. \A n \in Mems : Pend(n)' = {} /\ DOMAIN package'[n] = {}
        BY <1>1, <1>2, <1>4, <2>1 DEF Pend, Left, Copying
    <2>4. PendInv'
        BY <2>3 DEF PendInv
    <2>5. BehindInv'
        <3> SUFFICES ASSUME NEW n \in Mems \ AsMems, NEW p \in Pages, traced[n][p] # real[n][p]
                     PROVE  p \in active'[n]
            BY <1>4 DEF BehindInv
        <3>1. n # m
            BY <2>1 DEF TraceInv, UnmappedInv, Same
        <3> QED BY <1>2, <1>3, <2>1, <3>1
    <2>6. UnmappedInv' /\ TakenInv'
        BY <1>1, <1>5, <2>1 DEF TraceInv, UnmappedInv, TakenInv, Flushing, Copying
    <2> QED BY <2>2, <2>4, <2>5, <2>6 DEF TraceInv
<1>8. ASSUME UNCHANGED <<mapped, active, captured, rest>>, step' \in {"swap", "choose", "drop"},
             NamedInv', TakenInv'
      PROVE  TraceInv'
    <2>1. \A n \in Mems : Pend(n)' = {} /\ DOMAIN package'[n] = {}
        BY <1>2, <1>4, <1>8 DEF Pend, Left, Copying
    <2>2. PendInv'
        BY <2>1 DEF PendInv
    <2>3. BehindInv' /\ UnmappedInv'
        BY <1>2, <1>4, <1>5, <1>8 DEF BehindInv, TraceInv, UnmappedInv
    <2> QED BY <1>8, <2>2, <2>3 DEF TraceInv
<1>9. ASSUME NEW ranges \in RangeLists, FlushRanges(t, ranges)
      PROVE  TraceInv'
    <2>1. ranges \in Seq(Mems) /\ ranges # <<>> /\ Names(ranges) \subseteq mapped
        BY <1>9, RangesNameMemory DEF FlushRanges, Names
    <2>2. /\ Head(ranges) \in Names(ranges)
          /\ Names(Tail(ranges)) \subseteq Names(ranges)
        BY <2>1, NamesTail
    <2>3. /\ call' = "flush" /\ step' = "swap" /\ cur' = Head(ranges) /\ todo' = Tail(ranges)
          /\ noted' = Names(ranges) /\ later' = later
          /\ UNCHANGED <<mapped, active, captured, rest>>
        BY <1>9 DEF FlushRanges, Enter, memVars, Names
    <2>4. Names(todo)' \subseteq Names(ranges) /\ Names(later)' \subseteq mapped
        <3>1. Names(todo)' = Names(Tail(ranges)) /\ Names(later)' = Names(later)
            BY <2>3 DEF Names
        <3> QED BY <1>6, <2>2, <3>1
    <2>5. NamedInv'
        BY <2>1, <2>2, <2>3, <2>4 DEF NamedInv
    <2>6. TakenInv'
        BY <2>3 DEF TakenInv
    <2> QED BY <1>8, <2>3, <2>5, <2>6
<1>10. CASE QueueSubmit(t)
    <2>1. PICK order \in [1..Cardinality(mapped) -> mapped] :
            /\ {order[i] : i \in 1..Cardinality(mapped)} = mapped
            /\ todo' = order
        BY <1>10 DEF QueueSubmit
    <2>2. Len(order) = Cardinality(mapped)
        BY <1>3
    <2>3. Names(todo)' = mapped
        BY <2>1, <2>2 DEF Names
    <2>4. /\ call' = "submit" /\ step' = "choose"
          /\ UNCHANGED <<mapped, active, captured, rest, cur, later>>
        BY <1>10 DEF QueueSubmit, Enter, memVars
    <2>5. Names(later)' \subseteq mapped
        BY <1>6, <2>4 DEF Names
    <2>6. NamedInv'
        BY <2>3, <2>4, <2>5 DEF NamedInv, Flushing, Copying
    <2>7. TakenInv'
        BY <2>3, <2>4 DEF TakenInv, Flushing, Copying
    <2> QED BY <1>8, <2>4, <2>6, <2>7
<1>11. ASSUME NEW m \in Mems, NEW name \in {"unmap", "free"}, ReleaseMemory(t, m, name)
      PROVE  TraceInv'
    <2>1. /\ call' \in {"unmap", "free"} /\ step' \in {"swap", "drop"} /\ cur' = m /\ m \in mapped
          /\ step' = "drop" => m \in AsMems
          /\ UNCHANGED <<mapped, active, captured, rest, todo, later>>
        BY <1>11 DEF ReleaseMemory, Skipping, Enter, memVars
    <2>2. NamedInv'
        BY <1>6, <2>1 DEF NamedInv, Flushing, Copying, Names
    <2>3. TakenInv'
        BY <2>1 DEF TakenInv, Flushing, Copying
    <2> QED BY <1>8, <2>1, <2>2, <2>3
<1> QED BY <1>7, <1>9, <1>10, <1>11 DEF CallStep

\* A flush takes the marked pages; the ones of an earlier range are marked again.
LEMMA TraceSwap ==
    ASSUME IInv, TraceInv, Swap
    PROVE  TraceInv'
<1>1. /\ step = "swap" /\ cur \in Mems
      /\ active' = [active EXCEPT ![cur] = captured[cur]]
      /\ captured' = [captured EXCEPT ![cur] = active[cur]]
      /\ rest' = active[cur]
      /\ package' = [package EXCEPT ![cur] = Nothing]
      /\ step' = IF active[cur] = {} THEN "back" ELSE "protect"
      /\ UNCHANGED <<real, traced, mapped, call, cur, todo, later, noted>>
    BY DEF Swap, IInv, HolderInv
<1>2. /\ active \in [Mems -> SUBSET Pages] /\ captured \in [Mems -> SUBSET Pages]
      /\ DOMAIN package = Mems
    BY DEF IInv, TypeOK
<1>3. /\ active'[cur] = captured[cur] /\ captured'[cur] = active[cur]
      /\ DOMAIN package'[cur] = {}
      /\ \A m \in Mems : m # cur => /\ active'[m] = active[m] /\ captured'[m] = captured[m]
                                   /\ package'[m] = package[m]
    BY <1>1, <1>2 DEF Nothing
<1>4. /\ Pend(cur)' = active[cur] /\ Pend(cur) = DOMAIN package[cur]
      /\ \A m \in Mems : m = cur => Pend(m)' = active[m] /\ Pend(m) = DOMAIN package[m]
      /\ \A m \in Mems : m # cur => Pend(m)' = Pend(m)
    BY <1>1, <1>3 DEF Pend, Left, Copying
<1>5. \A m \in Mems : Same(m)' <=> Same(m)
    BY <1>1 DEF Same
<1>6. Names(todo)' = Names(todo) /\ Names(later)' = Names(later)
    BY <1>1 DEF Names
<1>7. NamedInv'
    BY <1>1, <1>6 DEF TraceInv, NamedInv, Flushing, Copying
<1>8. PendInv'
    <2> SUFFICES ASSUME NEW m \in Mems
                 PROVE  /\ DOMAIN package'[m] # {} =>
                                \/ call = "flush" /\ m \in noted
                                \/ call # "flush" /\ cur = m /\ step' \in Flushing
                        /\ Pend(m)' \subseteq captured'[m]
                        /\ \A p \in DOMAIN package'[m] :
                                \/ package'[m][p] = real[m][p]
                                \/ cur = m /\ step' \in Copying \cup {"back"}
        BY <1>1 DEF PendInv
    <2>1. CASE m = cur
        BY <1>1, <1>3, <1>4, <2>1
    <2>2. CASE m # cur
        BY <1>1, <1>3, <1>4, <2>2 DEF TraceInv, PendInv
    <2> QED BY <2>1, <2>2
<1>9. BehindInv'
    <2> SUFFICES ASSUME NEW m \in Mems \ AsMems, NEW p \in Pages, traced[m][p] # real[m][p]
                 PROVE  p \in active'[m] \cup Pend(m)'
        BY <1>1 DEF BehindInv
    <2>1. p \in active[m] \cup Pend(m) /\ Pend(m) \subseteq captured[m]
        BY DEF TraceInv, BehindInv, PendInv
    <2>2. CASE m = cur
        BY <1>3, <1>4, <2>1, <2>2
    <2>3. CASE m # cur
        BY <1>3, <1>4, <2>1, <2>3
    <2> QED BY <2>2, <2>3
<1>10. UnmappedInv'
    BY <1>1, <1>5 DEF TraceInv, UnmappedInv
<1>11. TakenInv'
    <2>1. ASSUME call \in {"submit", "unmap", "free"}, cur \notin AsMems, NEW p \in Pages,
                 traced[cur][p] # real[cur][p]
          PROVE  p \in Pend(cur)'
        <3>1. DOMAIN package[cur] = {}
            BY <1>1, <2>1 DEF TraceInv, PendInv, Flushing, Copying
        <3>2. p \in active[cur] \cup Pend(cur)
            BY <1>1, <2>1 DEF TraceInv, BehindInv
        <3> QED BY <1>4, <3>1, <3>2
    <2>2. call = "submit" => \A m \in mapped \ AsMems :
            \/ m \in Names(todo) \cup Names(later)
            \/ m = cur
            \/ Same(m)
        BY <1>1 DEF TraceInv, TakenInv
    <2>3. mapped \in SUBSET Mems
        BY DEF IInv, TypeOK
    <2> QED BY <1>1, <1>5, <1>6, <2>1, <2>2, <2>3 DEF TakenInv, Flushing, Copying
<1> QED BY <1>7, <1>8, <1>9, <1>10, <1>11 DEF TraceInv

\* A page goes from the list to the package.
LEMMA TraceCopy ==
    ASSUME IInv, TraceInv, Copy
    PROVE  TraceInv'
<1> DEFINE G(p) == [q \in DOMAIN package[cur] \cup {p} |->
                        IF q = p THEN shadow[cur][p] ELSE package[cur][q]]
<1>1. PICK p \in rest : /\ package' = [package EXCEPT ![cur] = G(p)]
                       /\ rest' = rest \ {p}
                       /\ step' = IF rest = {p} THEN "back" ELSE "protect"
    BY DEF Copy
<1>2. /\ step = "copy" /\ cur \in Mems /\ DOMAIN package = Mems
      /\ UNCHANGED <<real, traced, mapped, active, captured, call, cur, todo, later, noted>>
    BY DEF Copy, IInv, HolderInv, TypeOK
<1>3. /\ DOMAIN package'[cur] = DOMAIN package[cur] \cup {p}
      /\ \A m \in Mems : m # cur => package'[m] = package[m]
    BY <1>1, <1>2
<1> HIDE DEF G
<1>4. \A m \in Mems : Pend(m)' = Pend(m)
    <2>1. Left(cur)' = rest \ {p} /\ Left(cur) = rest
        BY <1>1, <1>2 DEF Left, Copying
    <2>2. \A m \in Mems : m # cur => Left(m)' = {} /\ Left(m) = {}
        BY <1>2 DEF Left
    <2>3. (DOMAIN package[cur] \cup {p}) \cup (rest \ {p}) = DOMAIN package[cur] \cup rest
        BY <1>1
    <2>4. \A m \in Mems : m = cur => Pend(m)' = Pend(m)
        BY <1>1, <1>2, <1>3, <2>1, <2>3 DEF Pend, Left, Copying
    <2>5. \A m \in Mems : m # cur => Pend(m)' = Pend(m)
        BY <1>3, <2>2 DEF Pend
    <2> QED BY <2>4, <2>5
<1>5. \A m \in Mems : Same(m)' <=> Same(m)
    BY <1>2 DEF Same
<1>6. Names(todo)' = Names(todo) /\ Names(later)' = Names(later)
    BY <1>2 DEF Names
<1>7. step' \in {"back", "protect"}
    BY <1>1
<1>8. NamedInv'
    BY <1>2, <1>6, <1>7 DEF TraceInv, NamedInv, Flushing, Copying
<1>9. PendInv'
    <2> SUFFICES ASSUME NEW m \in Mems
                 PROVE  /\ DOMAIN package'[m] # {} =>
                                \/ call = "flush" /\ m \in noted
                                \/ call # "flush" /\ cur = m /\ step' \in Flushing
                        /\ Pend(m)' \subseteq captured[m]
                        /\ \A q \in DOMAIN package'[m] :
                                \/ package'[m][q] = real[m][q]
                                \/ cur = m /\ step' \in Copying \cup {"back"}
        BY <1>2 DEF PendInv
    <2>1. Pend(m)' \subseteq captured[m]
        BY <1>4 DEF TraceInv, PendInv
    <2>2. CASE m = cur
        BY <1>2, <1>7, <2>1, <2>2 DEF Flushing, Copying, TraceInv, NamedInv, IInv, CallInv
    <2>3. CASE m # cur
        BY <1>2, <1>3, <2>1, <2>3 DEF TraceInv, PendInv
    <2> QED BY <2>2, <2>3
<1>10. BehindInv' /\ UnmappedInv'
    BY <1>2, <1>4, <1>5 DEF TraceInv, BehindInv, UnmappedInv
<1>11. TakenInv'
    <2>1. mapped \in SUBSET Mems
        BY DEF IInv, TypeOK
    <2> QED BY <1>2, <1>4, <1>5, <1>6, <1>7, <2>1 DEF TraceInv, TakenInv, Flushing, Copying
<1> QED BY <1>8, <1>9, <1>10, <1>11 DEF TraceInv

\* What is in the package gets into the real memory as it will get into the trace.
LEMMA TraceCopyBack ==
    ASSUME IInv, TraceInv, CopyBack
    PROVE  TraceInv'
<1>1. /\ step = "back" /\ cur \in Mems /\ rest = {}
      /\ real' = [real EXCEPT ![cur] = Patched(@, package[cur])]
      /\ UNCHANGED <<traced, mapped, active, captured, package, call, rest, later, noted>>
      /\ \/ call = "flush" /\ todo # <<>>
            /\ step' = "swap" /\ cur' = Head(todo) /\ todo' = Tail(todo)
         \/ step' = "record" /\ cur' = cur /\ todo' = todo
    BY DEF CopyBack, IInv, HolderInv, Copying
<1>2. /\ todo \in Seq(Mems) /\ mapped \in SUBSET Mems /\ real \in Contents
      /\ \E D \in SUBSET Pages : package[cur] \in [D -> Page]
    BY <1>1 DEF IInv, TypeOK
<1>3. /\ \A p \in DOMAIN package[cur] : real'[cur][p] = package[cur][p]
      /\ \A p \in Pages : p \notin DOMAIN package[cur] => real'[cur][p] = real[cur][p]
      /\ \A m \in Mems : m # cur => real'[m] = real[m]
    BY <1>1, <1>2 DEF Contents, Patched
<1>4. /\ \A m \in Mems : Pend(m)' = Pend(m)
      /\ Pend(cur) = DOMAIN package[cur]
    BY <1>1 DEF Pend, Left, Copying
<1>5. \A m \in Mems : m # cur => (Same(m)' <=> Same(m))
    BY <1>1, <1>3 DEF Same
<1>6. /\ Names(todo)' \subseteq Names(todo) /\ Names(later)' = Names(later)
      /\ step' = "swap" => cur' \in Names(todo)
      /\ call # "flush" => Names(todo)' = Names(todo) /\ step' = "record" /\ cur' = cur
    <2>1. Names(later)' = Names(later) /\ (todo' = todo => Names(todo)' = Names(todo))
        BY <1>1 DEF Names
    <2>2. CASE todo # <<>> /\ todo' = Tail(todo) /\ cur' = Head(todo) /\ call = "flush"
        <3>1. Head(todo) \in Names(todo) /\ Names(Tail(todo)) \subseteq Names(todo)
            BY <1>2, <2>2, NamesTail
        <3>2. Names(todo)' = Names(Tail(todo))
            BY <2>2 DEF Names
        <3> QED BY <2>1, <2>2, <3>1, <3>2
    <2>3. CASE step' = "record" /\ cur' = cur /\ todo' = todo
        BY <2>1, <2>3
    <2> QED BY <1>1, <2>2, <2>3
<1>7. NamedInv'
    <2>1. /\ call = "flush" => cur \in noted /\ Names(todo) \subseteq noted
          /\ Names(todo) \cup Names(later) \subseteq mapped
          /\ cur \in mapped
        BY <1>1 DEF TraceInv, NamedInv, Flushing
    <2> QED BY <1>1, <1>6, <2>1 DEF NamedInv, Flushing, Copying
<1>8. PendInv'
    <2> SUFFICES ASSUME NEW m \in Mems
                 PROVE  /\ DOMAIN package[m] # {} =>
                                \/ call = "flush" /\ m \in noted
                                \/ call # "flush" /\ cur' = m /\ step' \in Flushing
                        /\ Pend(m)' \subseteq captured[m]
                        /\ \A p \in DOMAIN package[m] : package[m][p] = real'[m][p]
        BY <1>1 DEF PendInv
    <2>1. Pend(m)' \subseteq captured[m]
        BY <1>4 DEF TraceInv, PendInv
    <2>2. DOMAIN package[m] # {} =>
            \/ call = "flush" /\ m \in noted
            \/ call # "flush" /\ cur' = m /\ step' \in Flushing
        BY <1>1, <1>6 DEF TraceInv, PendInv, Flushing
    <2>3. CASE m = cur
        BY <1>3, <2>1, <2>2, <2>3
    <2>4. CASE m # cur
        BY <1>1, <1>3, <2>1, <2>2, <2>4 DEF TraceInv, PendInv
    <2> QED BY <2>3, <2>4
<1>9. BehindInv'
    <2> SUFFICES ASSUME NEW m \in Mems \ AsMems, NEW p \in Pages, traced[m][p] # real'[m][p],
                        m = cur => p \notin DOMAIN package[cur]
                 PROVE  p \in active[m] \cup Pend(m)
        BY <1>1, <1>4 DEF BehindInv
    <2>1. traced[m][p] # real[m][p]
        BY <1>3
    <2> QED BY <2>1 DEF TraceInv, BehindInv
<1>10. UnmappedInv'
    <2>1. cur \in mapped
        BY <1>1 DEF TraceInv, NamedInv, Flushing
    <2> QED BY <1>1, <1>5, <2>1 DEF TraceInv, UnmappedInv
<1>11. TakenInv'
    <2>1. ASSUME call \in {"submit", "unmap", "free"}, cur \notin AsMems, NEW p \in Pages,
                 traced[cur][p] # real'[cur][p]
          PROVE  p \in Pend(cur)
        <3>1. CASE p \in DOMAIN package[cur]
            BY <1>4, <3>1
        <3>2. CASE p \notin DOMAIN package[cur]
            BY <1>1, <1>3, <2>1, <3>2 DEF TraceInv, TakenInv, Flushing
        <3> QED BY <3>1, <3>2
    <2>2. call = "submit" => \A m \in mapped \ AsMems :
            \/ m \in Names(todo) \cup Names(later)
            \/ m = cur
            \/ Same(m)
        BY DEF TraceInv, TakenInv
    <2>3. /\ call \in {"submit", "unmap", "free"} => step' = "record" /\ cur' = cur
          /\ step' # "drop" /\ call' = call
        BY <1>1
    <2>4. call' \in {"submit", "unmap", "free"} /\ cur' \notin AsMems /\ step' \in Flushing =>
            \A p \in Pages : traced'[cur'][p] # real'[cur'][p] => p \in Pend(cur)
        BY <1>1, <2>1, <2>3
    <2>5. call' = "submit" => \A m \in mapped \ AsMems :
            \/ m \in Names(todo)' \cup Names(later)'
            \/ m = cur'
            \/ Same(m)'
        BY <1>2, <1>5, <1>6, <2>2, <2>3
    <2> QED BY <1>1, <1>4, <2>3, <2>4, <2>5 DEF TakenInv, Flushing
<1> QED BY <1>7, <1>8, <1>9, <1>10, <1>11 DEF TraceInv

\* A packet gives the replay what the package has, which the real memory has already.
LEMMA PacketCatchesUp ==
    ASSUME IInv, TraceInv, NEW m \in Mems, WritePacket(m), UNCHANGED real, step = "record"
    PROVE  /\ DOMAIN package'[m] = {}
           /\ \A n \in Mems : n # m => package'[n] = package[n] /\ captured'[n] = captured[n]
           /\ \A n \in Mems, p \in Pages : traced'[n][p] # real'[n][p] =>
                    traced[n][p] # real[n][p] /\ (n = m => p \notin DOMAIN package[m])
           /\ \A n \in Mems : Same(n) => Same(n)'
<1>1. /\ traced' = [traced EXCEPT ![m] = Patched(@, package[m])]
      /\ captured' = [captured EXCEPT ![m] = {}]
      /\ package' = [package EXCEPT ![m] = Nothing]
    BY DEF WritePacket
<1>2. /\ traced \in Contents /\ DOMAIN package = Mems /\ captured \in [Mems -> SUBSET Pages]
      /\ \E D \in SUBSET Pages : package[m] \in [D -> Page]
    BY DEF IInv, TypeOK
<1>3. DOMAIN package'[m] = {}
    BY <1>1, <1>2 DEF Nothing
<1>4. \A n \in Mems : n # m => package'[n] = package[n] /\ captured'[n] = captured[n]
    BY <1>1, <1>2
<1>5. ASSUME NEW n \in Mems, NEW p \in Pages, traced'[n][p] # real'[n][p]
      PROVE  traced[n][p] # real[n][p] /\ (n = m => p \notin DOMAIN package[m])
    <2>1. CASE n # m
        BY <1>1, <1>2, <1>5, <2>1 DEF Contents
    <2>2. CASE n = m
        <3>1. traced'[m] = Patched(traced[m], package[m])
            BY <1>1, <1>2 DEF Contents
        <3>2. p \in DOMAIN package[m] => package[m][p] = real[m][p]
            BY DEF TraceInv, PendInv, Copying
        <3>3. traced'[m][p] = IF p \in DOMAIN package[m] THEN package[m][p] ELSE traced[m][p]
            BY <3>1 DEF Patched
        <3> QED BY <1>5, <2>2, <3>2, <3>3
    <2> QED BY <2>1, <2>2
<1>6. \A n \in Mems : Same(n) => Same(n)'
    BY <1>5 DEF Same
<1> QED BY <1>3, <1>4, <1>5, <1>6

\* One packet of vkFlushMappedMemoryRanges.
LEMMA TraceRecordRanges ==
    ASSUME IInv, TraceInv, RecordRanges
    PROVE  TraceInv'
<1>1. PICK m \in noted :
        /\ WritePacket(m)
        /\ IF noted = {m} THEN Exit
           ELSE noted' = noted \ {m} /\ UNCHANGED <<holder, step, call, cur, rest, todo, later>>
    BY DEF RecordRanges
<1>2. /\ step = "record" /\ call = "flush" /\ m \in Mems /\ rest = {}
      /\ UNCHANGED <<real, mapped, active>>
    BY DEF RecordRanges, IInv, TypeOK, HolderInv, Copying
<1>3. /\ DOMAIN package'[m] = {}
      /\ \A n \in Mems : n # m => package'[n] = package[n] /\ captured'[n] = captured[n]
      /\ \A n \in Mems, p \in Pages : traced'[n][p] # real'[n][p] =>
                    traced[n][p] # real[n][p] /\ (n = m => p \notin DOMAIN package[m])
      /\ \A n \in Mems : Same(n) => Same(n)'
    BY <1>1, <1>2, PacketCatchesUp
<1>4. UnmappedInv'
    BY <1>2, <1>3 DEF TraceInv, UnmappedInv
<1>5. ASSUME NEW n \in Mems \ AsMems, NEW p \in Pages, traced'[n][p] # real'[n][p]
      PROVE  p \in active'[n] \cup (IF n = m THEN {} ELSE DOMAIN package[n])
    <2>1. traced[n][p] # real[n][p] /\ (n = m => p \notin DOMAIN package[m])
        BY <1>3, <1>5
    <2>2. p \in active[n] \cup DOMAIN package[n]
        BY <1>2, <2>1 DEF TraceInv, BehindInv, Pend, Left, Copying
    <2> QED BY <1>2, <2>1, <2>2
<1>6. \A n \in Mems : DOMAIN package[n] # {} => n \in noted
    BY <1>2 DEF TraceInv, PendInv
<1>7. CASE noted = {m}
    <2>1. \A n \in Mems : DOMAIN package'[n] = {}
        BY <1>3, <1>6, <1>7
    <2>2. \A n \in Mems \ AsMems, p \in Pages : traced'[n][p] # real'[n][p] => p \in active'[n]
        BY <1>5, <1>6, <1>7
    <2> QED BY <1>1, <1>4, <1>7, <2>1, <2>2, TraceRests DEF Exit
<1>8. CASE noted # {m}
    <2>1. noted' = noted \ {m} /\ UNCHANGED <<step, call, cur, rest, todo, later>>
        BY <1>1, <1>8
    <2>2. \A n \in Mems : Pend(n)' = DOMAIN package'[n] /\ Pend(n) = DOMAIN package[n]
        BY <1>2, <2>1 DEF Pend, Left, Copying
    <2>3. NamedInv'
        <3>1. Names(todo)' = Names(todo) /\ Names(later)' = Names(later)
            BY <2>1 DEF Names
        <3> QED BY <1>2, <2>1, <3>1 DEF TraceInv, NamedInv
    <2>4. PendInv'
        BY <1>2, <1>3, <1>6, <2>1, <2>2 DEF TraceInv, PendInv, Copying
    <2>5. BehindInv'
        BY <1>3, <1>5, <2>2 DEF BehindInv
    <2>6. TakenInv'
        BY <1>2, <2>1 DEF TakenInv
    <2> QED BY <1>4, <2>3, <2>4, <2>5, <2>6 DEF TraceInv
<1> QED BY <1>7, <1>8

\* After the packet of one memory the replay lacks nothing of it.
LEMMA TraceRecordOne ==
    ASSUME IInv, TraceInv, RecordOne
    PROVE  TraceInv'
<1>1. /\ step = "record" /\ call \in {"submit", "unmap", "free"} /\ cur \in Mems /\ rest = {}
      /\ WritePacket(cur)
      /\ UNCHANGED <<real, mapped, active, call, rest, todo, later, noted>>
      /\ step' = IF call = "submit" THEN "choose" ELSE "drop"
      /\ cur' = IF call = "submit" THEN NoMem ELSE cur
    BY DEF RecordOne, IInv, TypeOK, HolderInv, CallInv, Copying
<1>2. /\ DOMAIN package'[cur] = {}
      /\ \A n \in Mems : n # cur => package'[n] = package[n] /\ captured'[n] = captured[n]
      /\ \A n \in Mems, p \in Pages : traced'[n][p] # real'[n][p] =>
                    traced[n][p] # real[n][p] /\ (n = cur => p \notin DOMAIN package[cur])
      /\ \A n \in Mems : Same(n) => Same(n)'
    BY <1>1, PacketCatchesUp
<1>3. \A n \in Mems : n # cur => DOMAIN package[n] = {}
    BY <1>1 DEF TraceInv, PendInv
<1>4. \A n \in Mems : DOMAIN package'[n] = {} /\ Pend(n)' = {} /\ Pend(n) = DOMAIN package[n]
    <2>1. \A n \in Mems : DOMAIN package'[n] = {}
        BY <1>2, <1>3
    <2> QED BY <1>1, <2>1 DEF Pend, Left, Copying
<1>5. \A n \in Mems : n = cur /\ n \notin AsMems => Same(n)'
    <2> SUFFICES ASSUME NEW n \in Mems, n = cur, n \notin AsMems, NEW p \in Pages,
                        traced'[n][p] # real'[n][p]
                 PROVE  FALSE
        BY DEF Same
    <2>1. traced[n][p] # real[n][p] /\ p \notin DOMAIN package[n]
        BY <1>2
    <2>2. p \in Pend(cur)
        BY <1>1, <2>1 DEF TraceInv, TakenInv, Flushing
    <2> QED BY <1>1, <1>4, <2>1, <2>2
<1>6. Names(todo)' = Names(todo) /\ Names(later)' = Names(later)
    BY <1>1 DEF Names
<1>7. NamedInv'
    BY <1>1, <1>6 DEF TraceInv, NamedInv, Flushing, Copying
<1>8. PendInv'
    BY <1>4 DEF PendInv
<1>9. BehindInv' /\ UnmappedInv'
    <2>1. UnmappedInv'
        BY <1>1, <1>2 DEF TraceInv, UnmappedInv
    <2>2. ASSUME NEW n \in Mems \ AsMems, NEW p \in Pages, traced'[n][p] # real'[n][p]
          PROVE  p \in active[n]
        <3>1. traced[n][p] # real[n][p] /\ p \notin DOMAIN package[n]
            BY <1>2, <1>3, <2>2
        <3> QED BY <1>4, <3>1 DEF TraceInv, BehindInv
    <2> QED BY <1>1, <2>1, <2>2 DEF BehindInv
<1>10. TakenInv'
    <2>1. step' \notin Flushing
        BY <1>1 DEF Flushing, Copying
    <2>2. call = "submit" => \A m \in mapped \ AsMems :
            m \in Names(todo) \cup Names(later) \/ Same(m)'
        BY <1>2, <1>5 DEF TraceInv, TakenInv, IInv, TypeOK
    <2>3. call # "submit" /\ cur \notin AsMems => /\ \A p \in Pages : traced'[cur][p] = real'[cur][p]
                                                  /\ didFlush'[cur] # "NoFlush"
        <3>1. call # "submit" => didFlush'[cur] = "InternalFlush"
            BY <1>1 DEF RecordOne, IInv, TypeOK
        <3> QED BY <1>1, <1>5, <3>1 DEF Same
    <2>4. step' = "drop" /\ cur' \notin AsMems => Same(cur)' /\ didFlush'[cur'] # "NoFlush"
        BY <1>1, <2>3 DEF Same
    <2> QED BY <1>1, <1>6, <2>1, <2>2, <2>4 DEF TakenInv
<1> QED BY <1>7, <1>8, <1>9, <1>10 DEF TraceInv

\* A submission goes through the mapped memories; it leaves out none but AsMems.
LEMMA ChooseNames ==
    ASSUME IInv, TraceInv, ChooseNow \/ ChooseLater \/ FlushedAll
    PROVE  /\ step' \in {"choose", "run", "swap"}
           /\ step' = "run" => todo' = <<>> /\ later' = <<>>
           /\ step' = "swap" => cur' \in mapped
           /\ Names(todo)' \cup Names(later)' \subseteq mapped
           /\ \A m \in mapped \ AsMems : m \in Names(todo) \cup Names(later) =>
                 m \in Names(todo)' \cup Names(later)' \/ (step' = "swap" /\ m = cur')
<1>1. step = "choose"
    BY DEF ChooseNow, ChooseLater, FlushedAll
<1>2. /\ todo \in Seq(Mems) /\ later \in Seq(Mems) /\ mapped \in SUBSET Mems
      /\ Names(todo) \cup Names(later) \subseteq mapped
    BY DEF IInv, TypeOK, TraceInv, NamedInv
<1>3. CASE ChooseNow
    <2>1. /\ todo # <<>> /\ todo' = Tail(todo)
          /\ \/ step' = "choose" /\ later' = Append(later, Head(todo))
             \/ step' = "swap" /\ cur' = Head(todo) /\ later' = later
             \/ step' = "choose" /\ Head(todo) \in AsMems /\ later' = later
        BY <1>1, <1>3 DEF ChooseNow, Skipping
    <2>2. /\ Head(todo) \in Mems /\ Names(todo) = {Head(todo)} \cup Names(Tail(todo))
        BY <1>2, <2>1, NamesTail
    <2>3. Names(Append(later, Head(todo))) = Names(later) \cup {Head(todo)}
        BY <1>2, <2>2, NamesAppend
    <2>4. Names(todo)' = Names(Tail(todo))
        BY <2>1 DEF Names
    <2>5. \/ step' = "choose" /\ Names(later)' = Names(Append(later, Head(todo)))
          \/ step' = "swap" /\ cur' = Head(todo) /\ Names(later)' = Names(later)
          \/ step' = "choose" /\ Head(todo) \in AsMems /\ Names(later)' = Names(later)
        BY <2>1 DEF Names
    <2> QED BY <1>2, <2>2, <2>3, <2>4, <2>5
<1>4. CASE ChooseLater
    <2>1. /\ later # <<>> /\ later' = Tail(later) /\ todo' = todo
          /\ \/ step' = "swap" /\ cur' = Head(later)
             \/ step' = "choose" /\ Head(later) \in AsMems
        BY <1>1, <1>4 DEF ChooseLater, Skipping
    <2>2. /\ Head(later) \in Mems /\ Names(later) = {Head(later)} \cup Names(Tail(later))
        BY <1>2, <2>1, NamesTail
    <2>3. Names(later)' = Names(Tail(later)) /\ Names(todo)' = Names(todo)
        BY <2>1 DEF Names
    <2> QED BY <1>2, <2>1, <2>2, <2>3
<1>5. CASE FlushedAll
    <2>1. /\ todo = <<>> /\ later = <<>> /\ step' = "run" /\ todo' = todo /\ later' = later
        BY <1>5 DEF FlushedAll
    <2>2. Names(later)' = Names(later) /\ Names(todo)' = Names(todo)
        BY <2>1 DEF Names
    <2> QED BY <1>2, <2>1, <2>2
<1> QED BY <1>3, <1>4, <1>5

\* What it leaves to do covers what the replay lacks.
LEMMA TraceChoose ==
    ASSUME IInv, TraceInv, ChooseNow \/ ChooseLater \/ FlushedAll
    PROVE  TraceInv'
<1>1. /\ step = "choose" /\ call = "submit" /\ rest = {}
      /\ UNCHANGED <<real, traced, mapped, active, captured, package, call, rest, noted>>
    BY DEF ChooseNow, ChooseLater, FlushedAll, memVars, IInv, CallInv, HolderInv, Copying
<1>2. /\ \A m \in Mems : DOMAIN package[m] = {}
      /\ \A m \in Mems \ AsMems : \A p \in Pages : traced[m][p] # real[m][p] => p \in active[m]
    BY <1>1, NoPackages DEF Flushing, Copying
<1>3. /\ todo \in Seq(Mems) /\ later \in Seq(Mems) /\ mapped \in SUBSET Mems
      /\ Names(todo) \cup Names(later) \subseteq mapped
      /\ \A m \in mapped \ AsMems : m \in Names(todo) \cup Names(later) \/ Same(m)
    BY <1>1 DEF IInv, TypeOK, TraceInv, NamedInv, TakenInv, Flushing, Copying
<1>4. \A m \in Mems : Same(m)' <=> Same(m)
    BY <1>1 DEF Same
<1>5. /\ step' \in {"choose", "run", "swap"}
      /\ step' = "run" => todo' = <<>> /\ later' = <<>>
      /\ step' = "swap" => cur' \in mapped
      /\ Names(todo)' \cup Names(later)' \subseteq mapped
      /\ \A m \in mapped \ AsMems : m \in Names(todo) \cup Names(later) =>
            m \in Names(todo)' \cup Names(later)' \/ (step' = "swap" /\ m = cur')
    BY ChooseNames
<1>6. \A m \in Mems : Pend(m)' = {}
    BY <1>1, <1>2 DEF Pend, Left, Copying
<1>7. NamedInv'
    BY <1>1, <1>5 DEF NamedInv, Flushing, Copying
<1>8. PendInv' /\ BehindInv'
    BY <1>1, <1>2, <1>6 DEF PendInv, BehindInv
<1>9. UnmappedInv'
    BY <1>1, <1>4 DEF TraceInv, UnmappedInv
<1>10. TakenInv'
    <2>1. \A m \in mapped \ AsMems :
            \/ m \in Names(todo)' \cup Names(later)'
            \/ m = cur' /\ step' = "swap"
            \/ Same(m)'
        BY <1>3, <1>4, <1>5
    <2> QED BY <1>1, <1>5, <2>1 DEF TakenInv, Flushing, Copying
<1> QED BY <1>7, <1>8, <1>9, <1>10 DEF TraceInv

\* The device writes what it writes, in the capture and on replay.
LEMMA DeviceWritesAlike ==
    ASSUME NEW c \in Contents, NEW d \in Contents, NEW m \in Mems, NEW w \in SUBSET Pages,
           NEW n \in Mems, NEW p \in Pages, c[n][p] = d[n][p]
    PROVE  DeviceWrites(c, m, w)[n][p] = DeviceWrites(d, m, w)[n][p]
<1>1. CASE n = m
    BY <1>1 DEF DeviceWrites, Contents
<1>2. CASE n # m
    BY <1>2 DEF DeviceWrites, Contents
<1> QED BY <1>1, <1>2

\* The device works; replay does the same to its own memory.
LEMMA TraceRunJob ==
    ASSUME IInv, TraceInv, RunJob
    PROVE  TraceInv'
<1>1. PICK m \in Mems, w \in SUBSET Pages :
        /\ real' = DeviceWrites(real, m, w) /\ traced' = DeviceWrites(traced, m, w)
        /\ \/ step' = "syncOpen" /\ cur' = m /\ UNCHANGED <<call, rest, todo, later, noted>>
           \/ Exit
    BY DEF RunJob
<1>2. /\ step = "run" /\ call = "submit" /\ rest = {} /\ todo = <<>> /\ later = <<>>
      /\ real \in Contents /\ traced \in Contents
      /\ UNCHANGED <<mapped, active, captured, package>>
    BY DEF RunJob, IInv, TypeOK, HolderInv, CallInv, Copying, TraceInv, NamedInv
<1>3. /\ \A n \in Mems : DOMAIN package[n] = {}
      /\ \A n \in Mems \ AsMems : \A p \in Pages : traced[n][p] # real[n][p] => p \in active[n]
    BY <1>2, NoPackages DEF Flushing, Copying
<1>4. \A n \in Mems, p \in Pages : traced'[n][p] # real'[n][p] => traced[n][p] # real[n][p]
    BY <1>1, <1>2, DeviceWritesAlike
<1>5. \A n \in Mems : Same(n) => Same(n)'
    BY <1>4 DEF Same
<1>6. UnmappedInv'
    BY <1>2, <1>5 DEF TraceInv, UnmappedInv
<1>7. \A n \in Mems \ AsMems, p \in Pages : traced'[n][p] # real'[n][p] => p \in active'[n]
    BY <1>2, <1>3, <1>4
<1>8. CASE Exit
    BY <1>2, <1>3, <1>6, <1>7, <1>8, TraceRests DEF Exit
<1>9. CASE step' = "syncOpen" /\ cur' = m /\ UNCHANGED <<call, rest, todo, later, noted>>
    <2>1. \A n \in Mems : Pend(n)' = {}
        BY <1>2, <1>3, <1>9 DEF Pend, Left, Copying
    <2>2. Names(todo)' = {} /\ Names(later)' = {} /\ Names(todo) = {} /\ Names(later) = {}
        BY <1>2, <1>9 DEF Names
    <2>3. NamedInv' /\ PendInv' /\ BehindInv'
        BY <1>2, <1>3, <1>7, <1>9, <2>1, <2>2 DEF NamedInv, PendInv, BehindInv, Flushing, Copying
    <2>4. \A n \in mapped \ AsMems : Same(n)'
        BY <1>2, <1>5, <2>2 DEF TraceInv, TakenInv, Flushing, Copying, IInv, TypeOK
    <2>5. TakenInv'
        BY <1>2, <1>9, <2>4 DEF TakenInv, Flushing, Copying
    <2> QED BY <1>6, <2>3, <2>5 DEF TraceInv
<1> QED BY <1>1, <1>8, <1>9

\* The end of a submission and of a mapping.
LEMMA TraceEnd ==
    ASSUME IInv, TraceInv, SyncClose \/ Drop
    PROVE  TraceInv'
<1>1. Exit /\ call # "flush" /\ step \in {"syncClose", "drop"}
    BY DEF SyncClose, Drop, IInv, CallInv, Syncing
<1>2. /\ \A m \in Mems : DOMAIN package[m] = {}
      /\ \A m \in Mems \ AsMems : \A p \in Pages : traced[m][p] # real[m][p] => p \in active[m]
    BY <1>1, NoPackages DEF Flushing, Copying
<1>3. package' = package
    BY DEF SyncClose, Drop
<1>4. CASE SyncClose
    <2>1. UNCHANGED <<real, traced, mapped, active>>
        BY <1>4 DEF SyncClose
    <2>2. UnmappedInv'
        BY <2>1 DEF TraceInv, UnmappedInv, Same
    <2> QED BY <1>1, <1>2, <1>3, <2>1, <2>2, TraceRests DEF Exit
<1>5. CASE Drop
    <2>1. /\ step = "drop" /\ cur \in mapped /\ cur \in Mems /\ mapped' = mapped \ {cur}
          /\ active' = [active EXCEPT ![cur] = {}]
          /\ \/ /\ real' = [real EXCEPT ![cur] = Blank]
                /\ traced' = [traced EXCEPT ![cur] = Blank]
             \/ traced' = traced /\ real' = real
             \/ didFlush[cur] = "NoFlush" /\ real' = real
                /\ traced' = [traced EXCEPT ![cur] = shadow[cur]]
        BY <1>5 DEF Drop, IInv, CallInv, HolderInv
    <2>2. /\ real \in Contents /\ traced \in Contents /\ active \in [Mems -> SUBSET Pages]
        BY DEF IInv, TypeOK
    <2>3. \A m \in Mems : m # cur => /\ real'[m] = real[m] /\ traced'[m] = traced[m]
                                    /\ active'[m] = active[m]
        BY <2>1, <2>2 DEF Contents
    <2>4. cur \notin AsMems => \A p \in Pages : traced'[cur][p] = real'[cur][p]
        <3>1. cur \notin AsMems => Same(cur) /\ didFlush[cur] # "NoFlush"
            BY <2>1 DEF TraceInv, TakenInv
        <3> QED BY <2>1, <2>2, <3>1 DEF Same, Contents
    <2>5. UnmappedInv'
        BY <2>1, <2>3, <2>4 DEF TraceInv, UnmappedInv, Same
    <2>6. \A m \in Mems \ AsMems, p \in Pages : traced'[m][p] # real'[m][p] => p \in active'[m]
        BY <1>2, <2>3, <2>4
    <2> QED BY <1>1, <1>2, <1>3, <2>5, <2>6, TraceRests DEF Exit
<1> QED BY <1>4, <1>5

\* At the start the replay has the blank memory that the capture has.
LEMMA InitTrace == Init => TraceInv
<1> SUFFICES ASSUME Init PROVE TraceInv
    OBVIOUS
<1>1. /\ traced = real /\ step = "none" /\ call = "none" /\ todo = <<>> /\ later = <<>>
      /\ \A m \in Mems : DOMAIN package[m] = {}
    BY DEF Init, Nothing
<1>2. \A m \in Mems : Same(m) /\ Pend(m) = {}
    BY <1>1 DEF Same, Pend, Left, Copying
<1> QED BY <1>1, <1>2, NamesEmpty DEF TraceInv, NamedInv, PendInv, BehindInv, UnmappedInv, TakenInv,
                               Flushing, Copying

\* Every step keeps it.
LEMMA NextTrace == ASSUME IInv, TraceInv, [Next]_vars PROVE TraceInv'
<1>1. CASE UNCHANGED vars
    BY <1>1, TraceStands DEF vars, memVars, lockVars
<1>2. CASE HolderStep
    BY <1>2, StandingSteps, TraceSwap, TraceCopy, TraceCopyBack, TraceRecordRanges, TraceRecordOne,
       TraceChoose, TraceRunJob, TraceEnd DEF HolderStep
<1>3. ASSUME NEW t \in Threads, StoreStep(t) \/ FaultStep(t) \/ HandlerEnter(t) \/ HandlerStep(t)
      PROVE  TraceInv'
    BY <1>3, StandingSteps
<1>4. ASSUME NEW t \in Threads, CallStep(t)
      PROVE  TraceInv'
    BY <1>4, TraceCall
<1> QED BY <1>1, <1>2, <1>3, <1>4 DEF Next

\* The trace is right throughout.
LEMMA TraceThroughout == Spec => [](IInv /\ TraceInv)
<1>1. Init => IInv /\ TraceInv
    BY InitIInv, InitTrace
<1>2. IInv /\ TraceInv /\ [Next]_vars => (IInv /\ TraceInv)'
    BY NextIInv, NextTrace
<1> QED BY <1>1, <1>2, PTL DEF Spec

\* When a job runs, the packets before it have given every memory its contents on replay,
\* whether or not it is mapped, was put off, or was named twice by an explicit flush
\* (flushAllChangedMappedMemory, vkUnmapMemoryPageGuardHandle).
THEOREM ReplayIsTheSame == Spec => []ReplayAgrees
<1>1. ASSUME IInv, TraceInv PROVE ReplayAgrees
    <2> SUFFICES ASSUME step = "run", NEW m \in Mems \ AsMems PROVE traced[m] = real[m]
        BY DEF ReplayAgrees
    <2>1. call = "submit" /\ Names(todo) = {} /\ Names(later) = {}
        BY <1>1, NamesEmpty DEF IInv, CallInv, TraceInv, NamedInv
    <2>2. Same(m)
        BY <1>1, <2>1 DEF TraceInv, TakenInv, UnmappedInv, Flushing, Copying
    <2>3. traced[m] \in [Pages -> Page] /\ real[m] \in [Pages -> Page]
        BY <1>1 DEF IInv, TypeOK, Contents
    <2> QED BY <2>2, <2>3 DEF Same
<1> QED BY <1>1, TraceThroughout, PTL

-----------------------------------------------------------------------------
(* The application's stores.  A flush passes on what was stored before it began: to a job  *)
(* what it stored before the submission, to the end of a mapping all it ever stored.       *)

\* The contents v of the page p of m hold the stores that the entry point under way owes.
Has(v, m, p) ==
    IF call = "submit" THEN v.host >= seen[m][p].host ELSE v.host = shadow[m][p].host

Flusher == call \in {"submit", "unmap", "free"}

\* What a flush has still to do: a page on the list, in the package or in the real memory.
OwedInv ==
    \A m \in Watched : cur = m /\ Flusher /\ step \in Copying \cup {"back"} =>
        \A p \in Pages :
            \/ p \in Left(m)
            \/ p \in DOMAIN package[m] /\ Has(package[m][p], m, p)
            \/ p \notin DOMAIN package[m] /\ Has(real[m][p], m, p)

\* What is done: the memory at hand is copied back, and so are those of a submission that
\* are neither at hand nor still to come.
PaidInv ==
    \A m \in Watched :
        /\ cur = m /\ Flusher /\ step \in {"record", "drop"} =>
                \A p \in Pages : Has(real[m][p], m, p)
        /\ call = "submit" /\ step \notin Syncing =>
                \/ m \in Names(todo) \cup Names(later)
                \/ m = cur /\ step \in {"swap"} \cup Flushing
                \/ \A p \in Pages : real[m][p].host >= seen[m][p].host

\* What was there when the submission began is still there, and when the application makes no
\* store there is no more.
SeenInv ==
    call = "submit" /\ step \notin Syncing =>
        \A m \in mapped, p \in Pages :
            /\ seen[m][p].host <= shadow[m][p].host
            /\ Quiet => seen[m][p].host = shadow[m][p].host

\* What is copied back to the shadow memory has every store in it.
SyncedInv ==
    \A m \in Watched : cur = m /\ step \in Syncing =>
        \A p \in Pages : real[m][p].host >= shadow[m][p].host

BlankInv == \A m \in Mems : m \notin mapped => shadow[m] = Blank

StoreInv == OwedInv /\ PaidInv /\ SeenInv /\ SyncedInv /\ BlankInv

\* The stores made to a page are counted.
LEMMA HostCounts ==
    ASSUME IInv, NEW m \in Mems, NEW p \in Pages
    PROVE  shadow[m][p].host \in Nat /\ real[m][p].host \in Nat /\ seen[m][p].host \in Nat
BY PageType DEF IInv, TypeOK, Page

\* Types of the two sets of memories.
LEMMA WatchedAreMems == ASSUME IInv PROVE Watched \subseteq Mems /\ mapped \subseteq Mems
BY DEF IInv, TypeOK, Watched

\* Where a store goes.
LEMMA StoreGoes ==
    ASSUME IInv, NEW t \in Threads, NEW m \in Mems, NEW p \in Pages, Store(t, m, p)
    PROVE  /\ m \in mapped
           /\ call \in {"unmap", "free"} => m # cur
           /\ ~(Quiet /\ call = "submit")
           /\ \A n \in Mems, q \in Pages :
                /\ n # m => shadow'[n][q] = shadow[n][q]
                /\ shadow'[n][q].host >= shadow[n][q].host
<1>1. MayStore(t, m, p) /\ shadow' = [shadow EXCEPT ![m][p].host = @ + 1]
    BY DEF Store
<1>2. m \in mapped /\ (call \in {"unmap", "free"} => m # cur) /\ ~(Quiet /\ call = "submit")
    <2>1. CASE pc[t] = "retry" /\ target[t] = <<m, p>>
        <3>1. target[t] # NoTarget /\ target[t][1] = m /\ pc[t] # "idle"
            BY <2>1 DEF IInv, UsersInv
        <3> QED BY <3>1 DEF IInv, UsersInv
    <2>2. CASE ~(pc[t] = "retry" /\ target[t] = <<m, p>>)
        BY <1>1, <2>2 DEF MayStore
    <2> QED BY <2>1, <2>2
<1>3. ASSUME NEW n \in Mems, NEW q \in Pages
      PROVE  /\ n # m => shadow'[n][q] = shadow[n][q]
             /\ shadow'[n][q].host >= shadow[n][q].host
    <2> DEFINE r == [shadow[m][p] EXCEPT !.host = @ + 1]
    <2>1. shadow[m][p] \in Page /\ shadow[n][q].host \in Nat /\ shadow \in Contents
        BY PageType, HostCounts DEF IInv, TypeOK
    <2>2. r.host = shadow[m][p].host + 1
        BY <2>1 DEF Page
    <2>3. shadow' = [shadow EXCEPT ![m][p] = r]
        BY <1>1
    <2> HIDE DEF r
    <2>4. n # m \/ q # p => shadow'[n][q] = shadow[n][q]
        BY <2>1, <2>3 DEF Contents
    <2>5. n = m /\ q = p => shadow'[n][q] = r
        BY <2>1, <2>3 DEF Contents
    <2> QED BY <2>1, <2>2, <2>4, <2>5
<1> QED BY <1>2, <1>3

\* A step that leaves the shadow and the real memory, and what the flush is at, alone.
LEMMA StoreStands ==
    ASSUME IInv, StoreInv,
           UNCHANGED <<shadow, real, mapped, package, call, cur, rest, todo, later, seen>>,
           \/ step' = step
           \/ {step, step'} \subseteq Copying
           \/ {step, step'} = {"syncOpen", "syncCopy"}
    PROVE  StoreInv'
<1>1. \A m \in Mems : Left(m)' = Left(m)
    BY DEF Left, Copying
<1>2. Names(todo)' = Names(todo) /\ Names(later)' = Names(later)
    BY DEF Names
<1>3. \A v, m, p : Has(v, m, p)' <=> Has(v, m, p)
    BY DEF Has
<1>4. Watched' = Watched /\ Watched \subseteq Mems
    BY WatchedAreMems DEF Watched
<1>5. OwedInv'
    BY <1>1, <1>3, <1>4 DEF StoreInv, OwedInv, Copying, Flusher
<1>6. PaidInv'
    BY <1>2, <1>3, <1>4 DEF StoreInv, PaidInv, Copying, Flusher, Flushing, Syncing
<1>7. SeenInv' /\ SyncedInv' /\ BlankInv'
    BY <1>4 DEF StoreInv, SeenInv, SyncedInv, BlankInv, Copying, Syncing
<1> QED BY <1>5, <1>6, <1>7 DEF StoreInv

\* A store is one more than was seen, and goes nowhere that is being given up.
LEMMA StoreInvStore ==
    ASSUME Gentle, IInv, StoreInv, NEW t \in Threads, NEW m \in Mems, NEW p \in Pages,
           Store(t, m, p)
    PROVE  StoreInv'
<1>1. UNCHANGED <<real, mapped, package, call, cur, rest, todo, later, seen, step>>
    BY DEF Store, lockVars
<1>2. /\ m \in mapped
      /\ call \in {"unmap", "free"} => m # cur
      /\ ~(Quiet /\ call = "submit")
      /\ \A n \in Mems, q \in Pages :
                /\ n # m => shadow'[n][q] = shadow[n][q]
                /\ shadow'[n][q].host >= shadow[n][q].host
    BY StoreGoes
<1>3. step \notin Syncing
    BY <1>2 DEF Gentle, IInv, CallInv
<1>4. \A n \in Mems : Left(n)' = Left(n)
    BY <1>1 DEF Left
<1>5. Names(todo)' = Names(todo) /\ Names(later)' = Names(later)
    BY <1>1 DEF Names
<1>6. Watched' = Watched /\ Watched \subseteq Mems /\ mapped \subseteq Mems
    BY <1>1, WatchedAreMems DEF Watched
<1>7. \A v, n, q : n \in Mems /\ q \in Pages /\ Flusher /\ cur = n /\ Has(v, n, q) => Has(v, n, q)'
    BY <1>1, <1>2 DEF Has, Flusher
<1>8. OwedInv'
    BY <1>1, <1>4, <1>6, <1>7 DEF StoreInv, OwedInv, Flusher
<1>9. PaidInv'
    BY <1>1, <1>5, <1>6, <1>7 DEF StoreInv, PaidInv, Flusher
<1>10. SeenInv'
    <2> SUFFICES ASSUME call = "submit", step \notin Syncing, NEW n \in mapped, NEW q \in Pages
                 PROVE  seen[n][q].host <= shadow'[n][q].host
        BY <1>1, <1>2 DEF SeenInv
    <2>1. seen[n][q].host <= shadow[n][q].host /\ shadow'[n][q].host >= shadow[n][q].host
        BY <1>2, <1>6 DEF StoreInv, SeenInv
    <2>2. seen[n][q].host \in Nat /\ shadow[n][q].host \in Nat
        BY <1>6, HostCounts
    <2>3. shadow'[n][q].host \in Nat
        <3>1. TypeOK'
            BY StoreKeeps DEF Core
        <3>2. n \in Mems
            BY <1>6
        <3> QED BY <3>1, <3>2 DEF TypeOK, Contents, Page
    <2> QED BY <2>1, <2>2, <2>3
<1>11. SyncedInv'
    BY <1>1, <1>3 DEF SyncedInv
<1>12. BlankInv'
    <2> SUFFICES ASSUME NEW n \in Mems, n \notin mapped PROVE shadow'[n] = Blank
        BY <1>1 DEF BlankInv
    <2>1. n # m /\ shadow \in Contents
        BY <1>2 DEF IInv, TypeOK
    <2>2. shadow'[n] = shadow[n]
        BY <2>1 DEF Store, Contents
    <2> QED BY <2>2 DEF StoreInv, BlankInv
<1> QED BY <1>8, <1>9, <1>10, <1>11, <1>12 DEF StoreInv

\* Stores and faults keep it; a page of the flush is protected while it is copied.
LEMMA StoreStandingSteps ==
    ASSUME Gentle, IInv, StoreInv,
           \/ Protect \/ SyncOpen
           \/ \E t \in Threads : StoreStep(t) \/ FaultStep(t) \/ HandlerEnter(t) \/ HandlerStep(t)
    PROVE  StoreInv'
<1>1. ASSUME NEW t \in Threads, FaultStep(t) \/ HandlerEnter(t) \/ HandlerStep(t)
      PROVE  StoreInv'
    BY <1>1, StoreStands DEF FaultStep, Fault, HandlerEnter, HandlerStep, HandlerMark,
                             HandlerUnprotect, memVars, lockVars
<1>2. CASE Protect
    BY <1>2, StoreStands DEF Protect, Copying
<1>3. CASE SyncOpen
    BY <1>3, StoreStands DEF SyncOpen
<1> QED BY <1>1, <1>2, <1>3, StoreInvStore DEF StoreStep

\* Between two entry points, and in an explicit flush, nothing is owed.
LEMMA NothingOwed ==
    ASSUME call' \in {"none", "flush"}, step' \notin Syncing, BlankInv'
    PROVE  StoreInv'
<1>1. ~Flusher' /\ call' # "submit"
    BY DEF Flusher
<1> QED BY <1>1 DEF StoreInv, OwedInv, PaidInv, SeenInv, SyncedInv

\* Calls: a submission owes the job all that is there now.
LEMMA StoreCall ==
    ASSUME IInv, TraceInv, StoreInv, NEW t \in Threads, CallStep(t)
    PROVE  StoreInv'
<1>1. Free /\ step = "none" /\ call = "none"
    BY DEF CallStep, MapMemory, FlushRanges, QueueSubmit, ReleaseMemory, Enter, IInv, HolderInv,
           CallInv
<1>2. ASSUME NEW m \in Mems, MapMemory(t, m)
      PROVE  StoreInv'
    <2>1. /\ mapped' = mapped \cup {m} /\ shadow' = [shadow EXCEPT ![m] = real[m]]
          /\ UNCHANGED <<step, call>>
        BY <1>2 DEF MapMemory, lockVars
    <2>2. BlankInv'
        BY <2>1 DEF StoreInv, BlankInv, IInv, TypeOK, Contents
    <2> QED BY <1>1, <2>1, <2>2, NothingOwed DEF Syncing
<1>3. ASSUME UNCHANGED <<shadow, mapped>> PROVE BlankInv'
    BY <1>3 DEF StoreInv, BlankInv
<1>4. ASSUME NEW ranges \in RangeLists, FlushRanges(t, ranges)
      PROVE  StoreInv'
    BY <1>3, <1>4, NothingOwed DEF FlushRanges, Enter, memVars, Syncing
<1>5. CASE QueueSubmit(t)
    <2>1. PICK order \in [1..Cardinality(mapped) -> mapped] :
            /\ {order[i] : i \in 1..Cardinality(mapped)} = mapped
            /\ todo' = order
        BY <1>5 DEF QueueSubmit
    <2>2. Cardinality(mapped) \in Nat
        BY KindsOfMemory, FS_Subset, FS_CardinalityType DEF IInv, TypeOK
    <2>3. Len(order) = Cardinality(mapped)
        BY <2>2
    <2>4. Names(todo)' = mapped
        BY <2>1, <2>3 DEF Names
    <2>5. call' = "submit" /\ step' = "choose" /\ seen' = shadow /\ UNCHANGED <<shadow, mapped>>
        BY <1>5 DEF QueueSubmit, Enter, memVars
    <2>6. OwedInv' /\ PaidInv' /\ SyncedInv'
        BY <2>4, <2>5 DEF OwedInv, PaidInv, SyncedInv, Watched, Copying, Syncing
    <2>7. SeenInv'
        <3>1. \A m \in mapped, p \in Pages : shadow[m][p].host <= shadow[m][p].host
            BY HostCounts DEF IInv, TypeOK
        <3> QED BY <2>5, <3>1 DEF SeenInv
    <2> QED BY <1>3, <2>5, <2>6, <2>7 DEF StoreInv
<1>6. ASSUME NEW m \in Mems, NEW name \in {"unmap", "free"}, ReleaseMemory(t, m, name)
      PROVE  StoreInv'
    <2>1. /\ call' \in {"unmap", "free"} /\ step' \in {"swap", "drop"} /\ cur' = m
          /\ step' = "drop" => m \in AsMems
          /\ UNCHANGED <<shadow, mapped>>
        BY <1>6 DEF ReleaseMemory, Skipping, Enter, memVars
    <2>2. OwedInv' /\ PaidInv' /\ SeenInv' /\ SyncedInv'
        BY <2>1 DEF OwedInv, PaidInv, SeenInv, SyncedInv, Watched, Copying, Syncing
    <2> QED BY <1>3, <2>1, <2>2 DEF StoreInv
<1> QED BY <1>2, <1>4, <1>5, <1>6 DEF CallStep

\* The pages that a flush does not take are in the real memory as they are.
LEMMA StoreSwap ==
    ASSUME Gentle, IInv, TraceInv, StoreInv, Swap
    PROVE  StoreInv'
<1>1. /\ step = "swap" /\ cur \in Mems
      /\ rest' = active[cur]
      /\ package' = [package EXCEPT ![cur] = Nothing]
      /\ step' = IF active[cur] = {} THEN "back" ELSE "protect"
      /\ UNCHANGED <<shadow, real, mapped, call, cur, todo, later, seen>>
    BY DEF Swap, IInv, HolderInv
<1>2. Watched' = Watched /\ Watched \subseteq Mems /\ Watched \subseteq mapped
    BY <1>1, WatchedAreMems DEF Watched
<1>3. Names(todo)' = Names(todo) /\ Names(later)' = Names(later)
    BY <1>1 DEF Names
<1>4. OwedInv'
    <2> SUFFICES ASSUME NEW m \in Watched, cur = m, Flusher, NEW p \in Pages
                 PROVE  \/ p \in Left(m)'
                        \/ p \notin DOMAIN package'[m] /\ Has(real[m][p], m, p)'
        BY <1>1, <1>2 DEF OwedInv, Flusher
    <2>1. DOMAIN package'[m] = {} /\ (active[m] # {} => Left(m)' = active[m])
        BY <1>1 DEF Left, Copying, Nothing, IInv, TypeOK
    <2>2. CASE p \in active[m]
        BY <2>1, <2>2
    <2>3. CASE p \notin active[m]
        <3>1. shadow[m][p].host = real[m][p].host
            BY <1>1, <1>2, <2>3 DEF IInv, NoWriteLost, OnTheWay
        <3>2. call = "submit" => seen[m][p].host <= shadow[m][p].host
            BY <1>1, <1>2 DEF StoreInv, SeenInv, Syncing
        <3>3. seen[m][p].host \in Nat /\ shadow[m][p].host \in Nat
            BY <1>2, HostCounts
        <3>4. Has(real[m][p], m, p)'
            BY <1>1, <3>1, <3>2, <3>3 DEF Has
        <3> QED BY <2>1, <3>4
    <2> QED BY <2>2, <2>3
<1>5. PaidInv'
    BY <1>1, <1>2, <1>3 DEF StoreInv, PaidInv, Flushing, Copying, Syncing
<1>6. SeenInv' /\ SyncedInv' /\ BlankInv'
    BY <1>1, <1>2 DEF StoreInv, SeenInv, SyncedInv, BlankInv, Syncing
<1> QED BY <1>4, <1>5, <1>6 DEF StoreInv

\* A page is copied to the package with all that was stored to it.
LEMMA StoreCopy ==
    ASSUME IInv, TraceInv, StoreInv, Copy
    PROVE  StoreInv'
<1> DEFINE G(p) == [q \in DOMAIN package[cur] \cup {p} |->
                        IF q = p THEN shadow[cur][p] ELSE package[cur][q]]
<1>1. PICK r \in rest : /\ package' = [package EXCEPT ![cur] = G(r)]
                       /\ rest' = rest \ {r}
                       /\ step' = IF rest = {r} THEN "back" ELSE "protect"
    BY DEF Copy
<1>2. /\ step = "copy" /\ cur \in Mems /\ DOMAIN package = Mems /\ r \in Pages
      /\ UNCHANGED <<shadow, real, mapped, call, cur, todo, later, seen>>
    BY DEF Copy, IInv, HolderInv, TypeOK
<1>3. /\ DOMAIN package'[cur] = DOMAIN package[cur] \cup {r}
      /\ package'[cur][r] = shadow[cur][r]
      /\ \A q \in DOMAIN package[cur] : q # r => package'[cur][q] = package[cur][q]
    BY <1>1, <1>2
<1> HIDE DEF G
<1>4. Watched' = Watched /\ Watched \subseteq Mems /\ Watched \subseteq mapped
    BY <1>2, WatchedAreMems DEF Watched
<1>5. Names(todo)' = Names(todo) /\ Names(later)' = Names(later)
    BY <1>2 DEF Names
<1>6. step' \in {"back", "protect"}
    BY <1>1
<1>7. OwedInv'
    <2> SUFFICES ASSUME NEW m \in Watched, cur = m, Flusher, NEW p \in Pages
                 PROVE  \/ p \in Left(m)'
                        \/ p \in DOMAIN package'[m] /\ Has(package[m][p], m, p)'
                        \/ p \notin DOMAIN package'[m] /\ Has(real[m][p], m, p)'
        BY <1>2, <1>4 DEF OwedInv, Flusher
    <2>1. \/ p \in Left(m)
          \/ p \in DOMAIN package[m] /\ Has(package[m][p], m, p)
          \/ p \notin DOMAIN package[m] /\ Has(real[m][p], m, p)
        BY <1>2 DEF StoreInv, OwedInv, Copying
    <2>2. Left(m) = rest /\ (rest # {r} => Left(m)' = rest \ {r})
        BY <1>1, <1>2 DEF Left, Copying
    <2>3. CASE p = r
        <3>1. call = "submit" => seen[m][p].host <= shadow[m][p].host
            BY <1>2, <1>4 DEF StoreInv, SeenInv, Syncing
        <3>2. seen[m][p].host \in Nat /\ shadow[m][p].host \in Nat
            BY <1>4, HostCounts
        <3>3. Has(package[m][p], m, p)'
            BY <1>2, <1>3, <2>3, <3>1, <3>2 DEF Has
        <3> QED BY <1>3, <2>3, <3>3
    <2>4. CASE p # r /\ p \in rest
        BY <2>2, <2>4
    <2>5. CASE p # r /\ p \notin rest
        <3>1. p \in DOMAIN package[m] /\ Has(package[m][p], m, p) =>
                    p \in DOMAIN package'[m] /\ Has(package[m][p], m, p)'
            BY <1>2, <1>3, <2>5 DEF Has
        <3>2. p \notin DOMAIN package[m] /\ Has(real[m][p], m, p) =>
                    p \notin DOMAIN package'[m] /\ Has(real[m][p], m, p)'
            BY <1>2, <1>3, <2>5 DEF Has
        <3> QED BY <2>1, <2>2, <2>5, <3>1, <3>2
    <2> QED BY <2>3, <2>4, <2>5
<1>8. PaidInv'
    BY <1>2, <1>4, <1>5, <1>6 DEF StoreInv, PaidInv, Flushing, Copying, Syncing
<1>9. SeenInv' /\ SyncedInv' /\ BlankInv'
    BY <1>2, <1>4, <1>6 DEF StoreInv, SeenInv, SyncedInv, BlankInv, Syncing
<1> QED BY <1>7, <1>8, <1>9 DEF StoreInv

\* What the package owes gets into the real memory.
LEMMA StoreCopyBack ==
    ASSUME IInv, TraceInv, StoreInv, CopyBack
    PROVE  StoreInv'
<1>1. /\ step = "back" /\ cur \in Mems /\ rest = {}
      /\ real' = [real EXCEPT ![cur] = Patched(@, package[cur])]
      /\ UNCHANGED <<shadow, mapped, package, call, rest, later, seen>>
      /\ step' \in {"swap", "record"}
      /\ call # "flush" => step' = "record" /\ cur' = cur /\ todo' = todo
    BY DEF CopyBack, IInv, HolderInv, Copying
<1>2. /\ real \in Contents
      /\ \E D \in SUBSET Pages : package[cur] \in [D -> Page]
    BY <1>1 DEF IInv, TypeOK
<1>3. /\ \A p \in DOMAIN package[cur] : real'[cur][p] = package[cur][p]
      /\ \A p \in Pages : p \notin DOMAIN package[cur] => real'[cur][p] = real[cur][p]
      /\ \A m \in Mems : m # cur => real'[m] = real[m]
    BY <1>1, <1>2 DEF Contents, Patched
<1>4. Watched' = Watched /\ Watched \subseteq Mems
    BY <1>1, WatchedAreMems DEF Watched
<1>5. BlankInv'
    BY <1>1 DEF StoreInv, BlankInv
<1>6. CASE call = "flush"
    BY <1>1, <1>5, <1>6, NothingOwed DEF Syncing
<1>7. CASE call # "flush"
    <2>1. step' = "record" /\ UNCHANGED <<cur, todo, later>>
        BY <1>1, <1>7
    <2>2. Names(todo)' = Names(todo) /\ Names(later)' = Names(later)
        BY <2>1 DEF Names
    <2>3. OwedInv' /\ SyncedInv' /\ SeenInv'
        BY <1>1, <1>4, <2>1 DEF OwedInv, SyncedInv, StoreInv, SeenInv, Copying, Syncing
    <2>4. ASSUME NEW m \in Watched, cur = m, Flusher, NEW p \in Pages
          PROVE  Has(real[m][p], m, p)'
        <3>1. \/ p \in DOMAIN package[m] /\ Has(package[m][p], m, p)
              \/ p \notin DOMAIN package[m] /\ Has(real[m][p], m, p)
            BY <1>1, <2>4 DEF StoreInv, OwedInv, Left, Copying
        <3> QED BY <1>1, <1>3, <2>4, <3>1 DEF Has
    <2>5. PaidInv'
        <3>1. \A m \in Watched : m # cur => (real'[m] = real[m])
            BY <1>3, <1>4
        <3>2. Flusher' = Flusher
            BY <1>1 DEF Flusher
        <3>3. \A m \in Watched : cur' = m /\ Flusher' /\ step' \in {"record", "drop"} =>
                    \A p \in Pages : Has(real[m][p], m, p)'
            BY <2>1, <2>4, <3>2
        <3>4. \A m \in Watched : call = "submit" =>
                    \/ m \in Names(todo) \cup Names(later)
                    \/ m = cur
                    \/ \A p \in Pages : real[m][p].host >= seen[m][p].host
            BY <1>1 DEF StoreInv, PaidInv, Syncing
        <3>5. \A m \in Watched : call = "submit" =>
                    \/ m \in Names(todo)' \cup Names(later)'
                    \/ m = cur' /\ step' \in {"swap"} \cup Flushing
                    \/ \A p \in Pages : real'[m][p].host >= seen'[m][p].host
            BY <1>1, <2>1, <2>2, <3>1, <3>4 DEF Flushing
        <3> QED BY <1>1, <1>4, <3>3, <3>5 DEF PaidInv
    <2> QED BY <1>5, <2>3, <2>5 DEF StoreInv
<1> QED BY <1>6, <1>7

\* Writing a packet leaves the real memory as the copy has made it.
LEMMA StoreRecord ==
    ASSUME IInv, TraceInv, StoreInv, RecordRanges \/ RecordOne
    PROVE  StoreInv'
<1>1. step = "record" /\ UNCHANGED <<shadow, real, mapped, seen>>
    BY DEF RecordRanges, RecordOne
<1>2. BlankInv'
    BY <1>1 DEF StoreInv, BlankInv
<1>3. CASE RecordRanges
    <2>1. call' \in {"none", "flush"} /\ step' \in {"none", "record"}
        BY <1>3 DEF RecordRanges, Exit
    <2> QED BY <1>2, <2>1, NothingOwed DEF Syncing
<1>4. CASE RecordOne
    <2>1. /\ Flusher /\ UNCHANGED <<call, todo, later>> /\ cur \in Mems
          /\ IF call = "submit" THEN step' = "choose" /\ cur' = NoMem
             ELSE step' = "drop" /\ cur' = cur
        BY <1>4 DEF RecordOne, IInv, CallInv, HolderInv, TypeOK, Flusher
    <2>2. Watched' = Watched /\ Watched \subseteq Mems
        BY <1>1, WatchedAreMems DEF Watched
    <2>3. Names(todo)' = Names(todo) /\ Names(later)' = Names(later)
        BY <2>1 DEF Names
    <2>4. OwedInv' /\ SyncedInv' /\ SeenInv'
        BY <1>1, <2>1 DEF OwedInv, SyncedInv, StoreInv, SeenInv, Copying, Syncing
    <2>5. \A m \in Watched, p \in Pages : cur = m => Has(real[m][p], m, p)
        BY <1>1, <2>1 DEF StoreInv, PaidInv
    <2>6. \A m \in Watched, p \in Pages : Has(real[m][p], m, p) => Has(real[m][p], m, p)'
        BY <1>1, <2>1 DEF Has
    <2>7. ASSUME NEW m \in Watched, call = "submit"
          PROVE  \/ m \in Names(todo)' \cup Names(later)'
                 \/ \A p \in Pages : real'[m][p].host >= seen'[m][p].host
        <3>1. CASE cur = m
            BY <1>1, <2>5, <2>7, <3>1 DEF Has
        <3>2. CASE cur # m
            BY <1>1, <2>3, <2>7, <3>2 DEF StoreInv, PaidInv, Syncing
        <3> QED BY <3>1, <3>2
    <2>8. PaidInv'
        BY <1>1, <2>1, <2>2, <2>5, <2>6, <2>7 DEF PaidInv
    <2> QED BY <1>2, <2>4, <2>8 DEF StoreInv
<1> QED BY <1>3, <1>4

\* Nothing is passed over but AsMems.
LEMMA StoreChoose ==
    ASSUME IInv, TraceInv, StoreInv, ChooseNow \/ ChooseLater \/ FlushedAll
    PROVE  StoreInv'
<1>1. /\ step = "choose" /\ call = "submit"
      /\ UNCHANGED <<shadow, real, mapped, call, seen>>
    BY DEF ChooseNow, ChooseLater, FlushedAll, memVars, IInv, CallInv
<1>2. /\ step' \in {"choose", "run", "swap"}
      /\ \A m \in mapped \ AsMems : m \in Names(todo) \cup Names(later) =>
            m \in Names(todo)' \cup Names(later)' \/ (step' = "swap" /\ m = cur')
    BY ChooseNames
<1>3. Watched' = Watched
    BY <1>1 DEF Watched
<1>4. OwedInv' /\ SyncedInv' /\ SeenInv' /\ BlankInv'
    BY <1>1, <1>2 DEF StoreInv, OwedInv, SyncedInv, SeenInv, BlankInv, Copying, Syncing
<1>5. \A m \in Watched :
        m \in Names(todo) \cup Names(later) \/ \A p \in Pages : real[m][p].host >= seen[m][p].host
    BY <1>1 DEF StoreInv, PaidInv, Flushing, Copying, Syncing
<1>6. PaidInv'
    BY <1>1, <1>2, <1>3, <1>5 DEF PaidInv, Watched
<1> QED BY <1>4, <1>6 DEF StoreInv

\* When the job has run, what the application stored before it is in the real memory.
LEMMA StoreRunJob ==
    ASSUME Gentle, IInv, TraceInv, StoreInv, RunJob
    PROVE  StoreInv'
<1>1. PICK m \in Mems, w \in SUBSET Pages :
        /\ real' = DeviceWrites(real, m, w)
        /\ \/ SyncBack /\ step' = "syncOpen" /\ cur' = m /\ m \in mapped /\ call' = call
           \/ Exit
    BY DEF RunJob
<1>2. /\ step = "run" /\ call = "submit" /\ Names(todo) = {} /\ Names(later) = {}
      /\ real \in Contents /\ UNCHANGED <<shadow, mapped>>
    BY NamesEmpty DEF RunJob, IInv, TypeOK, CallInv, TraceInv, NamedInv
<1>3. BlankInv'
    BY <1>2 DEF StoreInv, BlankInv
<1>4. CASE Exit
    BY <1>3, <1>4, NothingOwed DEF Exit, Syncing
<1>5. CASE SyncBack /\ step' = "syncOpen" /\ cur' = m /\ m \in mapped /\ call' = call
    <2>1. \A n \in Watched, p \in Pages : real[n][p].host >= shadow[n][p].host
        <3>1. \A n \in Watched, p \in Pages : real[n][p].host >= seen[n][p].host
            BY <1>2 DEF StoreInv, PaidInv, Flushing, Copying, Syncing
        <3>2. \A n \in Watched, p \in Pages : seen[n][p].host = shadow[n][p].host
            BY <1>2, <1>5 DEF StoreInv, SeenInv, Gentle, Watched, Syncing
        <3> QED BY <3>1, <3>2
    <2>2. \A n \in Mems, p \in Pages : real'[n][p].host = real[n][p].host
        BY <1>1, <1>2, DeviceWritesHost
    <2>3. Watched' = Watched /\ Watched \subseteq Mems
        BY <1>2, WatchedAreMems DEF Watched
    <2>4. SyncedInv'
        BY <1>2, <2>1, <2>2, <2>3 DEF SyncedInv
    <2>5. OwedInv' /\ PaidInv' /\ SeenInv'
        BY <1>5 DEF OwedInv, PaidInv, SeenInv, Copying, Syncing
    <2> QED BY <1>3, <2>4, <2>5 DEF StoreInv
<1> QED BY <1>1, <1>4, <1>5

\* Device data come up after the stores have gone down.
LEMMA StoreSyncCopy ==
    ASSUME IInv, StoreInv, SyncCopy
    PROVE  StoreInv'
<1>1. /\ step = "syncCopy" /\ cur \in Mems /\ cur \in mapped /\ step' = "syncClose"
      /\ shadow' = [shadow EXCEPT ![cur] = real[cur]]
      /\ UNCHANGED <<real, mapped, call, cur, seen>>
    BY DEF SyncCopy, IInv, HolderInv, CallInv, Syncing
<1>2. shadow \in Contents /\ real \in Contents
    BY DEF IInv, TypeOK
<1>3. shadow'[cur] = real[cur] /\ \A m \in Mems : m # cur => shadow'[m] = shadow[m]
    BY <1>1, <1>2 DEF Contents
<1>4. BlankInv'
    BY <1>1, <1>3 DEF StoreInv, BlankInv
<1>5. SyncedInv'
    <2> SUFFICES ASSUME NEW m \in Watched, m = cur, NEW p \in Pages
                 PROVE  real[m][p].host >= shadow'[m][p].host
        BY <1>1 DEF SyncedInv, Watched
    <2>1. real[m][p].host \in Nat
        BY WatchedAreMems, HostCounts
    <2> QED BY <1>3, <2>1
<1>6. OwedInv' /\ PaidInv' /\ SeenInv'
    BY <1>1 DEF OwedInv, PaidInv, SeenInv, Copying, Syncing
<1> QED BY <1>4, <1>5, <1>6 DEF StoreInv

\* A call ends.
LEMMA StoreEnd ==
    ASSUME IInv, StoreInv, SyncClose \/ Drop
    PROVE  StoreInv'
<1>1. Exit
    BY DEF SyncClose, Drop
<1>2. BlankInv'
    <2>1. CASE SyncClose
        BY <2>1 DEF SyncClose, StoreInv, BlankInv
    <2>2. CASE Drop
        <3>1. /\ cur \in Mems /\ mapped' = mapped \ {cur}
              /\ shadow' = [shadow EXCEPT ![cur] = Blank] /\ shadow \in Contents
            BY <2>2 DEF Drop, IInv, TypeOK, HolderInv
        <3> QED BY <3>1 DEF StoreInv, BlankInv, Contents
    <2> QED BY <2>1, <2>2
<1> QED BY <1>1, <1>2, NothingOwed DEF Exit, Syncing

\* Nothing is stored yet.
LEMMA InitStore == Init => StoreInv
<1> SUFFICES ASSUME Init PROVE StoreInv
    OBVIOUS
<1>1. step = "none" /\ call = "none" /\ \A m \in Mems : shadow[m] = Blank
    BY DEF Init
<1> QED BY <1>1 DEF StoreInv, OwedInv, PaidInv, SeenInv, SyncedInv, BlankInv, Flusher, Syncing

\* Every step keeps it.
LEMMA NextStore == ASSUME Gentle, IInv, TraceInv, StoreInv, [Next]_vars PROVE StoreInv'
<1>1. CASE UNCHANGED vars
    BY <1>1, StoreStands DEF vars, memVars, lockVars
<1>2. CASE HolderStep
    BY <1>2, StoreStandingSteps, StoreSwap, StoreCopy, StoreCopyBack, StoreRecord, StoreChoose,
       StoreRunJob, StoreSyncCopy, StoreEnd DEF HolderStep
<1>3. ASSUME NEW t \in Threads, StoreStep(t) \/ FaultStep(t) \/ HandlerEnter(t) \/ HandlerStep(t)
      PROVE  StoreInv'
    BY <1>3, StoreStandingSteps
<1>4. ASSUME NEW t \in Threads, CallStep(t)
      PROVE  StoreInv'
    BY <1>4, StoreCall
<1> QED BY <1>1, <1>2, <1>3, <1>4 DEF Next

\* Stores are accounted for throughout.
LEMMA StoreThroughout == Gentle => (Spec => [](IInv /\ TraceInv /\ StoreInv))
<1> SUFFICES ASSUME Gentle PROVE Spec => [](IInv /\ TraceInv /\ StoreInv)
    OBVIOUS
<1>1. Init => IInv /\ TraceInv /\ StoreInv
    BY InitIInv, InitTrace, InitStore
<1>2. IInv /\ TraceInv /\ StoreInv /\ [Next]_vars => (IInv /\ TraceInv /\ StoreInv)'
    BY NextIInv, NextTrace, NextStore
<1> QED BY <1>1, <1>2, PTL DEF Spec

\* When a job runs, the real memory and the replay have every store that was made before
\* vkQueueSubmit took the lock (flushAllChangedMappedMemory).
THEOREM JobSeesItsWrites == Gentle => (Spec => []JobSeesWrites)
<1> SUFFICES ASSUME Gentle PROVE Spec => []JobSeesWrites
    OBVIOUS
<1>1. ASSUME IInv, TraceInv, StoreInv PROVE JobSeesWrites
    <2> SUFFICES ASSUME step = "run", NEW m \in Watched, NEW p \in Pages
                 PROVE  /\ real[m][p].host >= seen[m][p].host
                        /\ traced[m][p].host >= seen[m][p].host
        BY DEF JobSeesWrites
    <2>1. call = "submit" /\ Names(todo) = {} /\ Names(later) = {}
        BY <1>1, NamesEmpty DEF IInv, CallInv, TraceInv, NamedInv
    <2>2. real[m][p].host >= seen[m][p].host
        BY <1>1, <2>1 DEF StoreInv, PaidInv, Flushing, Copying, Syncing
    <2>3. Same(m)
        BY <1>1, <2>1 DEF TraceInv, TakenInv, Watched, Flushing, Copying
    <2> QED BY <2>2, <2>3 DEF Same
<1> QED BY <1>1, StoreThroughout, PTL

\* When the shadow memory is given up, all its stores are in the real memory and in the trace
\* (PageGuardCapture::vkUnmapMemoryPageGuardHandle).
THEOREM UnmapSavesStores == Gentle => (Spec => []UnmapSaves)
<1> SUFFICES ASSUME Gentle PROVE Spec => []UnmapSaves
    OBVIOUS
<1>1. ASSUME IInv, TraceInv, StoreInv PROVE UnmapSaves
    <2> SUFFICES ASSUME step = "drop", cur \in Watched, NEW p \in Pages
                 PROVE  /\ real[cur][p].host = shadow[cur][p].host
                        /\ traced[cur][p].host = shadow[cur][p].host
        BY DEF UnmapSaves
    <2>1. call \in {"unmap", "free"}
        BY <1>1 DEF IInv, CallInv
    <2>2. real[cur][p].host = shadow[cur][p].host
        BY <1>1, <2>1 DEF StoreInv, PaidInv, Flusher, Has
    <2>3. Same(cur)
        BY <1>1 DEF TraceInv, TakenInv, Watched
    <2> QED BY <2>2, <2>3 DEF Same
<1> QED BY <1>1, StoreThroughout, PTL

\* What changes the shadow memory.
LEMMA ShadowChanges ==
    ASSUME [Next]_vars
    PROVE  \/ shadow' = shadow
           \/ \E t \in Threads, m \in Mems, p \in Pages : Store(t, m, p)
           \/ \E t \in Threads, m \in Mems : MapMemory(t, m)
           \/ SyncCopy \/ Drop
<1>1. UNCHANGED vars \/ SyncOpen \/ SyncClose => shadow' = shadow
    BY DEF vars, memVars, SyncOpen, SyncClose
<1>2. Swap \/ Protect \/ Copy \/ CopyBack \/ RecordRanges \/ RecordOne => shadow' = shadow
    BY DEF Swap, Protect, Copy, CopyBack, RecordRanges, RecordOne
<1>3. ChooseNow \/ ChooseLater \/ FlushedAll \/ RunJob => shadow' = shadow
    BY DEF ChooseNow, ChooseLater, FlushedAll, RunJob, memVars
<1>4. ASSUME NEW t \in Threads, FaultStep(t) \/ HandlerEnter(t) \/ HandlerStep(t)
      PROVE  shadow' = shadow
    BY <1>4 DEF FaultStep, Fault, HandlerEnter, HandlerStep, HandlerMark, HandlerUnprotect, memVars
<1>5. ASSUME NEW t \in Threads, CallStep(t)
      PROVE  shadow' = shadow \/ \E m \in Mems : MapMemory(t, m)
    BY <1>5 DEF CallStep, FlushRanges, QueueSubmit, ReleaseMemory, memVars
<1> QED BY <1>1, <1>2, <1>3, <1>4, <1>5 DEF Next, HolderStep, StoreStep

\* A store that the application has made stays in what it reads back: with memory copied back,
\* as long as it does not store while it submits and no job writes to memory whose flush is
\* skipped (SyncRealMappedMemoryToMemoryCopyHandle).
THEOREM StoresAreKept ==
    Gentle /\ (SyncBack => Targets \cap AsMems = {}) => (Spec => StoresStay)
<1> SUFFICES ASSUME Gentle, SyncBack => Targets \cap AsMems = {} PROVE Spec => StoresStay
    OBVIOUS
<1> DEFINE Stays == \A m \in Mems, p \in Pages :
                        m \in mapped' => shadow'[m][p].host >= shadow[m][p].host
<1>1. ASSUME IInv, StoreInv, [Next]_vars PROVE Stays
    <2>1. /\ shadow \in Contents /\ real \in Contents
          /\ \A m \in Mems, p \in Pages : /\ shadow[m][p].host \in Nat
                                         /\ real[m][p].host \in Nat
        BY <1>1, HostCounts DEF IInv, TypeOK
    <2>2. CASE shadow' = shadow
        BY <2>1, <2>2
    <2>3. ASSUME NEW t \in Threads, NEW m \in Mems, NEW p \in Pages, Store(t, m, p) PROVE Stays
        BY <1>1, <2>3, StoreGoes
    <2>4. ASSUME NEW t \in Threads, NEW m \in Mems, MapMemory(t, m) PROVE Stays
        <3>1. shadow' = [shadow EXCEPT ![m] = real[m]] /\ m \notin mapped
            BY <2>4 DEF MapMemory
        <3>2. \A p \in Pages : shadow[m][p].host = 0
            BY <1>1, <3>1 DEF StoreInv, BlankInv, Blank, Fresh
        <3>3. \A n \in Mems : shadow'[n] = IF n = m THEN real[m] ELSE shadow[n]
            BY <2>1, <3>1 DEF Contents
        <3> QED BY <2>1, <3>2, <3>3
    <2>5. CASE SyncCopy
        <3>1. /\ step = "syncCopy" /\ cur \in Targets /\ cur \in mapped /\ SyncBack
              /\ shadow' = [shadow EXCEPT ![cur] = real[cur]]
            BY <1>1, <2>5 DEF SyncCopy, IInv, CallInv, Syncing
        <3>2. cur \in Watched /\ cur \in Mems
            BY <1>1, <3>1, WatchedAreMems DEF Watched
        <3>3. \A p \in Pages : real[cur][p].host >= shadow[cur][p].host
            BY <1>1, <3>1, <3>2 DEF StoreInv, SyncedInv, Syncing
        <3>4. \A n \in Mems : shadow'[n] = IF n = cur THEN real[cur] ELSE shadow[n]
            BY <2>1, <3>1, <3>2 DEF Contents
        <3> QED BY <2>1, <3>3, <3>4
    <2>6. CASE Drop
        <3>1. /\ cur \notin mapped' /\ cur \in Mems
              /\ shadow' = [shadow EXCEPT ![cur] = Blank]
            BY <1>1, <2>6 DEF Drop, IInv, HolderInv
        <3>2. \A n \in Mems : n # cur => shadow'[n] = shadow[n]
            BY <2>1, <3>1 DEF Contents
        <3> QED BY <2>1, <3>1, <3>2
    <2> QED BY <1>1, <2>2, <2>3, <2>4, <2>5, <2>6, ShadowChanges
<1>2. IInv /\ StoreInv /\ [Next]_vars => [Stays]_vars
    BY <1>1
<1> QED BY <1>2, StoreThroughout, PTL DEF Spec, StoresStay

-----------------------------------------------------------------------------
(* The data of the device.                                                 *)

\* The layer copies memory back, or no job writes any.
Shown == SyncBack \/ Targets = {}

\* The shadow memory has the device's data, unless it is just being copied back, and so has
\* the package.
DataInv ==
    /\ \A m \in mapped, p \in Pages :
            shadow[m][p].dev = real[m][p].dev \/ (cur = m /\ step \in {"syncOpen", "syncCopy"})
    /\ \A m \in Mems : \A p \in DOMAIN package[m] : package[m][p].dev = real[m][p].dev

\* What the device writes, page by page.
LEMMA DeviceWritesDev ==
    ASSUME NEW c \in Contents, NEW m \in Mems, NEW w \in SUBSET Pages, NEW n \in Mems, NEW p \in Pages
    PROVE  /\ n # m \/ w = {} => DeviceWrites(c, m, w)[n][p] = c[n][p]
           /\ DeviceWrites(c, m, w)[n][p].dev >= c[n][p].dev
<1>1. c[n][p] \in Page /\ c[n][p].dev \in Nat
    BY PageType DEF Page
<1>2. n # m => DeviceWrites(c, m, w)[n][p] = c[n][p]
    BY DEF DeviceWrites, Contents
<1>3. n = m => DeviceWrites(c, m, w)[n][p] = IF p \in w THEN [c[m][p] EXCEPT !.dev = @ + 1] ELSE c[m][p]
    BY DEF DeviceWrites, Contents
<1>4. [c[n][p] EXCEPT !.dev = @ + 1].dev = c[n][p].dev + 1
    BY <1>1 DEF Page
<1>5. CASE n = m /\ p \in w
    <2>1. DeviceWrites(c, m, w)[n][p] = [c[n][p] EXCEPT !.dev = @ + 1]
        BY <1>3, <1>5
    <2>2. DeviceWrites(c, m, w)[n][p].dev >= c[n][p].dev
        BY <1>1, <1>4, <2>1
    <2> QED BY <1>5, <2>2
<1>6. CASE ~(n = m /\ p \in w)
    <2>1. DeviceWrites(c, m, w)[n][p] = c[n][p]
        BY <1>2, <1>3, <1>6
    <2> QED BY <1>1, <2>1
<1> QED BY <1>5, <1>6

\* A step that copies nothing.
LEMMA DataStands ==
    ASSUME IInv, DataInv, UNCHANGED <<shadow, real, package>>, mapped' \subseteq mapped,
           \/ cur' = cur /\ step' \in {"syncOpen", "syncCopy"}
           \/ step \notin {"syncOpen", "syncCopy"}
    PROVE  DataInv'
BY DEF DataInv

\* Stores change no device data.
LEMMA DataThread ==
    ASSUME IInv, DataInv, NEW t \in Threads,
           StoreStep(t) \/ FaultStep(t) \/ HandlerEnter(t) \/ HandlerStep(t)
    PROVE  DataInv'
<1>1. UNCHANGED <<real, package, mapped, cur, step>>
    BY DEF StoreStep, FaultStep, HandlerEnter, HandlerStep, Store, Fault, HandlerMark,
           HandlerUnprotect, lockVars, memVars
<1>2. CASE shadow' = shadow
    BY <1>1, <1>2 DEF DataInv
<1>3. ASSUME NEW m \in Mems, NEW p \in Pages, Store(t, m, p)
      PROVE  DataInv'
    <2>1. \A n \in Mems, q \in Pages : shadow'[n][q].dev = shadow[n][q].dev
        <3> DEFINE r == [shadow[m][p] EXCEPT !.host = @ + 1]
        <3>1. shadow[m][p] \in Page /\ shadow \in Contents
            BY PageType DEF IInv, TypeOK
        <3>2. r.dev = shadow[m][p].dev
            BY <3>1 DEF Page
        <3>3. shadow' = [shadow EXCEPT ![m][p] = r]
            BY <1>3 DEF Store
        <3> HIDE DEF r
        <3> QED BY <3>1, <3>2, <3>3 DEF Contents
    <2>2. mapped \subseteq Mems
        BY WatchedAreMems
    <2> QED BY <1>1, <2>1, <2>2 DEF DataInv
<1>4. FaultStep(t) \/ HandlerEnter(t) \/ HandlerStep(t) => shadow' = shadow
    BY DEF FaultStep, Fault, HandlerEnter, HandlerStep, HandlerMark, HandlerUnprotect, memVars
<1> QED BY <1>2, <1>3, <1>4 DEF StoreStep

\* A memory is mapped with what the device has in it.
LEMMA DataCall ==
    ASSUME IInv, DataInv, NEW t \in Threads, CallStep(t)
    PROVE  DataInv'
<1>1. step = "none"
    BY DEF CallStep, MapMemory, FlushRanges, QueueSubmit, ReleaseMemory, Enter, IInv, HolderInv
<1>2. ASSUME NEW m \in Mems, MapMemory(t, m)
      PROVE  DataInv'
    <2>1. /\ mapped' = mapped \cup {m} /\ shadow' = [shadow EXCEPT ![m] = real[m]]
          /\ UNCHANGED <<step, cur, real, package>> /\ shadow \in Contents
        BY <1>2 DEF MapMemory, lockVars, IInv, TypeOK
    <2>2. \A n \in Mems : shadow'[n] = IF n = m THEN real[m] ELSE shadow[n]
        BY <2>1 DEF Contents
    <2>3. mapped \subseteq Mems
        BY WatchedAreMems
    <2> QED BY <1>1, <2>1, <2>2, <2>3 DEF DataInv
<1>3. (\A m \in Mems : ~MapMemory(t, m)) => UNCHANGED <<shadow, real, package, mapped>>
    BY DEF CallStep, FlushRanges, QueueSubmit, ReleaseMemory, memVars
<1> QED BY <1>1, <1>2, <1>3, DataStands

\* A package takes the device data with it.
LEMMA DataCopy ==
    ASSUME IInv, TraceInv, DataInv, Swap \/ Copy
    PROVE  DataInv'
<1>1. /\ cur \in Mems /\ cur \in mapped /\ DOMAIN package = Mems
      /\ step \notin {"syncOpen", "syncCopy"} /\ mapped \subseteq Mems
      /\ UNCHANGED <<shadow, real, mapped>>
    BY WatchedAreMems DEF Swap, Copy, IInv, HolderInv, TypeOK, TraceInv, NamedInv, Flushing, Copying
<1>2. \A m \in Mems : m # cur => package'[m] = package[m]
    BY <1>1 DEF Swap, Copy
<1>3. \A p \in DOMAIN package'[cur] : package'[cur][p].dev = real[cur][p].dev
    <2>1. CASE Swap
        BY <1>1, <2>1 DEF Swap, Nothing
    <2>2. CASE Copy
        <3>1. PICK r \in rest : package' = [package EXCEPT ![cur] =
                        [q \in DOMAIN package[cur] \cup {r} |->
                            IF q = r THEN shadow[cur][r] ELSE package[cur][q]]]
            BY <2>2 DEF Copy
        <3>2. /\ DOMAIN package'[cur] = DOMAIN package[cur] \cup {r} /\ r \in Pages
              /\ package'[cur][r] = shadow[cur][r]
              /\ \A q \in DOMAIN package[cur] : q # r => package'[cur][q] = package[cur][q]
            BY <1>1, <3>1 DEF IInv, TypeOK
        <3>3. shadow[cur][r].dev = real[cur][r].dev
            BY <1>1, <3>2 DEF DataInv
        <3> QED BY <1>1, <3>2, <3>3 DEF DataInv
    <2> QED BY <2>1, <2>2
<1> QED BY <1>1, <1>2, <1>3 DEF DataInv

\* The package has nothing newer or older of the device than the real memory.
LEMMA CopyBackKeepsDev ==
    ASSUME IInv, DataInv, CopyBack, NEW m \in Mems, NEW p \in Pages
    PROVE  real'[m][p].dev = real[m][p].dev
<1>1. /\ cur \in Mems /\ real' = [real EXCEPT ![cur] = Patched(@, package[cur])] /\ real \in Contents
    BY DEF CopyBack, IInv, HolderInv, TypeOK
<1>2. CASE m # cur
    BY <1>1, <1>2 DEF Contents
<1>3. CASE m = cur
    <2>1. real'[cur][p] = IF p \in DOMAIN package[cur] THEN package[cur][p] ELSE real[cur][p]
        BY <1>1 DEF Contents, Patched
    <2> QED BY <1>1, <1>3, <2>1 DEF DataInv
<1> QED BY <1>2, <1>3

\* What goes down is not older than what is there.
LEMMA DataCopyBack ==
    ASSUME IInv, DataInv, CopyBack
    PROVE  DataInv'
<1>1. /\ step = "back" /\ UNCHANGED <<shadow, package, mapped>> /\ mapped \subseteq Mems
    BY WatchedAreMems DEF CopyBack
<1>2. \A m \in Mems, p \in Pages : real'[m][p].dev = real[m][p].dev
    BY CopyBackKeepsDev
<1>3. \A m \in Mems : DOMAIN package[m] \subseteq Pages
    BY DEF IInv, TypeOK
<1> QED BY <1>1, <1>2, <1>3 DEF DataInv

\* A packet changes no memory.
LEMMA DataRecord ==
    ASSUME IInv, DataInv, RecordRanges \/ RecordOne
    PROVE  DataInv'
<1>1. step = "record" /\ UNCHANGED <<shadow, real, mapped>> /\ DOMAIN package = Mems
    BY DEF RecordRanges, RecordOne, IInv, TypeOK
<1>2. PICK m \in Mems : package' = [package EXCEPT ![m] = Nothing]
    BY DEF RecordRanges, RecordOne, WritePacket, IInv, TypeOK, HolderInv
<1>3. DOMAIN package'[m] = {} /\ \A n \in Mems : n # m => package'[n] = package[n]
    BY <1>1, <1>2 DEF Nothing
<1> QED BY <1>1, <1>3 DEF DataInv

\* What the device writes to mapped memory is copied back.
LEMMA DataRunJob ==
    ASSUME Shown, IInv, TraceInv, DataInv, RunJob
    PROVE  DataInv'
<1>1. PICK m \in Mems, w \in SUBSET Pages :
        /\ w # {} => m \in Targets
        /\ real' = DeviceWrites(real, m, w)
        /\ SyncBack /\ w # {} /\ m \in mapped => step' = "syncOpen" /\ cur' = m
    BY DEF RunJob
<1>2. /\ step = "run" /\ call = "submit" /\ real \in Contents /\ mapped \subseteq Mems
      /\ UNCHANGED <<shadow, mapped, package>>
    BY WatchedAreMems DEF RunJob, IInv, CallInv, TypeOK
<1>3. \A n \in Mems : DOMAIN package[n] = {}
    BY <1>2, NoPackages DEF Flushing, Copying
<1>4. \A n \in Mems, p \in Pages : n # m \/ w = {} => real'[n][p] = real[n][p]
    BY <1>1, <1>2, DeviceWritesDev
<1>5. ASSUME NEW n \in mapped, NEW p \in Pages
      PROVE  shadow[n][p].dev = real'[n][p].dev \/ (cur' = n /\ step' = "syncOpen")
    <2>1. shadow[n][p].dev = real[n][p].dev
        BY <1>2 DEF DataInv
    <2>2. CASE n # m \/ w = {}
        BY <1>2, <1>4, <2>1, <2>2
    <2>3. CASE n = m /\ w # {}
        BY <1>1, <2>3 DEF Shown
    <2> QED BY <2>2, <2>3
<1> QED BY <1>2, <1>3, <1>5 DEF DataInv

\* Device data come up.
LEMMA DataSync ==
    ASSUME IInv, DataInv, SyncOpen \/ SyncCopy \/ SyncClose
    PROVE  DataInv'
<1>1. CASE SyncOpen
    BY <1>1, DataStands DEF SyncOpen
<1>2. CASE SyncCopy
    <2>1. /\ shadow' = [shadow EXCEPT ![cur] = real[cur]] /\ cur \in Mems /\ shadow \in Contents
          /\ UNCHANGED <<real, package, mapped, cur>> /\ mapped \subseteq Mems
        BY <1>2, WatchedAreMems DEF SyncCopy, IInv, TypeOK, HolderInv, Syncing
    <2>2. \A n \in Mems : shadow'[n] = IF n = cur THEN real[cur] ELSE shadow[n]
        BY <2>1 DEF Contents
    <2> QED BY <2>1, <2>2 DEF DataInv
<1>3. CASE SyncClose
    BY <1>3, DataStands DEF SyncClose
<1> QED BY <1>1, <1>2, <1>3

\* What is unmapped is not looked at any more.
LEMMA DataDrop ==
    ASSUME IInv, TraceInv, DataInv, Drop
    PROVE  DataInv'
<1>1. /\ step = "drop" /\ cur \in Mems /\ mapped' = mapped \ {cur} /\ package' = package
      /\ shadow' = [shadow EXCEPT ![cur] = Blank]
      /\ real' = real \/ real' = [real EXCEPT ![cur] = Blank]
      /\ shadow \in Contents /\ real \in Contents /\ mapped \subseteq Mems /\ call # "flush"
    BY WatchedAreMems DEF Drop, IInv, HolderInv, CallInv, TypeOK
<1>2. \A m \in Mems : DOMAIN package[m] = {}
    BY <1>1, NoPackages DEF Flushing, Copying
<1>3. \A m \in Mems : m # cur => shadow'[m] = shadow[m] /\ real'[m] = real[m]
    BY <1>1 DEF Contents
<1> QED BY <1>1, <1>2, <1>3 DEF DataInv

\* Every step keeps it.
LEMMA NextData == ASSUME Shown, IInv, TraceInv, DataInv, [Next]_vars PROVE DataInv'
<1>1. CASE UNCHANGED vars
    BY <1>1, DataStands DEF vars, memVars, lockVars
<1>2. Protect \/ ChooseNow \/ ChooseLater \/ FlushedAll => DataInv'
    BY DataStands DEF Protect, ChooseNow, ChooseLater, FlushedAll, memVars
<1>3. CASE HolderStep
    BY <1>2, <1>3, DataCopy, DataCopyBack, DataRecord, DataRunJob, DataSync, DataDrop DEF HolderStep
<1>4. ASSUME NEW t \in Threads,
             \/ StoreStep(t) \/ FaultStep(t) \/ HandlerEnter(t) \/ HandlerStep(t)
             \/ CallStep(t)
      PROVE  DataInv'
    BY <1>4, DataThread, DataCall
<1> QED BY <1>1, <1>3, <1>4 DEF Next

\* Device data are up to date throughout.
LEMMA DataThroughout == Shown => (Spec => [](IInv /\ TraceInv /\ DataInv))
<1> SUFFICES ASSUME Shown PROVE Spec => [](IInv /\ TraceInv /\ DataInv)
    OBVIOUS
<1>1. Init => DataInv
    BY DEF Init, DataInv, Nothing
<1>2. Init => IInv /\ TraceInv /\ DataInv
    BY <1>1, InitIInv, InitTrace
<1>3. IInv /\ TraceInv /\ DataInv /\ [Next]_vars => (IInv /\ TraceInv /\ DataInv)'
    BY NextIInv, NextTrace, NextData
<1> QED BY <1>2, <1>3, PTL DEF Spec

\* Between two calls the application reads what the device wrote
\* (SyncRealMappedMemoryToMemoryCopyHandle).
THEOREM DeviceDataIsRead == Shown => (Spec => []ReadsDeviceData)
<1> SUFFICES ASSUME Shown PROVE Spec => []ReadsDeviceData
    OBVIOUS
<1>1. IInv /\ DataInv => ReadsDeviceData
    BY DEF IInv, HolderInv, DataInv, ReadsDeviceData
<1> QED BY <1>1, DataThroughout, PTL

\* A flush copies whole pages and never undoes what the device wrote to them
\* (vkFlushMappedMemoryRangePageGuardHandle).
THEOREM DeviceDataIsKept == Shown => (Spec => DeviceDataKept)
<1> SUFFICES ASSUME Shown PROVE Spec => DeviceDataKept
    OBVIOUS
<1> DEFINE Kept == \A m \in Mems, p \in Pages : call # "free" => real'[m][p].dev >= real[m][p].dev
<1>1. ASSUME IInv, DataInv, [Next]_vars PROVE Kept
    <2>1. real \in Contents /\ \A m \in Mems, p \in Pages : real[m][p].dev \in Nat
        BY <1>1, PageType DEF IInv, TypeOK, Page
    <2>2. \/ real' = real \/ CopyBack \/ (Drop /\ call = "free")
          \/ \E m \in Mems, w \in SUBSET Pages : real' = DeviceWrites(real, m, w)
        <3>1. UNCHANGED vars \/ SyncOpen \/ SyncCopy \/ SyncClose => real' = real
            BY DEF vars, memVars, SyncOpen, SyncCopy, SyncClose
        <3>2. Swap \/ Protect \/ Copy \/ RecordRanges \/ RecordOne => real' = real
            BY DEF Swap, Protect, Copy, RecordRanges, RecordOne
        <3>3. ChooseNow \/ ChooseLater \/ FlushedAll => real' = real
            BY DEF ChooseNow, ChooseLater, FlushedAll, memVars
        <3>4. RunJob => \E m \in Mems, w \in SUBSET Pages : real' = DeviceWrites(real, m, w)
            BY DEF RunJob
        <3>5. Drop => real' = real \/ call = "free"
            BY DEF Drop
        <3>6. ASSUME NEW t \in Threads,
                     StoreStep(t) \/ FaultStep(t) \/ HandlerEnter(t) \/ HandlerStep(t)
              PROVE  real' = real
            BY <3>6 DEF StoreStep, Store, FaultStep, Fault, HandlerEnter, HandlerStep, HandlerMark,
                        HandlerUnprotect, memVars
        <3>7. ASSUME NEW t \in Threads, CallStep(t) PROVE real' = real
            BY <3>7 DEF CallStep, MapMemory, FlushRanges, QueueSubmit, ReleaseMemory, memVars
        <3> QED BY <1>1, <3>1, <3>2, <3>3, <3>4, <3>5, <3>6, <3>7 DEF Next, HolderStep
    <2>3. CASE real' = real
        BY <2>1, <2>3
    <2>4. CASE CopyBack
        BY <1>1, <2>1, <2>4, CopyBackKeepsDev
    <2>5. CASE Drop /\ call = "free"
        BY <2>5
    <2>6. ASSUME NEW m \in Mems, NEW w \in SUBSET Pages, real' = DeviceWrites(real, m, w) PROVE Kept
        BY <2>1, <2>6, DeviceWritesDev
    <2> QED BY <2>2, <2>3, <2>4, <2>5, <2>6
<1>2. IInv /\ DataInv /\ [Next]_vars => [Kept]_vars
    BY <1>1
<1> QED BY <1>2, DataThroughout, PTL DEF Spec, DeviceDataKept

=============================================================================
