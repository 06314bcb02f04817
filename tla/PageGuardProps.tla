--------------------------- MODULE PageGuardProps ---------------------------
(***************************************************************************)
(* What the page guard owes the application, the device and the replay.    *)
(***************************************************************************)
EXTENDS PageGuard

(* The memories whose changes flushTargetChangedMappedMemory always passes on. *)
Watched == mapped \ AsMems

(* Every variable has the type its declaration gives it. *)
TypeOK ==
    /\ shadow \in Contents /\ real \in Contents /\ traced \in Contents
    /\ mapped \in SUBSET Mems
    /\ open \in [Mems -> SUBSET Pages]
    /\ active \in [Mems -> SUBSET Pages]
    /\ captured \in [Mems -> SUBSET Pages]
    /\ DOMAIN package = Mems
    /\ \A m \in Mems : \E D \in SUBSET Pages : package[m] \in [D -> Page]
    /\ didFlush \in [Mems -> FlushStates]
    /\ holder \in Threads \cup {NoThread}
    /\ pc \in [Threads -> {"idle", "fault", "mark", "unprotect", "retry"}]
    /\ target \in [Threads -> (Mems \X Pages) \cup {NoTarget}]
    /\ step \in {"none", "swap", "protect", "copy", "back", "record", "choose", "run",
                 "syncOpen", "syncCopy", "syncClose", "drop"}
    /\ call \in {"none", "flush", "submit", "unmap", "free"}
    /\ cur \in Mems \cup {NoMem}
    /\ rest \in SUBSET Pages
    /\ todo \in Seq(Mems) /\ later \in Seq(Mems) /\ noted \in SUBSET Mems
    /\ stores \in Nat
    /\ seen \in Contents

(* The changed pages of m on their way to the real memory: marked ones, ones that the
   flush has still to copy, and ones in the package as they are now. *)
OnTheWay(m) ==
    active[m] \cup
    (IF cur = m /\ step \in {"protect", "copy", "back"}
     THEN rest \cup {p \in DOMAIN package[m] : package[m][p].host = shadow[m][p].host}
     ELSE {})

(* No store of the application is lost: a page whose shadow has a store that the real
   memory lacks will be copied, by the flush under way or by the next one, however
   stores, faults and flushes of different threads interleave (getChangedBlockInfo,
   PageGuardExceptionHandler, resetMemoryObjectAllChangedFlagAndPageGuard). *)
NoWriteLost ==
    \A m \in mapped, p \in Pages :
        shadow[m][p].host # real[m][p].host => p \in OnTheWay(m)

(* A job sees every store that was made before vkQueueSubmit took the lock, in the
   capture and on replay, also in memory whose flush was put off because it is
   HOST_CACHED, and after an explicit flush that named a memory twice
   (flushAllChangedMappedMemory). *)
JobSeesWrites ==
    step = "run" =>
        \A m \in Watched, p \in Pages :
            /\ real[m][p].host >= seen[m][p].host
            /\ traced[m][p].host >= seen[m][p].host

(* When a job runs, the packets before it have given the memory on replay the contents
   it has in the capture, unmapped memory included (vkUnmapMemoryPageGuardHandle
   flushes first). *)
ReplayAgrees == step = "run" => \A m \in Mems \ AsMems : traced[m] = real[m]

(* Before the shadow memory is given up, its last stores are in the real memory and in
   the trace, whether or not the memory was ever flushed
   (PageGuardCapture::vkUnmapMemoryPageGuardHandle). *)
UnmapSaves ==
    step = "drop" /\ cur \in Watched =>
        \A p \in Pages : /\ real[cur][p].host = shadow[cur][p].host
                         /\ traced[cur][p].host = shadow[cur][p].host

(* A thread that faults is let go on: it neither waits for a lock that its own handler
   holds nor for one that is never given back (pageguardEnter in the handler). *)
FaultReturns == \A t \in Threads : pc[t] # "idle" ~> pc[t] = "idle"

(* A flush copies whole pages; with the data of the device copied back after every job
   it never undoes what the device wrote (vkFlushMappedMemoryRangePageGuardHandle). *)
DeviceDataKept ==
    [][\A m \in Mems, p \in Pages :
            call # "free" => real'[m][p].dev >= real[m][p].dev]_vars

(* A store that the application has made stays in what it reads back: the copy from the
   real memory never puts an older value in its place
   (SyncRealMappedMemoryToMemoryCopyHandle). *)
StoresStay ==
    [][\A m \in Mems, p \in Pages :
            m \in mapped' => shadow'[m][p].host >= shadow[m][p].host]_vars

(* What the application reads between two calls is what the device wrote
   (SyncRealMappedMemoryToMemoryCopyHandle). *)
ReadsDeviceData ==
    Free => \A m \in mapped, p \in Pages : shadow[m][p].dev = real[m][p].dev
=============================================================================
