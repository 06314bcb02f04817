-------------------------- MODULE TraceCalls_proofs --------------------------
(***************************************************************************)
(* Proofs about the interceptors of the tracing layer: for every number of *)
(* threads, memory handles and calls, the packets come in the order of     *)
(* their indices and, under TraceLock, of the driver's calls, and what the *)
(* packets say of memory is what the replay can do when it reads them.     *)
(***************************************************************************)
EXTENDS TraceCallsProps, FiniteSetTheorems, WellFoundedInduction,
        TLAPS

Name == {"vkAllocateMemory", "vkFreeMemory", "vkMapMemory", "vkUnmapMemory",
         "vkFlushMappedMemoryRanges", "vkInvalidateMappedMemoryRanges",
         "vkQueueSubmit", "vkWaitForFences", "vkSetEvent", "vkGetQueryPoolResults"}

-----------------------------------------------------------------------------
(* Places in a text, the sequence of the steps of an interceptor.          *)

\* The step that takes each lock and those that give it back.
Opens == [api |-> "enterApi", map |-> "enterMap", trace |-> "CREATE", info |-> "enterInfo"]
Closes == [api |-> {"leaveApi"}, map |-> {"leaveMap"},
           trace |-> {"FINISH", "FLUSHED"}, info |-> {"leaveInfo"}]

\* The steps that an interceptor does at most once.
Once == {"driver", "remember", "forget", "FINISH"}

\* Before step i the lock l has been taken and not been given back.
Between(s, i, l) ==
    \E k \in 1..i-1 : s[k] = Opens[l] /\ \A m \in k+1..i-1 : s[m] \notin Closes[l]

Past(s, i, x) == \E k \in 1..i-1 : s[k] = x

\* Step i belongs to the flushes of mapped memory, or to the flush of one.
InLoop(s, i) == \E j \in 1..i, k \in i..Len(s) : s[j] = "each" /\ s[k] = "FLUSHED"
InFlush(s, i) == \E j \in 1..i-1, k \in i..Len(s) : s[j] = "each" /\ s[k] = "FLUSHED"

-----------------------------------------------------------------------------
(* The same of a thread.                                                   *)

Holds(t, l) == call[t] # "none" /\ Between(Hooks[call[t]], at[t], l)
Did(t, x) == call[t] # "none" /\ Past(Hooks[call[t]], at[t], x)
Looping(t) == call[t] # "none" /\ InLoop(Hooks[call[t]], at[t])
Flushing(t) == call[t] # "none" /\ InFlush(Hooks[call[t]], at[t])

\* Between a step and the packet that tells the replay of it.
Pending(t, x) == Did(t, x) /\ ~Did(t, "FINISH")

\* The calls that name a memory object from their beginning.
OnHandle == OnMapped \union {"vkMapMemory", "vkFreeMemory"}

-----------------------------------------------------------------------------
(* The parts of the inductive invariant.                                   *)

\* Who holds a lock is between the steps that take it and give it back.
LockInv ==
    \A l \in Locks, t \in Threads :
        lock[l] = t <=> Holds(t, l) /\ (l = "api" => locked)

\* The packet that is being made has the last index.
OrderInv ==
    /\ written.index <= packets
    /\ \A t \in Threads : Holds(t, "trace") => index[t] = packets /\ written.index < packets

\* Under TraceLock what the driver has done and the trace does not yet tell is
\* later than all that the trace tells.
ExecInv ==
    /\ written.exec <= execs
    /\ \A t \in Threads : exec[t] <= execs
    /\ locked => \A t \in Threads : Pending(t, "driver") => exec[t] > written.exec

\* The table is an array with at most as many entries in use as it has.
IsTable(tab) ==
    /\ tab \in [block : Nat, entries : Seq(Entry), numEntrys : Nat, last : Nat \X Nat]
    /\ tab.numEntrys <= Len(tab.entries)

TableInv == IsTable(table)

\* The memory that a call names exists while the call needs it.
CallInv ==
    \A t \in Threads :
        /\ call[t] \in OnHandle => mem[t] \in Handles
        /\ call[t] \in OnHandle /\ ~(call[t] = "vkFreeMemory" /\ Did(t, "driver"))
             => memory[mem[t]] # 0
        /\ call[t] = "vkFreeMemory" /\ Pending(t, "driver") => memory[mem[t]] = 0
        /\ call[t] = "vkAllocateMemory" /\ ~Did(t, "driver") => mem[t] = NoHandle
        /\ call[t] = "vkAllocateMemory" /\ Did(t, "driver")
             => mem[t] \in Handles /\ memory[mem[t]] # 0
        /\ call[t] \notin OnHandle \union {"vkAllocateMemory"} => mem[t] = NoHandle

\* Two calls name one handle only when one has freed it, and the trace says so,
\* and the other has got it anew.
Reuses(t, u) ==
    call[t] = "vkFreeMemory" /\ Did(t, "FINISH") /\ call[u] = "vkAllocateMemory"

OwnInv ==
    \A t, u \in Threads :
        t # u /\ mem[t] = mem[u] /\ mem[t] \in Handles => Reuses(t, u) \/ Reuses(u, t)

\* What is known to be mapped, as the calls under way change it.
MappedInv ==
    /\ \A h \in mapped : memory[h] # 0
    /\ \A t \in Threads :
         /\ call[t] = "vkMapMemory" => (mem[t] \in mapped <=> Did(t, "remember"))
         /\ call[t] = "vkUnmapMemory" => (mem[t] \in mapped <=> ~Did(t, "forget"))
         /\ call[t] \in OnMapped \ {"vkUnmapMemory"} => mem[t] \in mapped
         /\ call[t] = "vkFreeMemory" /\ Pending(t, "forget") => mem[t] \notin mapped

\* A call that has changed the memory behind a handle, or what is known to be
\* mapped, and whose packet is still to come.
Remakes(t) == call[t] \in {"vkAllocateMemory", "vkFreeMemory"} /\ Pending(t, "driver")
Remaps(t) ==
    \/ call[t] = "vkMapMemory" /\ Pending(t, "remember")
    \/ call[t] \in {"vkUnmapMemory", "vkFreeMemory"} /\ Pending(t, "forget")

\* The trace agrees with the driver and the page guard, except on the handles
\* of calls whose packets are still to come; on these it says what is to change.
ReplayedInv ==
    /\ \A h \in Handles :
         \/ replayed[h].id = memory[h]
         \/ \E t \in Threads : mem[t] = h /\ Remakes(t)
    /\ \A h \in Handles :
         \/ replayed[h].mapped <=> h \in mapped
         \/ \E t \in Threads : mem[t] = h /\ Remaps(t)
    /\ \A t \in Threads : ~Did(t, "FINISH") =>
         /\ call[t] = "vkAllocateMemory" /\ Did(t, "driver")
              => replayed[mem[t]].id = 0 /\ ~replayed[mem[t]].mapped
         /\ call[t] = "vkMapMemory" => ~replayed[mem[t]].mapped
         /\ call[t] \in OnMapped => replayed[mem[t]].mapped
         /\ call[t] = "vkFreeMemory" => replayed[mem[t]].id # 0

\* The memories that a thread has still to flush are mapped, and it flushes
\* them before it gives back what pageguardEnter took.
LoopInv ==
    \A t \in Threads :
        /\ todo[t] \subseteq mapped
        /\ cur[t] # NoHandle => cur[t] \in mapped
        /\ todo[t] # {} \/ cur[t] # NoHandle => Looping(t)
        /\ Flushing(t) => cur[t] # NoHandle

MemoryInv == CallInv /\ OwnInv /\ MappedInv /\ ReplayedInv

IInv == TypeOK /\ TableInv /\ LockInv /\ OrderInv /\ ExecInv /\ MemoryInv /\ LoopInv

-----------------------------------------------------------------------------
(* The texts of the interceptors, and what they have in common.            *)

AllocateMemoryText ==
    <<"enterApi", "CREATE", "driver", "FINISH", "add", "leaveApi", "return">>
FreeMemoryText ==
    <<"enterApi", "enterMap", "each", "CREATE", "enterInfo", "find", "use",
      "leaveInfo", "FLUSHED", "forget", "leaveMap", "CREATE", "driver",
      "FINISH", "remove", "leaveApi", "return">>
MapMemoryText ==
    <<"enterApi", "enterMap", "CREATE", "driver", "find", "use", "remember",
      "data", "FINISH", "leaveMap", "leaveApi", "return">>
UnmapMemoryText ==
    <<"enterApi", "enterMap", "each", "CREATE", "enterInfo", "find", "use",
      "leaveInfo", "FLUSHED", "forget", "enterInfo", "find", "CREATE",
      "use", "leaveInfo", "driver", "FINISH", "leaveMap", "leaveApi",
      "return">>
FlushRangesText ==
    <<"enterApi", "enterMap", "CREATE", "enterInfo", "find", "use",
      "leaveInfo", "driver", "FINISH", "leaveMap", "leaveApi", "return">>
InvalidateRangesText ==
    <<"enterApi", "enterMap", "find", "use", "CREATE", "enterInfo", "find",
      "use", "leaveInfo", "driver", "FINISH", "leaveMap", "leaveApi",
      "return">>
QueueSubmitText ==
    <<"enterApi", "enterMap", "each", "find", "use", "CREATE", "enterInfo",
      "find", "use", "leaveInfo", "FLUSHED", "CREATE", "driver", "FINISH",
      "leaveMap", "leaveApi", "return">>
WaitForFencesText ==
    <<"enterApi", "CREATE", "driver", "FINISH", "leaveApi", "return">>
SetEventText ==
    <<"enterApi", "CREATE", "driver", "FINISH", "leaveApi", "return">>
GetQueryPoolResultsText ==
    <<"enterApi", "driver", "CREATE", "FINISH", "leaveApi", "return">>

\* The calls that flush mapped memory.
Flushers == {"vkUnmapMemory", "vkFreeMemory", "vkQueueSubmit"}

\* A text ends with "return".  It tells the trace last and once, after what is
\* done once, and forgets memory before the driver frees it.
Order(n, s) ==
    /\ DOMAIN s = 1..Len(s) /\ Len(s) \in Nat \ {0}
    /\ \A i \in 1..Len(s) :
         /\ s[i] # "return" => i + 1 \in 1..Len(s)
         /\ s[i] = "return" => Past(s, i, "FINISH")
         /\ s[i] = "FINISH" =>
              /\ Past(s, i, "driver")
              /\ n = "vkMapMemory" => Past(s, i, "remember")
              /\ n \in {"vkUnmapMemory", "vkFreeMemory"} => Past(s, i, "forget")
         /\ s[i] \in Once => ~Past(s, i, s[i]) /\ ~Past(s, i, "FINISH")
         /\ s[i] = "add" => n = "vkAllocateMemory" /\ Past(s, i, "driver")
         /\ s[i] = "remember" \/ Past(s, i, "remember") => n = "vkMapMemory"
         /\ s[i] = "forget" \/ Past(s, i, "forget") => n \in {"vkUnmapMemory", "vkFreeMemory"}
         /\ s[i] = "forget" => ~Past(s, i, "driver")
         /\ n = "vkFreeMemory" /\ s[i] = "driver" => Past(s, i, "forget")

\* A lock is given back by who has taken it, and before the call returns.
\* TraceLock is held from the driver's call to the packet, s_trace_lock too
\* where handles are made or freed, map_lock_sem_id where memory is mapped.
Locking(n, s) ==
    /\ \A i \in 1..Len(s), l \in Locks :
         /\ s[i] \in Closes[l] => Between(s, i, l)
         /\ s[i] = "return" => ~Between(s, i, l)
    /\ \A i \in 1..Len(s) :
         /\ Past(s, i, "driver") /\ ~Past(s, i, "FINISH") => Between(s, i, "api")
         /\ n \in {"vkAllocateMemory", "vkFreeMemory"}
              => (s[i] = "driver" \/ (Past(s, i, "driver") /\ ~Past(s, i, "FINISH"))
                    => Between(s, i, "trace"))
         /\ Past(s, i, "remember") /\ ~Past(s, i, "FINISH") => Between(s, i, "map")
         /\ s[i] = "forget" => Between(s, i, "map")

\* The flushes have a beginning and an end, both with the same locks, and are
\* done between pageguardEnter and pageguardExit, before what is done once.
Loop(n, s) ==
    /\ \A i \in 1..Len(s) :
         /\ s[i] = "each" => \E j \in 1..Len(s) : s[j] = "FLUSHED"
         /\ s[i] = "FLUSHED" => \E j \in 1..i : s[j] = "each"
         /\ InLoop(s, i) => Between(s, i, "map") /\ n \in Flushers
         /\ s[i] = "enterMap" /\ n \in Flushers => InLoop(s, i + 1)
         /\ s[i] = "forget" => ~InLoop(s, i)
    /\ \A i \in 1..Len(s), j \in 1..Len(s) : s[i] = "each" /\ s[j] = "FLUSHED" =>
         /\ i < j
         /\ \A l \in Locks : Between(s, i, l) <=> Between(s, j + 1, l)
         /\ \A x \in Once : ~Past(s, i, x) /\ ~Past(s, j + 1, x)
         /\ ~InFlush(s, i) /\ ~InFlush(s, j + 1)

\* The order of the steps of each.
LEMMA OrderOfTexts ==
    /\ Order("vkAllocateMemory", AllocateMemoryText)
    /\ Order("vkFreeMemory", FreeMemoryText)
    /\ Order("vkMapMemory", MapMemoryText)
    /\ Order("vkUnmapMemory", UnmapMemoryText)
    /\ Order("vkFlushMappedMemoryRanges", FlushRangesText)
    /\ Order("vkInvalidateMappedMemoryRanges", InvalidateRangesText)
    /\ Order("vkQueueSubmit", QueueSubmitText)
    /\ Order("vkWaitForFences", WaitForFencesText)
    /\ Order("vkSetEvent", SetEventText)
    /\ Order("vkGetQueryPoolResults", GetQueryPoolResultsText)
<1>1. Order("vkAllocateMemory", AllocateMemoryText)
    BY DEF Order, AllocateMemoryText, Past, Once
<1>2. Order("vkFreeMemory", FreeMemoryText)
    BY DEF Order, FreeMemoryText, Past, Once
<1>3. Order("vkMapMemory", MapMemoryText)
    BY DEF Order, MapMemoryText, Past, Once
<1>4. Order("vkUnmapMemory", UnmapMemoryText)
    BY DEF Order, UnmapMemoryText, Past, Once
<1>5. Order("vkFlushMappedMemoryRanges", FlushRangesText)
    BY DEF Order, FlushRangesText, Past, Once
<1>6. Order("vkInvalidateMappedMemoryRanges", InvalidateRangesText)
    BY DEF Order, InvalidateRangesText, Past, Once
<1>7. Order("vkQueueSubmit", QueueSubmitText)
    BY DEF Order, QueueSubmitText, Past, Once
<1>8. Order("vkWaitForFences", WaitForFencesText)
    BY DEF Order, WaitForFencesText, Past, Once
<1>9. Order("vkSetEvent", SetEventText)
    BY DEF Order, SetEventText, Past, Once
<1>10. Order("vkGetQueryPoolResults", GetQueryPoolResultsText)
    BY DEF Order, GetQueryPoolResultsText, Past, Once
<1> QED BY <1>1, <1>2, <1>3, <1>4, <1>5, <1>6, <1>7, <1>8, <1>9, <1>10

\* The locks of each.
LEMMA LockingOfTexts ==
    /\ Locking("vkAllocateMemory", AllocateMemoryText)
    /\ Locking("vkFreeMemory", FreeMemoryText)
    /\ Locking("vkMapMemory", MapMemoryText)
    /\ Locking("vkUnmapMemory", UnmapMemoryText)
    /\ Locking("vkFlushMappedMemoryRanges", FlushRangesText)
    /\ Locking("vkInvalidateMappedMemoryRanges", InvalidateRangesText)
    /\ Locking("vkQueueSubmit", QueueSubmitText)
    /\ Locking("vkWaitForFences", WaitForFencesText)
    /\ Locking("vkSetEvent", SetEventText)
    /\ Locking("vkGetQueryPoolResults", GetQueryPoolResultsText)
<1>1. Locking("vkAllocateMemory", AllocateMemoryText)
    BY DEF Locking, AllocateMemoryText, Locks, Opens, Closes, Between, Past
<1>2. Locking("vkFreeMemory", FreeMemoryText)
    BY DEF Locking, FreeMemoryText, Locks, Opens, Closes, Between, Past
<1>3. Locking("vkMapMemory", MapMemoryText)
    BY DEF Locking, MapMemoryText, Locks, Opens, Closes, Between, Past
<1>4. Locking("vkUnmapMemory", UnmapMemoryText)
    BY DEF Locking, UnmapMemoryText, Locks, Opens, Closes, Between, Past
<1>5. Locking("vkFlushMappedMemoryRanges", FlushRangesText)
    BY DEF Locking, FlushRangesText, Locks, Opens, Closes, Between, Past
<1>6. Locking("vkInvalidateMappedMemoryRanges", InvalidateRangesText)
    BY DEF Locking, InvalidateRangesText, Locks, Opens, Closes, Between, Past
<1>7. Locking("vkQueueSubmit", QueueSubmitText)
    BY DEF Locking, QueueSubmitText, Locks, Opens, Closes, Between, Past
<1>8. Locking("vkWaitForFences", WaitForFencesText)
    BY DEF Locking, WaitForFencesText, Locks, Opens, Closes, Between, Past
<1>9. Locking("vkSetEvent", SetEventText)
    BY DEF Locking, SetEventText, Locks, Opens, Closes, Between, Past
<1>10. Locking("vkGetQueryPoolResults", GetQueryPoolResultsText)
    BY DEF Locking, GetQueryPoolResultsText, Locks, Opens, Closes, Between, Past
<1> QED BY <1>1, <1>2, <1>3, <1>4, <1>5, <1>6, <1>7, <1>8, <1>9, <1>10

\* The flushes of each.
LEMMA LoopOfTexts ==
    /\ Loop("vkAllocateMemory", AllocateMemoryText)
    /\ Loop("vkFreeMemory", FreeMemoryText)
    /\ Loop("vkMapMemory", MapMemoryText)
    /\ Loop("vkUnmapMemory", UnmapMemoryText)
    /\ Loop("vkFlushMappedMemoryRanges", FlushRangesText)
    /\ Loop("vkInvalidateMappedMemoryRanges", InvalidateRangesText)
    /\ Loop("vkQueueSubmit", QueueSubmitText)
    /\ Loop("vkWaitForFences", WaitForFencesText)
    /\ Loop("vkSetEvent", SetEventText)
    /\ Loop("vkGetQueryPoolResults", GetQueryPoolResultsText)
<1>1. Loop("vkAllocateMemory", AllocateMemoryText)
    BY DEF Loop, AllocateMemoryText, Locks, Opens, Closes, Between, Past, Once, InLoop,
       InFlush, Flushers
<1>2. Loop("vkFreeMemory", FreeMemoryText)
    BY DEF Loop, FreeMemoryText, Locks, Opens, Closes, Between, Past, Once, InLoop,
       InFlush, Flushers
<1>3. Loop("vkMapMemory", MapMemoryText)
    BY DEF Loop, MapMemoryText, Locks, Opens, Closes, Between, Past, Once, InLoop,
       InFlush, Flushers
<1>4. Loop("vkUnmapMemory", UnmapMemoryText)
    BY DEF Loop, UnmapMemoryText, Locks, Opens, Closes, Between, Past, Once, InLoop,
       InFlush, Flushers
<1>5. Loop("vkFlushMappedMemoryRanges", FlushRangesText)
    BY DEF Loop, FlushRangesText, Locks, Opens, Closes, Between, Past, Once, InLoop,
       InFlush, Flushers
<1>6. Loop("vkInvalidateMappedMemoryRanges", InvalidateRangesText)
    BY DEF Loop, InvalidateRangesText, Locks, Opens, Closes, Between, Past, Once, InLoop,
       InFlush, Flushers
<1>7. Loop("vkQueueSubmit", QueueSubmitText)
    BY DEF Loop, QueueSubmitText, Locks, Opens, Closes, Between, Past, Once, InLoop,
       InFlush, Flushers
<1>8. Loop("vkWaitForFences", WaitForFencesText)
    BY DEF Loop, WaitForFencesText, Locks, Opens, Closes, Between, Past, Once, InLoop,
       InFlush, Flushers
<1>9. Loop("vkSetEvent", SetEventText)
    BY DEF Loop, SetEventText, Locks, Opens, Closes, Between, Past, Once, InLoop,
       InFlush, Flushers
<1>10. Loop("vkGetQueryPoolResults", GetQueryPoolResultsText)
    BY DEF Loop, GetQueryPoolResultsText, Locks, Opens, Closes, Between, Past, Once, InLoop,
       InFlush, Flushers
<1> QED BY <1>1, <1>2, <1>3, <1>4, <1>5, <1>6, <1>7, <1>8, <1>9, <1>10

\* What Guarded and the flushes make of the texts.
LEMMA TextsOfHooks ==
    /\ DOMAIN Hooks = Name
    /\ Hooks["vkAllocateMemory"] = AllocateMemoryText
    /\ Hooks["vkFreeMemory"] = FreeMemoryText
    /\ Hooks["vkMapMemory"] = MapMemoryText
    /\ Hooks["vkUnmapMemory"] = UnmapMemoryText
    /\ Hooks["vkFlushMappedMemoryRanges"] = FlushRangesText
    /\ Hooks["vkInvalidateMappedMemoryRanges"] = InvalidateRangesText
    /\ Hooks["vkQueueSubmit"] = QueueSubmitText
    /\ Hooks["vkWaitForFences"] = WaitForFencesText
    /\ Hooks["vkSetEvent"] = SetEventText
    /\ Hooks["vkGetQueryPoolResults"] = GetQueryPoolResultsText
<1>0. DOMAIN Hooks = Name
    BY DEF Hooks, Name
<1>1. Hooks["vkAllocateMemory"] = AllocateMemoryText
  <2> DEFINE s == Guarded(AllocateMemory)
  <2>1. s = [i \in 1..7 |-> s[i]]
    BY DEF Guarded, AllocateMemory
  <2>2. AllocateMemoryText = [i \in 1..7 |-> AllocateMemoryText[i]]
    BY DEF AllocateMemoryText
  <2>3. \A i \in 1..7 : s[i] = AllocateMemoryText[i]
    BY DEF Guarded, AllocateMemory, AllocateMemoryText
  <2>4. Hooks["vkAllocateMemory"] = s
    BY DEF Hooks
  <2> HIDE DEF s
  <2> QED BY <2>1, <2>2, <2>3, <2>4
<1>2. Hooks["vkFreeMemory"] = FreeMemoryText
  <2> DEFINE s == Guarded(FreeMemory)
  <2>1. s = [i \in 1..17 |-> s[i]]
    BY DEF Guarded, FreeMemory, Flushes
  <2>2. FreeMemoryText = [i \in 1..17 |-> FreeMemoryText[i]]
    BY DEF FreeMemoryText
  <2>3. \A i \in 1..17 : s[i] = FreeMemoryText[i]
    BY DEF Guarded, FreeMemory, Flushes, FreeMemoryText
  <2>4. Hooks["vkFreeMemory"] = s
    BY DEF Hooks
  <2> HIDE DEF s
  <2> QED BY <2>1, <2>2, <2>3, <2>4
<1>3. Hooks["vkMapMemory"] = MapMemoryText
  <2> DEFINE s == Guarded(MapMemory)
  <2>1. s = [i \in 1..12 |-> s[i]]
    BY DEF Guarded, MapMemory
  <2>2. MapMemoryText = [i \in 1..12 |-> MapMemoryText[i]]
    BY DEF MapMemoryText
  <2>3. \A i \in 1..12 : s[i] = MapMemoryText[i]
    BY DEF Guarded, MapMemory, MapMemoryText
  <2>4. Hooks["vkMapMemory"] = s
    BY DEF Hooks
  <2> HIDE DEF s
  <2> QED BY <2>1, <2>2, <2>3, <2>4
<1>4. Hooks["vkUnmapMemory"] = UnmapMemoryText
  <2> DEFINE s == Guarded(UnmapMemory)
  <2>1. s = [i \in 1..20 |-> s[i]]
    BY DEF Guarded, UnmapMemory, Flushes
  <2>2. UnmapMemoryText = [i \in 1..20 |-> UnmapMemoryText[i]]
    BY DEF UnmapMemoryText
  <2>3. \A i \in 1..20 : s[i] = UnmapMemoryText[i]
    BY DEF Guarded, UnmapMemory, Flushes, UnmapMemoryText
  <2>4. Hooks["vkUnmapMemory"] = s
    BY DEF Hooks
  <2> HIDE DEF s
  <2> QED BY <2>1, <2>2, <2>3, <2>4
<1>5. Hooks["vkFlushMappedMemoryRanges"] = FlushRangesText
  <2> DEFINE s == Guarded(FlushRanges)
  <2>1. s = [i \in 1..12 |-> s[i]]
    BY DEF Guarded, FlushRanges
  <2>2. FlushRangesText = [i \in 1..12 |-> FlushRangesText[i]]
    BY DEF FlushRangesText
  <2>3. \A i \in 1..12 : s[i] = FlushRangesText[i]
    BY DEF Guarded, FlushRanges, FlushRangesText
  <2>4. Hooks["vkFlushMappedMemoryRanges"] = s
    BY DEF Hooks
  <2> HIDE DEF s
  <2> QED BY <2>1, <2>2, <2>3, <2>4
<1>6. Hooks["vkInvalidateMappedMemoryRanges"] = InvalidateRangesText
  <2> DEFINE s == Guarded(InvalidateRanges)
  <2>1. s = [i \in 1..14 |-> s[i]]
    BY DEF Guarded, InvalidateRanges
  <2>2. InvalidateRangesText = [i \in 1..14 |-> InvalidateRangesText[i]]
    BY DEF InvalidateRangesText
  <2>3. \A i \in 1..14 : s[i] = InvalidateRangesText[i]
    BY DEF Guarded, InvalidateRanges, InvalidateRangesText
  <2>4. Hooks["vkInvalidateMappedMemoryRanges"] = s
    BY DEF Hooks
  <2> HIDE DEF s
  <2> QED BY <2>1, <2>2, <2>3, <2>4
<1>7. Hooks["vkQueueSubmit"] = QueueSubmitText
  <2> DEFINE s == Guarded(QueueSubmit)
  <2>1. s = [i \in 1..17 |-> s[i]]
    BY DEF Guarded, QueueSubmit, FlushesAll
  <2>2. QueueSubmitText = [i \in 1..17 |-> QueueSubmitText[i]]
    BY DEF QueueSubmitText
  <2>3. \A i \in 1..17 : s[i] = QueueSubmitText[i]
    BY DEF Guarded, QueueSubmit, FlushesAll, QueueSubmitText
  <2>4. Hooks["vkQueueSubmit"] = s
    BY DEF Hooks
  <2> HIDE DEF s
  <2> QED BY <2>1, <2>2, <2>3, <2>4
<1>8. Hooks["vkWaitForFences"] = WaitForFencesText
  <2> DEFINE s == Guarded(WaitForFences)
  <2>1. s = [i \in 1..6 |-> s[i]]
    BY DEF Guarded, WaitForFences
  <2>2. WaitForFencesText = [i \in 1..6 |-> WaitForFencesText[i]]
    BY DEF WaitForFencesText
  <2>3. \A i \in 1..6 : s[i] = WaitForFencesText[i]
    BY DEF Guarded, WaitForFences, WaitForFencesText
  <2>4. Hooks["vkWaitForFences"] = s
    BY DEF Hooks
  <2> HIDE DEF s
  <2> QED BY <2>1, <2>2, <2>3, <2>4
<1>9. Hooks["vkSetEvent"] = SetEventText
  <2> DEFINE s == Guarded(SetEvent)
  <2>1. s = [i \in 1..6 |-> s[i]]
    BY DEF Guarded, SetEvent
  <2>2. SetEventText = [i \in 1..6 |-> SetEventText[i]]
    BY DEF SetEventText
  <2>3. \A i \in 1..6 : s[i] = SetEventText[i]
    BY DEF Guarded, SetEvent, SetEventText
  <2>4. Hooks["vkSetEvent"] = s
    BY DEF Hooks
  <2> HIDE DEF s
  <2> QED BY <2>1, <2>2, <2>3, <2>4
<1>10. Hooks["vkGetQueryPoolResults"] = GetQueryPoolResultsText
  <2> DEFINE s == Guarded(GetQueryPoolResults)
  <2>1. s = [i \in 1..6 |-> s[i]]
    BY DEF Guarded, GetQueryPoolResults
  <2>2. GetQueryPoolResultsText = [i \in 1..6 |-> GetQueryPoolResultsText[i]]
    BY DEF GetQueryPoolResultsText
  <2>3. \A i \in 1..6 : s[i] = GetQueryPoolResultsText[i]
    BY DEF Guarded, GetQueryPoolResults, GetQueryPoolResultsText
  <2>4. Hooks["vkGetQueryPoolResults"] = s
    BY DEF Hooks
  <2> HIDE DEF s
  <2> QED BY <2>1, <2>2, <2>3, <2>4
<1> QED BY <1>0, <1>1, <1>2, <1>3, <1>4, <1>5, <1>6, <1>7, <1>8, <1>9, <1>10

\* So much is known of every interceptor.
LEMMA Shape ==
    ASSUME NEW n \in Name
    PROVE  Order(n, Hooks[n]) /\ Locking(n, Hooks[n]) /\ Loop(n, Hooks[n])
<1>1. CASE n = "vkAllocateMemory"
    BY <1>1, TextsOfHooks, OrderOfTexts, LockingOfTexts, LoopOfTexts
<1>2. CASE n = "vkFreeMemory"
    BY <1>2, TextsOfHooks, OrderOfTexts, LockingOfTexts, LoopOfTexts
<1>3. CASE n = "vkMapMemory"
    BY <1>3, TextsOfHooks, OrderOfTexts, LockingOfTexts, LoopOfTexts
<1>4. CASE n = "vkUnmapMemory"
    BY <1>4, TextsOfHooks, OrderOfTexts, LockingOfTexts, LoopOfTexts
<1>5. CASE n = "vkFlushMappedMemoryRanges"
    BY <1>5, TextsOfHooks, OrderOfTexts, LockingOfTexts, LoopOfTexts
<1>6. CASE n = "vkInvalidateMappedMemoryRanges"
    BY <1>6, TextsOfHooks, OrderOfTexts, LockingOfTexts, LoopOfTexts
<1>7. CASE n = "vkQueueSubmit"
    BY <1>7, TextsOfHooks, OrderOfTexts, LockingOfTexts, LoopOfTexts
<1>8. CASE n = "vkWaitForFences"
    BY <1>8, TextsOfHooks, OrderOfTexts, LockingOfTexts, LoopOfTexts
<1>9. CASE n = "vkSetEvent"
    BY <1>9, TextsOfHooks, OrderOfTexts, LockingOfTexts, LoopOfTexts
<1>10. CASE n = "vkGetQueryPoolResults"
    BY <1>10, TextsOfHooks, OrderOfTexts, LockingOfTexts, LoopOfTexts
<1> QED BY <1>1, <1>2, <1>3, <1>4, <1>5, <1>6, <1>7, <1>8, <1>9, <1>10 DEF Name

-----------------------------------------------------------------------------
(* How a thread moves through its text.                                    *)

\* Thread t does step s and goes on; the other threads stay where they are.
Moves(t, s) ==
    /\ UNCHANGED call
    /\ at' \in [Threads -> Nat]
    /\ \A u \in Threads :
         at'[u] \in IF call[u] = "none" THEN {0} ELSE DOMAIN Hooks[call[u]]
    /\ \A u \in Threads, l \in Locks : u # t => (Holds(u, l)' <=> Holds(u, l))
    /\ \A u \in Threads, x \in Once : u # t => (Did(u, x)' <=> Did(u, x))
    /\ \A u \in Threads : u # t =>
         (Looping(u)' <=> Looping(u)) /\ (Flushing(u)' <=> Flushing(u))
    /\ \A l \in Locks : Holds(t, l)' <=> s = Opens[l] \/ (Holds(t, l) /\ s \notin Closes[l])
    /\ \A x \in Once : Did(t, x)' <=> s = x \/ Did(t, x)
    /\ Looping(t) /\ s # "each" => Looping(t)'
    /\ Flushing(t)' => s = "each" \/ (Flushing(t) /\ s # "FLUSHED")

\* Where a thread is that has begun a call.
LEMMA Place ==
    ASSUME TypeOK, NEW t \in Threads, call[t] # "none"
    PROVE  /\ call[t] \in Name
           /\ at[t] \in 1..Len(Hooks[call[t]])
           /\ Order(call[t], Hooks[call[t]])
           /\ Locking(call[t], Hooks[call[t]])
           /\ Loop(call[t], Hooks[call[t]])
<1>1. call[t] \in Name
    BY TextsOfHooks DEF TypeOK, TypeThreads
<1>2. at[t] \in DOMAIN Hooks[call[t]]
    BY DEF TypeOK, TypeThreads
<1> QED BY <1>1, <1>2, Shape DEF Order

\* What is known of a thread depends only on where it is.
LEMMA Stays ==
    ASSUME NEW u \in Threads, call'[u] = call[u], at'[u] = at[u]
    PROVE  /\ \A l \in Locks : Holds(u, l)' <=> Holds(u, l)
           /\ \A x \in Once : Did(u, x)' <=> Did(u, x)
           /\ Looping(u)' <=> Looping(u)
           /\ Flushing(u)' <=> Flushing(u)
BY DEF Holds, Did, Looping, Flushing

\* One step further in a text.
LEMMA BetweenNext ==
    ASSUME NEW s, NEW i \in Nat \ {0}, NEW l
    PROVE  Between(s, i + 1, l) <=> s[i] = Opens[l] \/ (Between(s, i, l) /\ s[i] \notin Closes[l])
<1>1. ASSUME Between(s, i + 1, l), s[i] # Opens[l]
      PROVE  Between(s, i, l) /\ s[i] \notin Closes[l]
  <2>1. PICK k \in 1..i : s[k] = Opens[l] /\ \A m \in k+1..i : s[m] \notin Closes[l]
    BY <1>1 DEF Between
  <2>2. k \in 1..i-1 /\ i \in k+1..i
    BY <1>1, <2>1
  <2> QED BY <2>1, <2>2 DEF Between
<1>2. ASSUME s[i] = Opens[l] PROVE Between(s, i + 1, l)
  <2>1. i \in 1..(i + 1) - 1 /\ ~ \E m \in i+1..(i + 1) - 1 : TRUE
    OBVIOUS
  <2> QED BY <1>2, <2>1 DEF Between
<1>3. ASSUME Between(s, i, l), s[i] \notin Closes[l] PROVE Between(s, i + 1, l)
  <2>1. PICK k \in 1..i-1 : s[k] = Opens[l] /\ \A m \in k+1..i-1 : s[m] \notin Closes[l]
    BY <1>3 DEF Between
  <2>2. k \in 1..(i + 1) - 1
    OBVIOUS
  <2>3. ASSUME NEW m \in k+1..(i + 1) - 1 PROVE s[m] \notin Closes[l]
    <3>1. m = i \/ m \in k+1..i-1
      OBVIOUS
    <3> QED BY <1>3, <2>1, <3>1
  <2> QED BY <2>1, <2>2, <2>3 DEF Between
<1> QED BY <1>1, <1>2, <1>3

\* The same of what has been done.
LEMMA PastNext ==
    ASSUME NEW s, NEW i \in Nat \ {0}, NEW x
    PROVE  Past(s, i + 1, x) <=> s[i] = x \/ Past(s, i, x)
<1>1. 1..(i + 1) - 1 = (1..i-1) \union {i}
    OBVIOUS
<1> QED BY <1>1 DEF Past

\* The same of the flushes.
LEMMA LoopNext ==
    ASSUME NEW s, NEW i \in Nat \ {0}, Len(s) \in Nat, i + 1 \in 1..Len(s)
    PROVE  /\ InLoop(s, i) /\ s[i] # "FLUSHED" => InLoop(s, i + 1)
           /\ InFlush(s, i + 1) => s[i] = "each" \/ InFlush(s, i)
<1>1. ASSUME InLoop(s, i), s[i] # "FLUSHED" PROVE InLoop(s, i + 1)
  <2>1. PICK j \in 1..i, k \in i..Len(s) : s[j] = "each" /\ s[k] = "FLUSHED"
    BY <1>1 DEF InLoop
  <2>2. j \in 1..i+1 /\ k \in i+1..Len(s)
    BY <1>1, <2>1
  <2> QED BY <2>1, <2>2 DEF InLoop
<1>2. ASSUME InFlush(s, i + 1), s[i] # "each" PROVE InFlush(s, i)
  <2>1. PICK j \in 1..(i+1)-1, k \in i+1..Len(s) : s[j] = "each" /\ s[k] = "FLUSHED"
    BY <1>2 DEF InFlush
  <2>2. j \in 1..i-1 /\ k \in i..Len(s)
    BY <1>2, <2>1
  <2> QED BY <2>1, <2>2 DEF InFlush
<1> QED BY <1>1, <1>2


\* The next step of the text.
LEMMA StepMoves ==
    ASSUME TypeOK, NEW t \in Threads, NEW s, Doing(t, s), s \notin {"return", "FLUSHED"},
           Advance(t), UNCHANGED call
    PROVE  Moves(t, s) /\ (Looping(t) => Looping(t)')
<1> DEFINE h == Hooks[call[t]]
           i == at[t]
<1>1. /\ call[t] # "none" /\ h[i] = s
      /\ i \in 1..Len(h) /\ Len(h) \in Nat /\ i + 1 \in 1..Len(h) /\ DOMAIN h = 1..Len(h)
    BY Place DEF Doing, Order
<1>2. at' \in [Threads -> Nat] /\ at'[t] = i + 1 /\ \A u \in Threads : u # t => at'[u] = at[u]
    BY DEF TypeOK, TypeThreads, Advance
<1>3. \A u \in Threads : u # t =>
        /\ \A l \in Locks : Holds(u, l)' <=> Holds(u, l)
        /\ \A x \in Once : Did(u, x)' <=> Did(u, x)
        /\ (Looping(u)' <=> Looping(u)) /\ (Flushing(u)' <=> Flushing(u))
    BY <1>2, Stays
<1>4. /\ \A l \in Locks : Holds(t, l)' <=> Between(h, i + 1, l)
      /\ \A x \in Once : Did(t, x)' <=> Past(h, i + 1, x)
      /\ Looping(t)' <=> InLoop(h, i + 1)
      /\ Flushing(t)' <=> InFlush(h, i + 1)
    BY <1>1, <1>2 DEF Holds, Did, Looping, Flushing
<1>5. /\ \A l \in Locks : Holds(t, l) <=> Between(h, i, l)
      /\ \A x \in Once : Did(t, x) <=> Past(h, i, x)
      /\ Looping(t) <=> InLoop(h, i)
      /\ Flushing(t) <=> InFlush(h, i)
    BY <1>1 DEF Holds, Did, Looping, Flushing
<1>6. \A u \in Threads :
        at'[u] \in IF call[u] = "none" THEN {0} ELSE DOMAIN Hooks[call[u]]
    BY <1>1, <1>2 DEF TypeOK, TypeThreads
<1> HIDE DEF h, i
<1>7. \A l \in Locks : Holds(t, l)' <=> s = Opens[l] \/ (Holds(t, l) /\ s \notin Closes[l])
    BY <1>1, <1>4, <1>5, BetweenNext
<1>8. \A x \in Once : Did(t, x)' <=> s = x \/ Did(t, x)
    BY <1>1, <1>4, <1>5, PastNext
<1>9. /\ Looping(t) => Looping(t)'
      /\ Flushing(t)' => s = "each" \/ Flushing(t)
    BY <1>1, <1>4, <1>5, LoopNext
<1> QED BY <1>2, <1>3, <1>6, <1>7, <1>8, <1>9 DEF Moves

\* From the last flush on to what follows, and from each flush back to the
\* next: the locks are the same at both ends, and nothing has been done once.
LEMMA JumpMoves ==
    ASSUME TypeOK, NEW t \in Threads, NEW s \in {"each", "FLUSHED"}, Doing(t, s),
           NEW k, at' = [at EXCEPT ![t] = k], UNCHANGED call,
           IF s = "each"
           THEN \E j \in 1..Len(Hooks[call[t]]) : Hooks[call[t]][j] = "FLUSHED" /\ k = j + 1
           ELSE k \in 1..at[t] /\ Hooks[call[t]][k] = "each"
    PROVE  Moves(t, s) /\ ~Flushing(t)'
<1> DEFINE h == Hooks[call[t]]
           i == at[t]
<1>1. /\ call[t] # "none" /\ h[i] = s
      /\ i \in 1..Len(h) /\ Len(h) \in Nat /\ DOMAIN h = 1..Len(h)
      /\ Order(call[t], h) /\ Loop(call[t], h)
    BY Place DEF Doing, Order
<1>2. k \in 1..Len(h)
  <2>1. CASE s = "each"
    <3>1. PICK j \in 1..Len(h) : h[j] = "FLUSHED" /\ k = j + 1
      BY <2>1
    <3>2. h[j] # "return"
      BY <3>1
    <3> QED BY <1>1, <3>1, <3>2 DEF Order
  <2>2. CASE s = "FLUSHED"
    BY <1>1, <2>2
  <2> QED BY <2>1, <2>2
<1>3. at' \in [Threads -> Nat] /\ at'[t] = k /\ \A u \in Threads : u # t => at'[u] = at[u]
    BY <1>1, <1>2 DEF TypeOK, TypeThreads
<1>4. \A u \in Threads : u # t =>
        /\ \A l \in Locks : Holds(u, l)' <=> Holds(u, l)
        /\ \A x \in Once : Did(u, x)' <=> Did(u, x)
        /\ (Looping(u)' <=> Looping(u)) /\ (Flushing(u)' <=> Flushing(u))
    BY <1>3, Stays
<1>5. /\ \A l \in Locks : Holds(t, l)' <=> Between(h, k, l)
      /\ \A x \in Once : Did(t, x)' <=> Past(h, k, x)
      /\ Looping(t)' <=> InLoop(h, k)
      /\ Flushing(t)' <=> InFlush(h, k)
    BY <1>1, <1>3 DEF Holds, Did, Looping, Flushing
<1>6. /\ \A l \in Locks : Holds(t, l) <=> Between(h, i, l)
      /\ \A x \in Once : Did(t, x) <=> Past(h, i, x)
    BY <1>1 DEF Holds, Did
<1>7. \A u \in Threads :
        at'[u] \in IF call[u] = "none" THEN {0} ELSE DOMAIN Hooks[call[u]]
    BY <1>1, <1>2, <1>3 DEF TypeOK, TypeThreads
<1>8. /\ \A l \in Locks : Between(h, k, l) <=> Between(h, i, l) /\ s \notin Closes[l]
      /\ \A x \in Once : ~Past(h, i, x) /\ ~Past(h, k, x)
      /\ ~InFlush(h, k)
      /\ s = "FLUSHED" => InLoop(h, k)
  <2>1. CASE s = "each"
    <3>1. PICK j \in 1..Len(h) : h[j] = "FLUSHED" /\ k = j + 1
      BY <2>1
    <3>2. \A l \in Locks : s \notin Closes[l]
      BY <2>1 DEF Locks, Closes
    <3> HIDE DEF h, i
    <3> QED BY <1>1, <2>1, <3>1, <3>2 DEF Loop
  <2>2. CASE s = "FLUSHED"
    <3>1. k \in 1..i /\ h[k] = "each" /\ k \in 1..Len(h)
      BY <1>2, <2>2
    <3> HIDE DEF h, i
    <3>2. \A l \in Locks : Between(h, i + 1, l) <=> Between(h, i, l) /\ s \notin Closes[l]
      <4>1. \A l \in Locks : s # Opens[l]
        BY <2>2 DEF Locks, Opens
      <4> QED BY <1>1, <4>1, BetweenNext
    <3>3. \A x \in Once : Past(h, i + 1, x) <=> s = x \/ Past(h, i, x)
      BY <1>1, PastNext
    <3>4. /\ \A l \in Locks : Between(h, k, l) <=> Between(h, i + 1, l)
          /\ \A x \in Once : ~Past(h, k, x) /\ ~Past(h, i + 1, x)
          /\ ~InFlush(h, k)
      BY <1>1, <2>2, <3>1 DEF Loop
    <3>5. InLoop(h, k)
      <4>1. k \in 1..k /\ i \in k..Len(h)
        BY <1>1, <3>1
      <4> QED BY <1>1, <2>2, <3>1, <4>1 DEF InLoop
    <3> QED BY <3>2, <3>3, <3>4, <3>5
  <2> QED BY <2>1, <2>2
<1>9. /\ \A l \in Locks : s # Opens[l]
      /\ s \notin Once
    BY DEF Locks, Opens, Once
<1> HIDE DEF h, i
<1> QED BY <1>3, <1>4, <1>5, <1>6, <1>7, <1>8, <1>9 DEF Moves


-----------------------------------------------------------------------------
(* What each part of the invariant depends on.                             *)

\* A lock has one holder.
LEMMA Exclusive ==
    ASSUME LockInv, NEW t \in Threads, NEW u \in Threads, NEW l \in Locks,
           Holds(t, l), Holds(u, l), l = "api" => locked
    PROVE  t = u
BY DEF LockInv

\* What a step of each kind does to the locks.  TraceLock is none unless locked.
Switches(t, s) ==
    \A l \in Locks :
        IF l = "api" /\ ~locked THEN lock'[l] = lock[l]
        ELSE IF s = Opens[l] THEN lock[l] = NoThread /\ lock'[l] = t
        ELSE lock'[l] = IF s \in Closes[l] THEN NoThread ELSE lock[l]

\* A step that takes and gives back locks as its text says leaves each with its holder.
LEMMA LocksKept ==
    ASSUME TypeOK, LockInv, NEW t \in Threads, NEW s, Doing(t, s), Moves(t, s),
           UNCHANGED locked, Switches(t, s)
    PROVE  LockInv'
<1> SUFFICES ASSUME NEW l \in Locks, NEW u \in Threads
             PROVE  lock'[l] = u <=> Holds(u, l)' /\ (l = "api" => locked)
    BY DEF LockInv
<1>1. lock[l] = u <=> Holds(u, l) /\ (l = "api" => locked)
    BY DEF LockInv
<1>2. CASE l = "api" /\ ~locked
    BY <1>1, <1>2 DEF Switches
<1>3. CASE ~(l = "api" /\ ~locked) /\ s = Opens[l]
  <2>1. lock'[l] = t /\ lock[l] = NoThread
    BY <1>3 DEF Switches
  <2>2. Holds(t, l)'
    BY <1>3 DEF Moves
  <2>3. u # t => (Holds(u, l)' <=> Holds(u, l))
    BY DEF Moves
  <2> QED BY <1>1, <1>3, <2>1, <2>2, <2>3, NoOneIsNone
<1>4. CASE ~(l = "api" /\ ~locked) /\ s # Opens[l] /\ s \in Closes[l]
  <2>1. lock'[l] = NoThread
    BY <1>4 DEF Switches
  <2>2. ~Holds(t, l)'
    BY <1>4 DEF Moves
  <2>3. u # t => (Holds(u, l)' <=> Holds(u, l))
    BY DEF Moves
  <2>4. Holds(t, l)
    BY <1>4, Place DEF Doing, Holds, Locking
  <2>5. u # t => ~Holds(u, l)
    BY <1>4, <2>4, Exclusive
  <2> QED BY <2>1, <2>2, <2>3, <2>5, NoOneIsNone
<1>5. CASE ~(l = "api" /\ ~locked) /\ s # Opens[l] /\ s \notin Closes[l]
  <2>1. lock'[l] = lock[l]
    BY <1>5 DEF Switches
  <2>2. Holds(u, l)' <=> Holds(u, l)
    BY <1>5 DEF Moves
  <2> QED BY <1>1, <2>1, <2>2
<1> QED BY <1>2, <1>3, <1>4, <1>5

\* Steps that make no packet keep the order of the packets.
LEMMA OrderKept ==
    ASSUME OrderInv, NEW t \in Threads, NEW s, Moves(t, s),
           s \notin {"CREATE", "FINISH", "FLUSHED"}, UNCHANGED <<index, packets, written>>
    PROVE  OrderInv'
<1>1. \A u \in Threads : Holds(u, "trace")' <=> Holds(u, "trace")
    BY DEF Moves, Locks, Opens, Closes
<1> QED BY <1>1 DEF OrderInv

\* Steps of neither the driver nor the trace keep the order of the driver's calls.
LEMMA ExecKept ==
    ASSUME ExecInv, NEW t \in Threads, NEW s, Moves(t, s),
           s \notin {"driver", "FINISH"},
           UNCHANGED <<locked, exec, execs>>, written'.exec = written.exec
    PROVE  ExecInv'
<1>1. \A u \in Threads : Pending(u, "driver")' <=> Pending(u, "driver")
    BY DEF Moves, Once, Pending
<1> QED BY <1>1 DEF ExecInv

\* Steps that are not done once change nothing about memory.
LEMMA MemoryKept ==
    ASSUME MemoryInv, NEW t \in Threads, NEW s, Moves(t, s), s \notin Once,
           UNCHANGED <<mem, memory, mapped, replayed>>
    PROVE  MemoryInv'
<1>1. UNCHANGED call
    BY DEF Moves
<1>2. \A u \in Threads, x \in Once : Did(u, x)' <=> Did(u, x)
    BY DEF Moves
<1>3. \A u \in Threads :
        /\ \A x \in Once : Pending(u, x)' <=> Pending(u, x)
        /\ Remakes(u)' <=> Remakes(u)
        /\ Remaps(u)' <=> Remaps(u)
    BY <1>1, <1>2 DEF Once, Pending, Remakes, Remaps
<1>4. \A u, v \in Threads : Reuses(u, v)' <=> Reuses(u, v)
    BY <1>1, <1>2 DEF Once, Reuses
<1>5. CallInv'
    BY <1>1, <1>2, <1>3 DEF MemoryInv, CallInv, Once
<1>6. OwnInv'
    BY <1>4 DEF MemoryInv, OwnInv
<1>7. MappedInv'
    BY <1>1, <1>2, <1>3 DEF MemoryInv, MappedInv, Once
<1>8. ReplayedInv'
    BY <1>1, <1>2, <1>3 DEF MemoryInv, ReplayedInv, Once
<1> QED BY <1>5, <1>6, <1>7, <1>8 DEF MemoryInv

\* Steps that neither begin nor end a flush keep the flushes.
LEMMA LoopKept ==
    ASSUME LoopInv, NEW t \in Threads, NEW s, Moves(t, s), s \notin {"each", "FLUSHED"},
           UNCHANGED <<todo, cur, mapped>>
    PROVE  LoopInv'
<1>1. \A u \in Threads : (Looping(u) => Looping(u)') /\ (Flushing(u)' => Flushing(u))
    BY DEF Moves
<1> QED BY <1>1 DEF LoopInv


-----------------------------------------------------------------------------
(* The table.                                                              *)

\* The least and the greatest of some numbers are what CHOOSE gives.
LEMMA LeastNatural ==
    ASSUME NEW S \in SUBSET Nat, S # {}
    PROVE  \E n \in S : \A m \in S : n <= m
<1> DEFINE R == OpToRel(<, Nat)
<1>1. IsWellFoundedOn(R, Nat)
    BY NatLessThanWellFounded
<1>2. \A x, y \in Nat : <<x, y>> \in R <=> x < y
    BY DEF OpToRel
<1> HIDE DEF R
<1>3. PICK n \in S : \A m \in S : ~(<<m, n>> \in R)
    BY <1>1, WFMin
<1>4. ASSUME NEW m \in S PROVE n <= m
  <2>1. m \in Nat /\ n \in Nat
    OBVIOUS
  <2>2. ~(m < n)
    BY <1>2, <1>3, <2>1
  <2> QED BY <2>1, <2>2
<1> QED BY <1>4

\* CHOOSE finds the least of a set of numbers.
LEMMA LeastOf ==
    ASSUME NEW S \in SUBSET Nat, S # {}
    PROVE  (CHOOSE i \in S : \A j \in S : i <= j) \in S
BY LeastNatural

\* A set of numbers up to n has a greatest one.
LEMMA GreatestOf ==
    ASSUME NEW n \in Nat, NEW S \in SUBSET (0..n), S # {}
    PROVE  (CHOOSE i \in S : \A j \in S : i >= j) \in S
<1> DEFINE D == {n - i : i \in S}
<1>1. D \in SUBSET Nat /\ D # {}
  <2>1. \A i \in S : n - i \in Nat
    OBVIOUS
  <2> QED BY <2>1
<1>2. \A j \in S : n - j \in D /\ j \in 0..n
    OBVIOUS
<1> HIDE DEF D
<1>3. PICK d \in D : \A e \in D : d <= e
    BY <1>1, LeastNatural
<1>4. PICK i \in S : d = n - i
    BY <1>3 DEF D
<1>5. \A j \in S : i >= j
  <2> SUFFICES ASSUME NEW j \in S PROVE i >= j
    OBVIOUS
  <2>1. n - i <= n - j /\ i \in 0..n /\ j \in 0..n
    BY <1>2, <1>3, <1>4
  <2> QED BY <2>1
<1> QED BY <1>5

\* As many entries as the array has.
LEMMA CapacityIsLen ==
    ASSUME NEW tab, tab.entries \in Seq(Entry)
    PROVE  Capacity(tab) = Len(tab.entries) /\ DOMAIN tab.entries = 1..Len(tab.entries)
<1>1. DOMAIN tab.entries = 1..Len(tab.entries) /\ Len(tab.entries) \in Nat
    OBVIOUS
<1>2. Cardinality(1..Len(tab.entries)) = Len(tab.entries)
    BY <1>1, FS_Interval
<1> QED BY <1>1, <1>2 DEF Capacity

\* An entry that is not used is an entry.
LEMMA UnusedIsEntry == Unused \in Entry
BY DEF Unused, Entry

\* The types of a table follow from its being an array.
LEMMA TableTypes ==
    ASSUME NEW tab, IsTable(tab)
    PROVE  /\ \A i \in DOMAIN tab.entries : tab.entries[i] \in Entry
           /\ tab.numEntrys \in 0..Capacity(tab)
<1>1. tab.entries \in Seq(Entry) /\ tab.numEntrys \in Nat /\ tab.numEntrys <= Len(tab.entries)
    BY DEF IsTable
<1>2. Capacity(tab) = Len(tab.entries) /\ DOMAIN tab.entries = 1..Len(tab.entries)
    BY <1>1, CapacityIsLen
<1>3. \A i \in DOMAIN tab.entries : tab.entries[i] \in Entry
    BY <1>1, <1>2
<1> QED BY <1>1, <1>2, <1>3

\* The table without an array is one.
LEMMA NoTableIsTable == IsTable(NoTable)
<1>1. [i \in {} |-> Unused] \in Seq(Entry) /\ Len([i \in {} |-> Unused]) = 0
  <2>1. {} = 1..0
    OBVIOUS
  <2>2. [i \in 1..0 |-> Unused] \in [1..0 -> Entry]
    BY UnusedIsEntry
  <2> QED BY <2>1, <2>2
<1> QED BY <1>1 DEF NoTable, IsTable, Null

\* A pointer to an entry is a pair of numbers.
LEMMA FindType ==
    ASSUME NEW tab, IsTable(tab), NEW h, NEW e \in Find(tab, h)
    PROVE  e \in Nat \X Nat
<1> DEFINE hits == {i \in 1..tab.numEntrys : Matches(tab.entries[i], h)}
           first == CHOOSE i \in hits : \A j \in hits : i <= j
<1>1. tab.block \in Nat /\ tab.last \in Nat \X Nat /\ hits \in SUBSET Nat
    BY DEF IsTable
<1>2. hits # {} => first \in Nat
  <2> HIDE DEF hits
  <2> QED BY <1>1, LeastOf
<1>3. Scan(tab, h) = IF hits = {} THEN Null ELSE <<tab.block, first>>
    BY DEF Scan
<1> HIDE DEF hits, first
<1>4. Scan(tab, h) \in Nat \X Nat
    BY <1>1, <1>2, <1>3 DEF Null
<1> QED BY <1>1, <1>4 DEF Find

\* A table stays one when an entry is added, whether it grows or not.
LEMMA AddedIsTable ==
    ASSUME NEW tab, IsTable(tab), NEW h \in Handles, NEW id \in Nat, NEW new \in Added(tab, h, id)
    PROVE  IsTable(new)
<1> DEFINE t == Inited(tab)
           free == {i \in 1..t.numEntrys : ~t.entries[i].valid}
           roomy == IF free = {} /\ t.numEntrys = Capacity(t) THEN Grown(t) ELSE {t}
           slot == IF free = {} THEN t.numEntrys + 1
                   ELSE CHOOSE i \in free : \A j \in free : i <= j
           entry == [valid |-> TRUE, handle |-> h, id |-> id]
<1>1. IsTable(t) /\ Capacity(t) \in Nat \ {0}
  <2>1. Capacity(tab) = Len(tab.entries) /\ Len(tab.entries) \in Nat
    BY CapacityIsLen DEF IsTable
  <2>2. CASE Capacity(tab) = 0
    <3> DEFINE e == [i \in 1..FirstCapacity |-> Unused]
    <3>1. e \in Seq(Entry) /\ Len(e) = FirstCapacity
      BY UnusedIsEntry, CapacityIsPositive
    <3>2. t = [tab EXCEPT !.entries = e, !.numEntrys = 0, !.last = Null]
      BY <2>2 DEF Inited
    <3> HIDE DEF e, t
    <3>3. t.entries = e /\ t.numEntrys = 0
      BY <3>2 DEF IsTable
    <3>4. t \in [block : Nat, entries : Seq(Entry), numEntrys : Nat, last : Nat \X Nat]
      BY <3>1, <3>2 DEF IsTable, Null
    <3>5. IsTable(t)
      BY <3>1, <3>3, <3>4, CapacityIsPositive DEF IsTable
    <3> QED BY <3>1, <3>3, <3>5, CapacityIsLen, CapacityIsPositive
  <2>3. CASE Capacity(tab) # 0
    BY <2>1, <2>3 DEF Inited
  <2> QED BY <2>2, <2>3
<1> HIDE DEF t
<1>2. PICK u \in roomy : new = [u EXCEPT !.entries[slot] = entry,
                                         !.numEntrys = IF free = {} THEN slot ELSE @]
    BY DEF Added, t
<1>3. /\ t.entries \in Seq(Entry) /\ t.numEntrys \in Nat /\ t.numEntrys <= Len(t.entries)
      /\ Capacity(t) = Len(t.entries) /\ DOMAIN t.entries = 1..Len(t.entries)
      /\ Len(t.entries) \in Nat
    BY <1>1, CapacityIsLen DEF IsTable
<1>4. ASSUME NEW v \in Grown(t)
      PROVE  IsTable(v) /\ v.numEntrys = t.numEntrys /\ Len(v.entries) = 2 * Len(t.entries)
  <2> DEFINE twice == [i \in 1..2 * Capacity(t) |->
                          IF i \in DOMAIN t.entries THEN t.entries[i] ELSE Unused]
  <2>1. \A i \in DOMAIN t.entries : t.entries[i] \in Entry
    BY <1>3
  <2>2. twice \in [1..2 * Len(t.entries) -> Entry]
    BY <1>3, <2>1, UnusedIsEntry
  <2>3. twice \in Seq(Entry) /\ Len(twice) = 2 * Len(t.entries)
    BY <1>3, <2>2
  <2>4. PICK b \in {t.block, t.block + 1} : v = [t EXCEPT !.entries = twice, !.block = b]
    BY DEF Grown
  <2> HIDE DEF twice
  <2>5. v.entries = twice /\ v.numEntrys = t.numEntrys
    BY <1>1, <2>4 DEF IsTable
  <2>6. v \in [block : Nat, entries : Seq(Entry), numEntrys : Nat, last : Nat \X Nat]
    <3>1. b \in Nat
      BY <1>1 DEF IsTable
    <3> QED BY <1>1, <2>3, <2>4, <3>1 DEF IsTable
  <2> QED BY <1>3, <2>3, <2>5, <2>6 DEF IsTable
<1>5. /\ IsTable(u) /\ u.numEntrys = t.numEntrys
      /\ free = {} => t.numEntrys < Len(u.entries)
      /\ Len(t.entries) <= Len(u.entries)
  <2>1. CASE free = {} /\ t.numEntrys = Capacity(t)
    <3>1. u \in Grown(t)
      BY <2>1
    <3> QED BY <1>1, <1>3, <1>4, <3>1
  <2>2. CASE ~(free = {} /\ t.numEntrys = Capacity(t))
    <3>1. u = t
      BY <2>2
    <3> QED BY <1>1, <1>3, <2>2, <3>1
  <2> QED BY <2>1, <2>2
<1>6. slot \in 1..Len(u.entries)
  <2>1. CASE free = {}
    <3>1. t.numEntrys \in Nat /\ Len(u.entries) \in Nat
      BY <1>1, <1>5 DEF IsTable
    <3>2. t.numEntrys < Len(u.entries) /\ slot = t.numEntrys + 1
      BY <1>5, <2>1
    <3> HIDE DEF slot
    <3> QED BY <3>1, <3>2
  <2>2. CASE free # {}
    <3>1. free \in SUBSET Nat
      BY <1>3
    <3>2. slot \in free
      <4> HIDE DEF free
      <4> QED BY <2>2, <3>1, LeastOf
    <3>3. slot \in 1..t.numEntrys
      <4> HIDE DEF slot
      <4> QED BY <3>2
    <3> HIDE DEF slot, free
    <3> QED BY <1>3, <1>5, <3>3
  <2> QED BY <2>1, <2>2
<1>7. free = {} => slot = t.numEntrys + 1
    OBVIOUS
<1>8. entry \in Entry
    BY DEF Entry
<1> HIDE DEF free, roomy, slot, entry
<1>9. [u.entries EXCEPT ![slot] = entry] \in Seq(Entry)
      /\ Len([u.entries EXCEPT ![slot] = entry]) = Len(u.entries)
    BY <1>5, <1>6, <1>8 DEF IsTable
<1>10. /\ new.entries = [u.entries EXCEPT ![slot] = entry]
       /\ new.numEntrys = IF free = {} THEN slot ELSE u.numEntrys
    BY <1>2, <1>5 DEF IsTable
<1>11. slot \in Nat /\ u.numEntrys \in Nat /\ u.numEntrys <= Len(u.entries)
    BY <1>5, <1>6 DEF IsTable
<1>12. new \in [block : Nat, entries : Seq(Entry), numEntrys : Nat, last : Nat \X Nat]
    BY <1>2, <1>5, <1>9, <1>11 DEF IsTable
<1> QED BY <1>6, <1>9, <1>10, <1>11, <1>12 DEF IsTable

\* And when one is removed.
LEMMA RemovedIsTable ==
    ASSUME NEW tab, IsTable(tab), NEW e \in Nat \X Nat
    PROVE  IsTable(Removed(tab, e))
<1> DEFINE cleared == IF Points(tab, e) THEN [tab EXCEPT !.entries[e[2]] = Unused] ELSE tab
           last == [cleared EXCEPT !.last = IF @ = e THEN Null ELSE @]
           used == {i \in 1..last.numEntrys : last.entries[i].valid}
<1>1. CASE e = Null
    BY <1>1 DEF Removed
<1>2. CASE e # Null
  <2>1. IsTable(cleared)
    <3>1. CASE Points(tab, e)
      <4>1. e[2] \in DOMAIN tab.entries
        BY <1>2, <3>1 DEF Points
      <4>2. [tab.entries EXCEPT ![e[2]] = Unused] \in Seq(Entry)
            /\ Len([tab.entries EXCEPT ![e[2]] = Unused]) = Len(tab.entries)
        BY <4>1, UnusedIsEntry DEF IsTable
      <4>3. cleared = [tab EXCEPT !.entries[e[2]] = Unused]
        BY <3>1
      <4> HIDE DEF cleared
      <4> QED BY <4>2, <4>3 DEF IsTable
    <3>2. CASE ~Points(tab, e)
      BY <3>2
    <3> QED BY <3>1, <3>2
  <2> HIDE DEF cleared
  <2>2. IsTable(last)
    BY <2>1 DEF IsTable, Null
  <2>3. Removed(tab, e) = Shrunk(last)
    BY <1>2 DEF Removed, cleared
  <2> HIDE DEF last
  <2>4. CASE used = {}
    <3>1. Shrunk(last) = [NoTable EXCEPT !.block = last.block]
      BY <2>4 DEF Shrunk
    <3> QED BY <2>2, <2>3, <3>1, NoTableIsTable DEF IsTable
  <2>5. CASE used # {}
    <3> DEFINE n == CHOOSE i \in used : \A j \in used : i >= j
    <3>1. last.numEntrys \in Nat /\ used \in SUBSET (0..last.numEntrys)
      BY <2>2 DEF IsTable
    <3>2. n \in used
      BY <2>5, <3>1, GreatestOf
    <3>3. Shrunk(last) = [last EXCEPT !.numEntrys = n]
      BY <2>5 DEF Shrunk
    <3>4. n \in 0..last.numEntrys
      BY <3>1, <3>2
    <3> HIDE DEF n
    <3>5. Shrunk(last).entries = last.entries /\ Shrunk(last).numEntrys = n
      BY <2>2, <3>3 DEF IsTable
    <3>6. Shrunk(last) \in
            [block : Nat, entries : Seq(Entry), numEntrys : Nat, last : Nat \X Nat]
      <4>1. n \in Nat
        BY <3>1, <3>4
      <4> QED BY <2>2, <3>3, <4>1 DEF IsTable
    <3>7. last.numEntrys <= Len(last.entries) /\ Len(last.entries) \in Nat
      BY <2>2 DEF IsTable
    <3> QED BY <2>3, <3>1, <3>4, <3>5, <3>6, <3>7 DEF IsTable
  <2> QED BY <2>4, <2>5
<1> QED BY <1>1, <1>2


-----------------------------------------------------------------------------
(* The steps of a call.                                                    *)

\* Steps that the trace, the driver and the page guard do not see.
LEMMA Walk ==
    ASSUME IInv, NEW t \in Threads, NEW s, Doing(t, s), Advance(t), Switches(t, s),
           s \notin {"return", "FLUSHED", "CREATE", "FINISH", "each", "driver", "remember",
                     "forget"},
           UNCHANGED <<locked, call, mem, cur, todo, index, exec, driverVars, traceVars>>
    PROVE  /\ Moves(t, s)
           /\ LockInv' /\ OrderInv' /\ ExecInv' /\ MemoryInv' /\ LoopInv'
           /\ TypeDriver' /\ TypeTrace'
<1>1. Moves(t, s)
    BY StepMoves DEF IInv
<1>2. UNCHANGED <<memory, ids, mapped, fence, event, execs, packets, written, replayed>>
    BY DEF driverVars, traceVars
<1>3. LockInv'
    BY <1>1, LocksKept DEF IInv
<1>4. OrderInv'
    BY <1>1, <1>2, OrderKept DEF IInv
<1>5. ExecInv'
    BY <1>1, <1>2, ExecKept DEF IInv
<1>6. MemoryInv'
    BY <1>1, <1>2, MemoryKept DEF IInv, Once
<1>7. LoopInv'
    BY <1>1, <1>2, LoopKept DEF IInv
<1>8. TypeDriver' /\ TypeTrace'
    BY <1>2 DEF IInv, TypeOK, TypeDriver, TypeTrace
<1> QED BY <1>1, <1>3, <1>4, <1>5, <1>6, <1>7, <1>8

\* What Moves says of the types of the threads' variables.
LEMMA WalkTypes ==
    ASSUME TypeThreads, NEW t \in Threads, NEW s, Moves(t, s), UNCHANGED <<locked, calls>>,
           lock' \in [Locks -> Threads \union {NoThread}],
           mem' \in [Threads -> Handles \union {NoHandle}],
           cur' \in [Threads -> Handles \union {NoHandle}],
           todo' \in [Threads -> SUBSET Handles],
           found' \in [Threads -> Nat \X Nat],
           index' \in [Threads -> Nat], exec' \in [Threads -> Nat]
    PROVE  TypeThreads'
BY DEF Moves, TypeThreads

\* The parts make the whole.
LEMMA Whole ==
    ASSUME TypeThreads', TableInv', TypeDriver', TypeTrace', LockInv', OrderInv', ExecInv',
           MemoryInv', LoopInv'
    PROVE  IInv'
<1>1. IsTable(table')
    BY DEF TableInv, IsTable
<1>2. TypeTable'
    BY <1>1, TableTypes DEF TypeTable, Capacity
<1> QED BY <1>2 DEF IInv, TypeOK

\* Taking and giving back locks.
LEMMA TakesLock ==
    ASSUME TypeThreads, NEW t \in Threads, NEW l \in Locks, Take(t, l) \/ GiveBack(l)
    PROVE  lock' \in [Locks -> Threads \union {NoThread}]
BY DEF TypeThreads, Take, GiveBack

\* The steps that only take or give back a lock.
LEMMA LockSteps ==
    ASSUME IInv, NEW t \in Threads,
           \/ EnterApi(t) \/ LeaveApi(t) \/ LeaveMap(t) \/ EnterInfo(t) \/ LeaveInfo(t)
    PROVE  IInv'
<1>1. PICK s \in {"enterApi", "leaveApi", "leaveMap", "enterInfo", "leaveInfo"} :
        Doing(t, s) /\ Switches(t, s)
  <2>1. CASE EnterApi(t)
    <3>1. Switches(t, "enterApi")
      <4>1. \A l \in Locks : "enterApi" \notin Closes[l] /\ ("enterApi" = Opens[l] <=> l = "api")
        BY DEF Locks, Opens, Closes
      <4> QED BY <2>1, <4>1 DEF EnterApi, Switches, Take, Locks, IInv, TypeOK, TypeThreads
    <3> QED BY <2>1, <3>1 DEF EnterApi
  <2>2. CASE LeaveApi(t)
    <3>1. Switches(t, "leaveApi")
      <4>1. \A l \in Locks : "leaveApi" # Opens[l] /\ ("leaveApi" \in Closes[l] <=> l = "api")
        BY DEF Locks, Opens, Closes
      <4> QED BY <2>2, <4>1 DEF LeaveApi, Switches, GiveBack, Locks, IInv, TypeOK, TypeThreads
    <3> QED BY <2>2, <3>1 DEF LeaveApi
  <2>3. CASE LeaveMap(t)
    <3>1. Switches(t, "leaveMap")
      <4>1. \A l \in Locks : "leaveMap" # Opens[l] /\ ("leaveMap" \in Closes[l] <=> l = "map")
        BY DEF Locks, Opens, Closes
      <4> QED BY <2>3, <4>1 DEF LeaveMap, Switches, GiveBack, Locks, IInv, TypeOK, TypeThreads
    <3> QED BY <2>3, <3>1 DEF LeaveMap
  <2>4. CASE EnterInfo(t)
    <3>1. Switches(t, "enterInfo")
      <4>1. \A l \in Locks : "enterInfo" \notin Closes[l] /\ ("enterInfo" = Opens[l] <=> l = "info")
        BY DEF Locks, Opens, Closes
      <4> QED BY <2>4, <4>1 DEF EnterInfo, Switches, Take, Locks, IInv, TypeOK, TypeThreads
    <3> QED BY <2>4, <3>1 DEF EnterInfo
  <2>5. CASE LeaveInfo(t)
    <3>1. Switches(t, "leaveInfo")
      <4>1. \A l \in Locks : "leaveInfo" # Opens[l] /\ ("leaveInfo" \in Closes[l] <=> l = "info")
        BY DEF Locks, Opens, Closes
      <4> QED BY <2>5, <4>1 DEF LeaveInfo, Switches, GiveBack, Locks, IInv, TypeOK, TypeThreads
    <3> QED BY <2>5, <3>1 DEF LeaveInfo
  <2> QED BY <2>1, <2>2, <2>3, <2>4, <2>5
<1>2. /\ Advance(t)
      /\ UNCHANGED <<locked, call, calls, mem, cur, todo, found, index, exec, table,
                     driverVars, traceVars>>
    BY DEF EnterApi, LeaveApi, LeaveMap, EnterInfo, LeaveInfo
<1>3. lock' \in [Locks -> Threads \union {NoThread}]
  <2>1. UNCHANGED lock \/ \E l \in Locks : Take(t, l) \/ GiveBack(l)
    BY DEF EnterApi, LeaveApi, LeaveMap, EnterInfo, LeaveInfo, Locks
  <2> QED BY <2>1, TakesLock DEF IInv, TypeOK, TypeThreads
<1>4. /\ Moves(t, s)
      /\ LockInv' /\ OrderInv' /\ ExecInv' /\ MemoryInv' /\ LoopInv'
      /\ TypeDriver' /\ TypeTrace'
    BY <1>1, <1>2, Walk
<1>5. TypeThreads'
    BY <1>2, <1>3, <1>4, WalkTypes DEF IInv, TypeOK, TypeThreads
<1>6. TableInv'
    BY <1>2 DEF IInv, TableInv, IsTable
<1> QED BY <1>4, <1>5, <1>6, Whole

\* Looking up and changing the table.
LEMMA TableSteps ==
    ASSUME IInv, NEW t \in Threads,
           FindEntry(t) \/ UseEntry(t) \/ AddEntry(t) \/ MapEntry(t) \/ RemoveEntry(t)
    PROVE  IInv'
<1>1. PICK s \in {"find", "use", "add", "data", "remove"} : Doing(t, s)
    BY DEF FindEntry, UseEntry, AddEntry, MapEntry, RemoveEntry
<1>2. /\ Advance(t)
      /\ UNCHANGED <<locked, lock, call, calls, mem, cur, todo, index, exec, driverVars,
                     traceVars>>
    BY DEF FindEntry, UseEntry, AddEntry, MapEntry, RemoveEntry
<1>3. Switches(t, s)
    BY <1>1, <1>2 DEF Switches, Opens, Closes, Locks
<1>4. /\ Moves(t, s)
      /\ LockInv' /\ OrderInv' /\ ExecInv' /\ MemoryInv' /\ LoopInv'
      /\ TypeDriver' /\ TypeTrace'
    BY <1>1, <1>2, <1>3, Walk
<1>5. IsTable(table)
    BY DEF IInv, TableInv
<1>6. found' \in [Threads -> Nat \X Nat]
  <2>1. CASE FindEntry(t)
    <3>1. PICK e \in Find(table, Subject(t)) : found' = [found EXCEPT ![t] = e]
      BY <2>1 DEF FindEntry
    <3>2. e \in Nat \X Nat
      BY <1>5, FindType
    <3> QED BY <3>1, <3>2 DEF IInv, TypeOK, TypeThreads
  <2>2. CASE UseEntry(t)
    <3>1. Null \in Nat \X Nat
      BY DEF Null
    <3> QED BY <2>2, <3>1 DEF UseEntry, IInv, TypeOK, TypeThreads
  <2>3. CASE AddEntry(t) \/ MapEntry(t) \/ RemoveEntry(t)
    <3>1. UNCHANGED found
      BY <2>3 DEF AddEntry, MapEntry, RemoveEntry
    <3> QED BY <3>1 DEF IInv, TypeOK, TypeThreads
  <2> QED BY <2>1, <2>2, <2>3
<1>7. TypeThreads'
    BY <1>2, <1>4, <1>6, WalkTypes DEF IInv, TypeOK, TypeThreads
<1>8. IsTable(table')
  <2>1. CASE FindEntry(t) \/ UseEntry(t)
    <3>1. table' = table
      BY <2>1 DEF FindEntry, UseEntry
    <3> QED BY <1>5, <3>1
  <2>2. CASE AddEntry(t)
    <3>1. Doing(t, "add") /\ call[t] # "none"
      BY <2>2 DEF AddEntry, Doing
    <3>2. call[t] = "vkAllocateMemory" /\ Did(t, "driver")
      BY <3>1, Place DEF Doing, Order, Did, IInv
    <3>3. mem[t] \in Handles
      BY <3>2 DEF IInv, MemoryInv, CallInv
    <3>4. memory[mem[t]] \in Nat
      BY <3>3 DEF IInv, TypeOK, TypeDriver
    <3>5. table' \in Added(table, mem[t], memory[mem[t]])
      BY <2>2 DEF AddEntry
    <3> QED BY <1>5, <3>3, <3>4, <3>5, AddedIsTable
  <2>3. CASE MapEntry(t)
    <3>1. PICK e \in Find(table, mem[t]) : table' = [table EXCEPT !.last = e]
      BY <2>3 DEF MapEntry
    <3>2. e \in Nat \X Nat
      BY <1>5, FindType
    <3>3. table'.entries = table.entries /\ table'.numEntrys = table.numEntrys
      BY <1>5, <3>1 DEF IsTable
    <3>4. table' \in [block : Nat, entries : Seq(Entry), numEntrys : Nat, last : Nat \X Nat]
      BY <1>5, <3>1, <3>2 DEF IsTable
    <3> QED BY <1>5, <3>3, <3>4 DEF IsTable
  <2>4. CASE RemoveEntry(t)
    <3>1. PICK e \in Find(table, mem[t]) : table' = Removed(table, e)
      BY <2>4 DEF RemoveEntry
    <3>2. e \in Nat \X Nat
      BY <1>5, FindType
    <3> QED BY <1>5, <3>1, <3>2, RemovedIsTable
  <2> QED BY <2>1, <2>2, <2>3, <2>4
<1>9. TableInv'
    BY <1>8 DEF TableInv, IsTable
<1> QED BY <1>4, <1>7, <1>9, Whole


\* pageguardEnter, with what is to be flushed.
LEMMA EnterMapStep == ASSUME IInv, NEW t \in Threads, EnterMap(t) PROVE IInv'
<1>1. /\ Doing(t, "enterMap") /\ Advance(t) /\ Take(t, "map")
      /\ UNCHANGED <<locked, call, calls, mem, cur, found, index, exec, table, driverVars,
                     traceVars>>
    BY DEF EnterMap
<1>2. Moves(t, "enterMap") /\ (Looping(t) => Looping(t)')
    BY <1>1, StepMoves DEF IInv
<1>3. UNCHANGED <<memory, ids, mapped, fence, event, execs, packets, written, replayed>>
    BY <1>1 DEF driverVars, traceVars
<1>4. LockInv'
  <2>1. Switches(t, "enterMap")
    BY <1>1 DEF Switches, Take, Opens, Closes, Locks, IInv, TypeOK, TypeThreads
  <2> QED BY <1>1, <1>2, <2>1, LocksKept DEF IInv
<1>5. OrderInv' /\ ExecInv'
    BY <1>1, <1>2, <1>3, OrderKept, ExecKept DEF IInv
<1>6. MemoryInv'
    BY <1>1, <1>2, <1>3, MemoryKept DEF IInv, Once
<1>7. /\ todo' \in [Threads -> SUBSET Handles]
      /\ \A u \in Threads : u # t => todo'[u] = todo[u]
      /\ todo'[t] \subseteq mapped
      /\ todo'[t] # {} => call[t] \in Flushers
    BY DEF EnterMap, Flushers, IInv, TypeOK, TypeThreads, TypeDriver
<1>8. todo'[t] # {} => Looping(t)'
  <2> SUFFICES ASSUME call[t] \in Flushers PROVE Looping(t)'
    BY <1>7
  <2>1. /\ call[t] # "none" /\ Hooks[call[t]][at[t]] = "enterMap"
        /\ at[t] \in 1..Len(Hooks[call[t]]) /\ Loop(call[t], Hooks[call[t]])
    BY <1>1, Place DEF Doing, IInv
  <2>2. InLoop(Hooks[call[t]], at[t] + 1)
    BY <2>1 DEF Loop
  <2>3. at'[t] = at[t] + 1
    BY <1>1 DEF Advance, IInv, TypeOK, TypeThreads
  <2> QED BY <1>1, <2>1, <2>2, <2>3 DEF Looping
<1>9. LoopInv'
  <2> SUFFICES ASSUME NEW u \in Threads
               PROVE  /\ todo'[u] \subseteq mapped'
                      /\ cur'[u] # NoHandle => cur'[u] \in mapped'
                      /\ todo'[u] # {} \/ cur'[u] # NoHandle => Looping(u)'
                      /\ Flushing(u)' => cur'[u] # NoHandle
    BY DEF LoopInv
  <2>1. Looping(u) => Looping(u)'
    BY <1>2 DEF Moves
  <2>2. Flushing(u)' => Flushing(u)
    BY <1>2 DEF Moves
  <2> QED BY <1>1, <1>3, <1>7, <1>8, <2>1, <2>2 DEF IInv, LoopInv
<1>10. TypeThreads'
  <2>1. lock' \in [Locks -> Threads \union {NoThread}]
    BY <1>1, TakesLock DEF IInv, TypeOK, Locks
  <2> QED BY <1>1, <1>2, <1>7, <2>1, WalkTypes DEF IInv, TypeOK, TypeThreads
<1>11. TypeDriver' /\ TypeTrace' /\ TableInv'
    BY <1>1, <1>3 DEF IInv, TypeOK, TypeDriver, TypeTrace, TableInv, IsTable
<1> QED BY <1>4, <1>5, <1>6, <1>9, <1>10, <1>11, Whole

\* The next memory to flush, or on to what follows.
LEMMA EachStep == ASSUME IInv, NEW t \in Threads, Each(t) PROVE IInv'
<1>1. /\ Doing(t, "each")
      /\ UNCHANGED <<locked, lock, call, calls, mem, found, index, exec, table, driverVars,
                     traceVars>>
    BY DEF Each
<1>2. UNCHANGED <<memory, ids, mapped, fence, event, execs, packets, written, replayed>>
    BY <1>1 DEF driverVars, traceVars
<1>3. Moves(t, "each") /\
        \/ todo[t] = {} /\ cur' = [cur EXCEPT ![t] = NoHandle] /\ UNCHANGED todo
             /\ ~Flushing(t)'
        \/ /\ Looping(t) => Looping(t)'
           /\ \E h \in todo[t] : /\ cur' = [cur EXCEPT ![t] = h]
                                 /\ todo' = [todo EXCEPT ![t] = @ \ {h}]
  <2>1. CASE todo[t] = {} /\ cur' = [cur EXCEPT ![t] = NoHandle] /\ UNCHANGED todo
             /\ at' = [at EXCEPT ![t] =
                  1 + CHOOSE i \in 1..Len(Hooks[call[t]]) : Hooks[call[t]][i] = "FLUSHED"]
    <3> DEFINE h == Hooks[call[t]]
               j == CHOOSE i \in 1..Len(h) : h[i] = "FLUSHED"
    <3>1. /\ h[at[t]] = "each" /\ at[t] \in 1..Len(h) /\ Len(h) \in Nat
          /\ Loop(call[t], h)
      BY <1>1, Place DEF Doing, IInv, Order
    <3>2. \E i \in 1..Len(h) : h[i] = "FLUSHED"
      BY <3>1 DEF Loop
    <3>3. j \in 1..Len(h) /\ h[j] = "FLUSHED"
      BY <3>2
    <3>4. 1 + j = j + 1
      BY <3>1, <3>3
    <3>5. at' = [at EXCEPT ![t] = j + 1]
      BY <2>1, <3>4
    <3> HIDE DEF j
    <3>6. Moves(t, "each") /\ ~Flushing(t)'
      BY <1>1, <3>3, <3>5, JumpMoves DEF IInv
    <3> QED BY <2>1, <3>6
  <2>2. CASE Advance(t) /\ \E h \in todo[t] : /\ cur' = [cur EXCEPT ![t] = h]
                                              /\ todo' = [todo EXCEPT ![t] = @ \ {h}]
    <3>1. Moves(t, "each") /\ (Looping(t) => Looping(t)')
      BY <1>1, <2>2, StepMoves DEF IInv
    <3> QED BY <2>2, <3>1
  <2> QED BY <2>1, <2>2 DEF Each
<1>4. LockInv'
  <2>1. Switches(t, "each")
    BY <1>1 DEF Switches, Opens, Closes, Locks
  <2> QED BY <1>1, <1>3, <2>1, LocksKept DEF IInv
<1>5. OrderInv' /\ ExecInv'
    BY <1>1, <1>2, <1>3, OrderKept, ExecKept DEF IInv
<1>6. MemoryInv'
    BY <1>1, <1>2, <1>3, MemoryKept DEF IInv, Once
<1>7. /\ cur' \in [Threads -> Handles \union {NoHandle}]
      /\ todo' \in [Threads -> SUBSET Handles]
      /\ \A u \in Threads : u # t => cur'[u] = cur[u] /\ todo'[u] = todo[u]
      /\ \/ todo'[t] = {} /\ cur'[t] = NoHandle /\ ~Flushing(t)'
         \/ /\ todo'[t] \subseteq todo[t] /\ cur'[t] \in todo[t]
            /\ Looping(t) => Looping(t)'
  <2>1. todo \in [Threads -> SUBSET Handles] /\ cur \in [Threads -> Handles \union {NoHandle}]
    BY DEF IInv, TypeOK, TypeThreads
  <2> QED BY <1>3, <2>1
<1>8. LoopInv'
  <2> SUFFICES ASSUME NEW u \in Threads
               PROVE  /\ todo'[u] \subseteq mapped'
                      /\ cur'[u] # NoHandle => cur'[u] \in mapped'
                      /\ todo'[u] # {} \/ cur'[u] # NoHandle => Looping(u)'
                      /\ Flushing(u)' => cur'[u] # NoHandle
    BY DEF LoopInv
  <2>1. CASE u # t
    <3>1. (Looping(u) <=> Looping(u)') /\ (Flushing(u)' <=> Flushing(u))
      BY <1>3, <2>1 DEF Moves
    <3> QED BY <1>2, <1>7, <2>1, <3>1 DEF IInv, LoopInv
  <2>2. CASE u = t
    <3>1. todo[t] \subseteq mapped /\ (todo[t] # {} => Looping(t)) /\ mapped \subseteq Handles
      BY DEF IInv, LoopInv, TypeOK, TypeDriver
    <3> QED BY <1>2, <1>7, <2>2, <3>1, NoOneIsNone
  <2> QED BY <2>1, <2>2
<1>9. TypeThreads'
    BY <1>1, <1>3, <1>7, WalkTypes DEF IInv, TypeOK, TypeThreads
<1>10. TypeDriver' /\ TypeTrace' /\ TableInv'
    BY <1>1, <1>2 DEF IInv, TypeOK, TypeDriver, TypeTrace, TableInv, IsTable
<1> QED BY <1>4, <1>5, <1>6, <1>8, <1>9, <1>10, Whole


-----------------------------------------------------------------------------
(* Packets.                                                                *)

\* The packet that is created has a new index.
LEMMA CreateStep == ASSUME IInv, NEW t \in Threads, Create(t) PROVE IInv'
<1>1. /\ Doing(t, "CREATE") /\ Advance(t) /\ Take(t, "trace")
      /\ packets' = packets + 1 /\ index' = [index EXCEPT ![t] = packets + 1]
      /\ UNCHANGED <<locked, call, calls, mem, cur, todo, found, exec, table, driverVars,
                     written, replayed>>
    BY DEF Create
<1>2. Moves(t, "CREATE")
    BY <1>1, StepMoves DEF IInv
<1>3. UNCHANGED <<memory, ids, mapped, fence, event, execs>>
    BY <1>1 DEF driverVars
<1>4. LockInv'
  <2>1. Switches(t, "CREATE")
    BY <1>1 DEF Switches, Take, Opens, Closes, Locks, IInv, TypeOK, TypeThreads
  <2> QED BY <1>1, <1>2, <2>1, LocksKept DEF IInv
<1>5. ExecInv'
    BY <1>1, <1>2, <1>3, ExecKept DEF IInv
<1>6. MemoryInv'
    BY <1>1, <1>2, <1>3, MemoryKept DEF IInv, Once
<1>7. LoopInv'
    BY <1>1, <1>2, <1>3, LoopKept DEF IInv
<1>8. OrderInv'
  <2>1. packets \in Nat /\ written.index \in Nat /\ written.index <= packets
    BY DEF IInv, TypeOK, TypeTrace, OrderInv
  <2>2. \A u \in Threads : u # t => ~Holds(u, "trace")'
    <3>1. \A u \in Threads : ~Holds(u, "trace")
      BY <1>1, NoOneIsNone DEF Take, IInv, LockInv, Locks
    <3> QED BY <1>2, <3>1 DEF Moves, Locks
  <2>3. index'[t] = packets + 1
    BY <1>1 DEF IInv, TypeOK, TypeThreads
  <2> QED BY <1>1, <2>1, <2>2, <2>3 DEF OrderInv
<1>9. TypeThreads'
  <2>1. lock' \in [Locks -> Threads \union {NoThread}]
    BY <1>1, TakesLock DEF IInv, TypeOK, Locks
  <2>2. index' \in [Threads -> Nat]
    BY <1>1 DEF IInv, TypeOK, TypeThreads, TypeTrace
  <2> QED BY <1>1, <1>2, <2>1, <2>2, WalkTypes DEF IInv, TypeOK, TypeThreads
<1>10. TypeDriver' /\ TypeTrace' /\ TableInv'
    BY <1>1, <1>3 DEF IInv, TypeOK, TypeDriver, TypeTrace, TableInv, IsTable
<1> QED BY <1>4, <1>5, <1>6, <1>7, <1>8, <1>9, <1>10, Whole

\* Who writes a packet has created the last one, and nobody else is making one.
LEMMA Writes ==
    ASSUME IInv, NEW t \in Threads, NEW s \in {"FINISH", "FLUSHED"}, Doing(t, s), Moves(t, s)
    PROVE  /\ Holds(t, "trace") /\ index[t] = packets /\ written.index < packets
           /\ \A u \in Threads : ~Holds(u, "trace")'
<1>1. Holds(t, "trace")
    BY Place DEF IInv, Doing, Locking, Locks, Closes, Holds
<1>2. index[t] = packets /\ written.index < packets
    BY <1>1 DEF IInv, OrderInv
<1>3. \A u \in Threads : u # t => ~Holds(u, "trace")
    BY <1>1, Exclusive DEF IInv, Locks
<1>4. ~Holds(t, "trace")'
    BY DEF Moves, Locks, Opens, Closes
<1> QED BY <1>1, <1>2, <1>3, <1>4 DEF Moves, Locks

\* The packet of a flush, or none when nothing was dirty.
LEMMA FlushedStep == ASSUME IInv, NEW t \in Threads, Flushed(t) PROVE IInv'
<1>1. /\ Doing(t, "FLUSHED") /\ GiveBack("trace")
      /\ written' = written \/ written' = [written EXCEPT !.index = index[t]]
      /\ index' = [index EXCEPT ![t] = 0]
      /\ UNCHANGED <<locked, call, calls, mem, cur, todo, found, exec, table, driverVars,
                     packets, replayed>>
    BY DEF Flushed
<1>2. Moves(t, "FLUSHED") /\ ~Flushing(t)'
  <2> DEFINE h == Hooks[call[t]]
             k == CHOOSE i \in 1..at[t] : h[i] = "each"
  <2>1. h[at[t]] = "FLUSHED" /\ at[t] \in 1..Len(h) /\ Loop(call[t], h)
    BY <1>1, Place DEF Doing, IInv
  <2>2. \E i \in 1..at[t] : h[i] = "each"
    BY <2>1 DEF Loop
  <2>3. k \in 1..at[t] /\ h[k] = "each"
    BY <2>2
  <2>4. at' = [at EXCEPT ![t] = k]
    BY DEF Flushed
  <2> HIDE DEF k
  <2> QED BY <1>1, <2>3, <2>4, JumpMoves DEF IInv
<1>3. UNCHANGED <<memory, ids, mapped, fence, event, execs>>
    BY <1>1 DEF driverVars
<1>4. LockInv'
  <2>1. Switches(t, "FLUSHED")
    BY <1>1 DEF Switches, GiveBack, Opens, Closes, Locks, IInv, TypeOK, TypeThreads
  <2> QED BY <1>1, <1>2, <2>1, LocksKept DEF IInv
<1>5. /\ written' \in [index : Nat, exec : Nat] /\ written'.exec = written.exec
      /\ written'.index <= packets
  <2>1. index[t] = packets /\ written.index <= packets /\ packets \in Nat
        /\ written \in [index : Nat, exec : Nat]
    BY <1>1, <1>2, Writes DEF IInv, OrderInv, TypeOK, TypeTrace
  <2> QED BY <1>1, <2>1
<1>6. OrderInv'
    BY <1>1, <1>2, <1>5, Writes DEF OrderInv
<1>7. ExecInv'
    BY <1>1, <1>2, <1>3, <1>5, ExecKept DEF IInv
<1>8. MemoryInv'
    BY <1>1, <1>2, <1>3, MemoryKept DEF IInv, Once
<1>9. LoopInv'
  <2> SUFFICES ASSUME NEW u \in Threads
               PROVE  /\ todo'[u] \subseteq mapped'
                      /\ cur'[u] # NoHandle => cur'[u] \in mapped'
                      /\ todo'[u] # {} \/ cur'[u] # NoHandle => Looping(u)'
                      /\ Flushing(u)' => cur'[u] # NoHandle
    BY DEF LoopInv
  <2>1. (Looping(u) => Looping(u)') /\ (Flushing(u)' => Flushing(u))
    BY <1>2 DEF Moves
  <2> QED BY <1>1, <1>3, <2>1 DEF IInv, LoopInv
<1>10. TypeThreads'
  <2>1. lock' \in [Locks -> Threads \union {NoThread}]
    BY <1>1, TakesLock DEF IInv, TypeOK, Locks
  <2>2. index' \in [Threads -> Nat]
    BY <1>1 DEF IInv, TypeOK, TypeThreads
  <2> QED BY <1>1, <1>2, <2>1, <2>2, WalkTypes DEF IInv, TypeOK, TypeThreads
<1>11. TypeDriver' /\ TypeTrace' /\ TableInv'
    BY <1>1, <1>3, <1>5 DEF IInv, TypeOK, TypeDriver, TypeTrace, TableInv, IsTable
<1> QED BY <1>4, <1>6, <1>7, <1>8, <1>9, <1>10, <1>11, Whole

\* What a thread has done when it writes the packet of its call.
LEMMA Finishing ==
    ASSUME IInv, NEW t \in Threads, Doing(t, "FINISH"), Moves(t, "FINISH")
    PROVE  /\ call[t] \in Name /\ UNCHANGED call
           /\ Did(t, "driver") /\ ~Did(t, "FINISH")
           /\ call[t] = "vkMapMemory" => Did(t, "remember")
           /\ call[t] \in {"vkUnmapMemory", "vkFreeMemory"} => Did(t, "forget")
           /\ \A u \in Threads, x \in Once \ {"FINISH"} : Did(u, x)' <=> Did(u, x)
           /\ \A u \in Threads : Did(u, "FINISH")' <=> u = t \/ Did(u, "FINISH")
           /\ \A u \in Threads, x \in Once : Pending(u, x)' <=> u # t /\ Pending(u, x)
           /\ \A u \in Threads : u # t /\ mem[u] = mem[t] /\ mem[t] \in Handles
                => Did(u, "FINISH") /\ call[u] = "vkFreeMemory" /\ call[t] = "vkAllocateMemory"
<1>1. /\ call[t] # "none" /\ call[t] \in Name /\ at[t] \in 1..Len(Hooks[call[t]])
      /\ Hooks[call[t]][at[t]] = "FINISH" /\ Order(call[t], Hooks[call[t]])
    BY Place DEF IInv, Doing
<1>2. /\ Did(t, "driver") /\ ~Did(t, "FINISH")
      /\ call[t] = "vkMapMemory" => Did(t, "remember")
      /\ call[t] \in {"vkUnmapMemory", "vkFreeMemory"} => Did(t, "forget")
    BY <1>1 DEF Order, Did, Once
<1>3. /\ UNCHANGED call
      /\ \A u \in Threads, x \in Once \ {"FINISH"} : Did(u, x)' <=> Did(u, x)
      /\ \A u \in Threads : Did(u, "FINISH")' <=> u = t \/ Did(u, "FINISH")
    BY DEF Moves, Once
<1>4. \A u \in Threads, x \in Once : Pending(u, x)' <=> u # t /\ Pending(u, x)
    BY <1>3 DEF Pending, Once
<1>5. \A u \in Threads : u # t /\ mem[u] = mem[t] /\ mem[t] \in Handles
        => Did(u, "FINISH") /\ call[u] = "vkFreeMemory" /\ call[t] = "vkAllocateMemory"
    BY <1>2 DEF IInv, MemoryInv, OwnInv, Reuses
<1> QED BY <1>1, <1>2, <1>3, <1>4, <1>5


\* What a packet changes on replay: the one handle that its call names.
LEMMA Replays ==
    ASSUME IInv, NEW t \in Threads, Finish(t)
    PROVE  /\ replayed' \in [Handles -> [id : Nat, mapped : BOOLEAN]]
           /\ \A h \in Handles : h # mem[t] => replayed'[h] = replayed[h]
           /\ mem[t] \in Handles =>
                /\ replayed'[mem[t]].id =
                     IF call[t] = "vkAllocateMemory" THEN memory[mem[t]]
                     ELSE IF call[t] = "vkFreeMemory" THEN 0
                     ELSE replayed[mem[t]].id
                /\ replayed'[mem[t]].mapped =
                     IF call[t] = "vkMapMemory" THEN TRUE
                     ELSE IF call[t] \in {"vkUnmapMemory", "vkFreeMemory"} THEN FALSE
                     ELSE replayed[mem[t]].mapped
<1>1. /\ replayed \in [Handles -> [id : Nat, mapped : BOOLEAN]]
      /\ memory \in [Handles -> Nat] /\ mem[t] \in Handles \union {NoHandle}
    BY DEF IInv, TypeOK, TypeTrace, TypeDriver, TypeThreads
<1>2. CASE call[t] = "vkAllocateMemory"
  <2>1. replayed' = [replayed EXCEPT ![mem[t]].id = memory[mem[t]]]
    BY <1>2 DEF Finish
  <2> QED BY <1>1, <1>2, <2>1, NoOneIsNone
<1>3. CASE call[t] = "vkFreeMemory"
  <2>1. replayed' = [replayed EXCEPT ![mem[t]] = [id |-> 0, mapped |-> FALSE]]
    BY <1>3 DEF Finish
  <2> QED BY <1>1, <1>3, <2>1, NoOneIsNone
<1>4. CASE call[t] = "vkMapMemory"
  <2>1. replayed' = [replayed EXCEPT ![mem[t]].mapped = TRUE]
    BY <1>4 DEF Finish
  <2> QED BY <1>1, <1>4, <2>1, NoOneIsNone
<1>5. CASE call[t] = "vkUnmapMemory"
  <2>1. replayed' = [replayed EXCEPT ![mem[t]].mapped = FALSE]
    BY <1>5 DEF Finish
  <2> QED BY <1>1, <1>5, <2>1, NoOneIsNone
<1>6. CASE call[t] \notin {"vkAllocateMemory", "vkFreeMemory", "vkMapMemory", "vkUnmapMemory"}
  <2>1. replayed' = replayed
    BY <1>6 DEF Finish
  <2> QED BY <1>1, <1>6, <2>1
<1> QED BY <1>2, <1>3, <1>4, <1>5, <1>6

\* With the packet the trace agrees about the handle of its call.
LEMMA FinishMemory ==
    ASSUME IInv, NEW t \in Threads, Finish(t), Doing(t, "FINISH"), Moves(t, "FINISH"),
           UNCHANGED <<mem, memory, mapped>>
    PROVE  MemoryInv'
<1>1. /\ UNCHANGED call /\ Did(t, "driver") /\ ~Did(t, "FINISH")
      /\ call[t] = "vkMapMemory" => Did(t, "remember")
      /\ call[t] \in {"vkUnmapMemory", "vkFreeMemory"} => Did(t, "forget")
    BY Finishing
<1>2. /\ \A u \in Threads, x \in Once \ {"FINISH"} : Did(u, x)' <=> Did(u, x)
      /\ \A u \in Threads : Did(u, "FINISH")' <=> u = t \/ Did(u, "FINISH")
      /\ \A u \in Threads, x \in Once : Pending(u, x)' <=> u # t /\ Pending(u, x)
    BY Finishing
<1>3. \A u \in Threads : u # t /\ mem[u] = mem[t] /\ mem[t] \in Handles => Did(u, "FINISH")
    BY Finishing
<1>4. CallInv'
    BY <1>1, <1>2 DEF IInv, MemoryInv, CallInv, Once
<1>5. OwnInv'
  <2>1. \A u, v \in Threads : Reuses(u, v) => Reuses(u, v)'
    BY <1>1, <1>2 DEF Reuses
  <2> QED BY <2>1 DEF IInv, MemoryInv, OwnInv
<1>6. MappedInv'
    BY <1>1, <1>2 DEF IInv, MemoryInv, MappedInv, Once
<1>7. ReplayedInv'
  <2>1. ASSUME NEW h \in Handles
        PROVE  \/ replayed'[h].id = memory[h]
               \/ \E u \in Threads : mem[u] = h /\ Remakes(u)'
    <3>1. CASE h = mem[t] /\ call[t] = "vkAllocateMemory"
      BY <3>1, Replays
    <3>2. CASE h = mem[t] /\ call[t] = "vkFreeMemory"
      <4>1. memory[h] = 0
        BY <1>1, <3>2 DEF IInv, MemoryInv, CallInv, Pending
      <4> QED BY <3>2, <4>1, Replays
    <3>3. CASE ~(h = mem[t] /\ call[t] \in {"vkAllocateMemory", "vkFreeMemory"})
      <4>1. replayed'[h].id = replayed[h].id
        BY <3>3, Replays
      <4>2. ASSUME NEW u \in Threads, mem[u] = h, Remakes(u) PROVE Remakes(u)'
        <5>1. u # t
          BY <3>3, <4>2 DEF Remakes
        <5> QED BY <1>1, <1>2, <4>2, <5>1 DEF Remakes, Once
      <4>3. replayed[h].id = memory[h] \/ \E u \in Threads : mem[u] = h /\ Remakes(u)
        BY DEF IInv, MemoryInv, ReplayedInv
      <4> QED BY <4>1, <4>2, <4>3
    <3> QED BY <3>1, <3>2, <3>3
  <2>2. ASSUME NEW h \in Handles
        PROVE  \/ replayed'[h].mapped <=> h \in mapped
               \/ \E u \in Threads : mem[u] = h /\ Remaps(u)'
    <3>1. CASE h = mem[t] /\ call[t] = "vkMapMemory"
      <4>1. h \in mapped
        BY <1>1, <3>1 DEF IInv, MemoryInv, MappedInv
      <4> QED BY <3>1, <4>1, Replays
    <3>2. CASE h = mem[t] /\ call[t] \in {"vkUnmapMemory", "vkFreeMemory"}
      <4>1. h \notin mapped
        BY <1>1, <3>2 DEF IInv, MemoryInv, MappedInv, Pending
      <4> QED BY <3>2, <4>1, Replays
    <3>3. CASE ~(h = mem[t] /\ call[t] \in {"vkMapMemory", "vkUnmapMemory", "vkFreeMemory"})
      <4>1. replayed'[h].mapped <=> replayed[h].mapped
        BY <3>3, Replays
      <4>2. ASSUME NEW u \in Threads, mem[u] = h, Remaps(u) PROVE Remaps(u)'
        <5>1. u # t
          BY <3>3, <4>2 DEF Remaps
        <5> QED BY <1>1, <1>2, <4>2, <5>1 DEF Remaps, Once
      <4>3. \/ replayed[h].mapped <=> h \in mapped
            \/ \E u \in Threads : mem[u] = h /\ Remaps(u)
        BY DEF IInv, MemoryInv, ReplayedInv
      <4> QED BY <4>1, <4>2, <4>3
    <3> QED BY <3>1, <3>2, <3>3
  <2>3. ASSUME NEW u \in Threads, ~Did(u, "FINISH")'
        PROVE  /\ call[u] = "vkAllocateMemory" /\ Did(u, "driver")
                    => replayed'[mem[u]].id = 0 /\ ~replayed'[mem[u]].mapped
               /\ call[u] = "vkMapMemory" => ~replayed'[mem[u]].mapped
               /\ call[u] \in OnMapped => replayed'[mem[u]].mapped
               /\ call[u] = "vkFreeMemory" => replayed'[mem[u]].id # 0
    <3>1. u # t /\ ~Did(u, "FINISH")
      BY <1>2, <2>3
    <3>2. mem[u] \in Handles => replayed'[mem[u]] = replayed[mem[u]]
      BY <1>3, <3>1, Replays
    <3>3. (call[u] = "vkAllocateMemory" /\ Did(u, "driver")) \/ call[u] \in OnHandle
            => mem[u] \in Handles
      BY DEF IInv, MemoryInv, CallInv
    <3> QED BY <3>1, <3>2, <3>3 DEF IInv, MemoryInv, ReplayedInv, OnHandle
  <2> QED BY <1>1, <1>2, <2>1, <2>2, <2>3 DEF ReplayedInv, Once
<1> QED BY <1>4, <1>5, <1>6, <1>7 DEF MemoryInv

\* Under TraceLock nobody else has done a driver call that the trace lacks.
LEMMA FinishStep == ASSUME IInv, NEW t \in Threads, Finish(t) PROVE IInv'
<1>1. /\ Doing(t, "FINISH") /\ Advance(t) /\ GiveBack("trace")
      /\ written' = [index |-> index[t], exec |-> exec[t]]
      /\ index' = [index EXCEPT ![t] = 0]
      /\ UNCHANGED <<locked, call, calls, mem, cur, todo, found, exec, table, driverVars,
                     packets>>
    BY DEF Finish
<1>2. Moves(t, "FINISH")
    BY <1>1, StepMoves DEF IInv
<1>3. UNCHANGED <<memory, ids, mapped, fence, event, execs>>
    BY <1>1 DEF driverVars
<1>4. LockInv'
  <2>1. Switches(t, "FINISH")
    BY <1>1 DEF Switches, GiveBack, Opens, Closes, Locks, IInv, TypeOK, TypeThreads
  <2> QED BY <1>1, <1>2, <2>1, LocksKept DEF IInv
<1>5. OrderInv'
  <2>1. index[t] = packets /\ \A u \in Threads : ~Holds(u, "trace")'
    BY <1>1, <1>2, Writes
  <2> QED BY <1>1, <2>1 DEF OrderInv, IInv, TypeOK, TypeTrace
<1>6. ExecInv'
  <2>1. written'.exec = exec[t] /\ exec' = exec /\ execs' = execs /\ locked' = locked
    BY <1>1, <1>3
  <2>2. \A u \in Threads : exec[u] <= execs
    BY DEF IInv, ExecInv
  <2>3. ASSUME locked, NEW u \in Threads, Pending(u, "driver")' PROVE FALSE
    <3>1. u # t /\ Pending(u, "driver") /\ Pending(t, "driver")
      BY <1>1, <1>2, <2>3, Finishing DEF Pending, Once
    <3>2. ASSUME NEW v \in Threads, Pending(v, "driver") PROVE Holds(v, "api")
      <4>1. call[v] # "none"
        BY <3>2 DEF Pending, Did
      <4> QED BY <3>2, <4>1, Place DEF IInv, Pending, Did, Locking, Holds
    <3> QED BY <2>3, <3>1, <3>2, Exclusive DEF IInv, Locks
  <2> QED BY <2>1, <2>2, <2>3 DEF ExecInv
<1>7. MemoryInv'
    BY <1>1, <1>2, <1>3, FinishMemory
<1>8. LoopInv'
    BY <1>1, <1>2, <1>3, LoopKept DEF IInv
<1>9. TypeThreads'
  <2>1. lock' \in [Locks -> Threads \union {NoThread}]
    BY <1>1, TakesLock DEF IInv, TypeOK, Locks
  <2>2. index' \in [Threads -> Nat]
    BY <1>1 DEF IInv, TypeOK, TypeThreads
  <2> QED BY <1>1, <1>2, <2>1, <2>2, WalkTypes DEF IInv, TypeOK, TypeThreads
<1>10. TypeTrace'
  <2>1. written' \in [index : Nat, exec : Nat]
    BY <1>1 DEF IInv, TypeOK, TypeThreads
  <2> QED BY <1>1, <2>1, Replays DEF IInv, TypeOK, TypeTrace
<1>11. TypeDriver' /\ TableInv'
    BY <1>1, <1>3 DEF IInv, TypeOK, TypeDriver, TableInv, IsTable
<1> QED BY <1>4, <1>5, <1>6, <1>7, <1>8, <1>9, <1>10, <1>11, Whole


-----------------------------------------------------------------------------
(* The page guard and the driver.                                          *)

\* What the page guard learns of a mapping before the trace does.
LEMMA RememberMemory ==
    ASSUME IInv, NEW t \in Threads, NEW s \in {"remember", "forget"}, Moves(t, s),
           ~Did(t, s), ~Did(t, "FINISH"),
           IF s = "remember" THEN call[t] = "vkMapMemory" /\ mapped' = mapped \union {mem[t]}
           ELSE call[t] \in {"vkUnmapMemory", "vkFreeMemory"} /\ mapped' = mapped \ {mem[t]},
           s = "forget" => ~Did(t, "driver"),
           UNCHANGED <<mem, memory, replayed>>
    PROVE  MemoryInv'
<1>1. /\ mem[t] \in Handles /\ memory[mem[t]] # 0
      /\ \A u \in Threads : u # t => mem[u] # mem[t]
  <2>1. call[t] \in OnHandle /\ call[t] # "vkAllocateMemory"
    BY DEF OnHandle, OnMapped
  <2>2. mem[t] \in Handles /\ memory[mem[t]] # 0
    BY <2>1 DEF IInv, MemoryInv, CallInv
  <2> QED BY <2>1, <2>2 DEF IInv, MemoryInv, OwnInv, Reuses
<1>2. /\ UNCHANGED call
      /\ \A u \in Threads, x \in Once : Did(u, x)' <=> (u = t /\ x = s) \/ Did(u, x)
    BY DEF Moves
<1>3. /\ \A u \in Threads, x \in Once : u # t \/ x # s => (Pending(u, x)' <=> Pending(u, x))
      /\ \A u \in Threads : Did(u, "FINISH")' <=> Did(u, "FINISH")
      /\ \A u \in Threads : Did(u, "driver")' <=> Did(u, "driver")
    BY <1>2 DEF Pending, Once
<1>4. /\ \A u \in Threads : Remakes(u)' <=> Remakes(u)
      /\ \A u \in Threads : u # t => (Remaps(u)' <=> Remaps(u))
    BY <1>2, <1>3 DEF Remakes, Remaps, Once
<1>5. Remaps(t)'
    BY <1>2, <1>3 DEF Remaps, Pending, Once
<1>6. CallInv'
  <2>1. \A u \in Threads : Pending(u, "driver")' <=> Pending(u, "driver")
    BY <1>3 DEF Once
  <2> QED BY <1>2, <1>3, <2>1 DEF IInv, MemoryInv, CallInv
<1>7. OwnInv'
    BY <1>2, <1>3 DEF IInv, MemoryInv, OwnInv, Reuses
<1>8. MappedInv'
  <2>1. \A h \in mapped' : memory[h] # 0
    BY <1>1 DEF IInv, MemoryInv, MappedInv
  <2>2. \A u \in Threads : u # t => (mem[u] \in mapped' <=> mem[u] \in mapped)
    BY <1>1
  <2>3. mem[t] \in mapped' <=> s = "remember"
    OBVIOUS
  <2>4. ASSUME NEW u \in Threads
        PROVE  /\ call[u] = "vkMapMemory" => (mem[u] \in mapped' <=> Did(u, "remember")')
               /\ call[u] = "vkUnmapMemory" => (mem[u] \in mapped' <=> ~Did(u, "forget")')
               /\ call[u] \in OnMapped \ {"vkUnmapMemory"} => mem[u] \in mapped'
               /\ call[u] = "vkFreeMemory" /\ Pending(u, "forget")' => mem[u] \notin mapped'
    <3>1. CASE u # t
      <4>1. /\ Did(u, "remember")' <=> Did(u, "remember")
            /\ Did(u, "forget")' <=> Did(u, "forget")
            /\ Pending(u, "forget")' <=> Pending(u, "forget")
        BY <1>2, <1>3, <3>1 DEF Once
      <4> QED BY <2>2, <3>1, <4>1 DEF IInv, MemoryInv, MappedInv
    <3>2. CASE u = t
      <4>1. /\ s = "remember" => Did(t, "remember")'
            /\ s = "forget" => Did(t, "forget")'
        BY <1>2 DEF Once
      <4> QED BY <2>3, <3>2, <4>1 DEF OnMapped
    <3> QED BY <3>1, <3>2
  <2> QED BY <1>2, <2>1, <2>4 DEF MappedInv
<1>9. ReplayedInv'
  <2>1. ASSUME NEW h \in Handles
        PROVE  replayed[h].id = memory[h] \/ \E u \in Threads : mem[u] = h /\ Remakes(u)'
    BY <1>4 DEF IInv, MemoryInv, ReplayedInv
  <2>2. ASSUME NEW h \in Handles
        PROVE  \/ replayed[h].mapped <=> h \in mapped'
               \/ \E u \in Threads : mem[u] = h /\ Remaps(u)'
    <3>1. CASE h = mem[t]
      BY <1>5, <3>1
    <3>2. CASE h # mem[t]
      <4>1. h \in mapped' <=> h \in mapped
        BY <3>2
      <4>2. \/ replayed[h].mapped <=> h \in mapped
            \/ \E u \in Threads : mem[u] = h /\ Remaps(u)
        BY DEF IInv, MemoryInv, ReplayedInv
      <4> QED BY <1>4, <3>2, <4>1, <4>2
    <3> QED BY <3>1, <3>2
  <2> QED BY <1>2, <1>3, <2>1, <2>2 DEF IInv, MemoryInv, ReplayedInv
<1> QED BY <1>6, <1>7, <1>8, <1>9 DEF MemoryInv

\* No other thread is to flush memory that is forgotten: it would hold the
\* lock of the page guard.
LEMMA RememberStep == ASSUME IInv, NEW t \in Threads, Remember(t) PROVE IInv'
<1>1. PICK s \in {"remember", "forget"} :
        /\ Doing(t, s)
        /\ mapped' = IF s = "remember" THEN mapped \union {mem[t]} ELSE mapped \ {mem[t]}
    BY DEF Remember
<1>2. /\ Advance(t)
      /\ UNCHANGED <<locked, lock, call, calls, mem, cur, todo, found, index, exec, table,
                     memory, ids, fence, event, execs, packets, written, replayed>>
    BY DEF Remember, traceVars
<1>3. Moves(t, s)
    BY <1>1, <1>2, StepMoves DEF IInv
<1>4. /\ call[t] # "none" /\ at[t] \in 1..Len(Hooks[call[t]]) /\ Hooks[call[t]][at[t]] = s
      /\ Order(call[t], Hooks[call[t]]) /\ Locking(call[t], Hooks[call[t]])
      /\ Loop(call[t], Hooks[call[t]])
    BY <1>1, Place DEF IInv, Doing
<1>5. /\ ~Did(t, s) /\ ~Did(t, "FINISH")
      /\ s = "remember" => call[t] = "vkMapMemory"
      /\ s = "forget" => call[t] \in {"vkUnmapMemory", "vkFreeMemory"} /\ ~Did(t, "driver")
    BY <1>4 DEF Order, Did, Once
<1>6. s = "forget" => Holds(t, "map") /\ ~Looping(t)
    BY <1>4 DEF Locking, Loop, Holds, Looping
<1>7. LockInv'
  <2>1. Switches(t, s)
    BY <1>2 DEF Switches, Opens, Closes, Locks
  <2> QED BY <1>1, <1>2, <1>3, <2>1, LocksKept DEF IInv
<1>8. OrderInv' /\ ExecInv'
    BY <1>2, <1>3, OrderKept, ExecKept DEF IInv
<1>9. MemoryInv'
    BY <1>1, <1>2, <1>3, <1>5, RememberMemory
<1>10. LoopInv'
  <2> SUFFICES ASSUME NEW u \in Threads
               PROVE  /\ todo[u] \subseteq mapped'
                      /\ cur[u] # NoHandle => cur[u] \in mapped'
                      /\ todo[u] # {} \/ cur[u] # NoHandle => Looping(u)'
                      /\ Flushing(u)' => cur[u] # NoHandle
    BY <1>2 DEF LoopInv
  <2>1. (Looping(u) => Looping(u)') /\ (Flushing(u)' => Flushing(u))
    BY <1>3 DEF Moves
  <2>2. todo[u] \subseteq mapped /\ (cur[u] # NoHandle => cur[u] \in mapped)
    BY DEF IInv, LoopInv
  <2>3. CASE s = "remember"
    BY <1>1, <2>1, <2>2, <2>3 DEF IInv, LoopInv
  <2>4. CASE s = "forget"
    <3>1. ~Looping(u)
      <4> SUFFICES ASSUME Looping(u) PROVE FALSE
        OBVIOUS
      <4>1. Holds(u, "map")
        BY Place DEF IInv, Looping, Loop, Holds
      <4> QED BY <1>6, <2>4, <4>1, Exclusive DEF IInv, Locks
    <3>2. todo[u] = {} /\ cur[u] = NoHandle
      BY <3>1 DEF IInv, LoopInv
    <3>3. ~Flushing(u)
      BY <3>2 DEF IInv, LoopInv
    <3> QED BY <2>1, <3>2, <3>3
  <2> QED BY <2>3, <2>4
<1>11. TypeThreads'
    BY <1>2, <1>3, WalkTypes DEF IInv, TypeOK, TypeThreads
<1>12. TypeDriver'
  <2>1. mem[t] \in Handles
    BY <1>5 DEF IInv, MemoryInv, CallInv, OnHandle, OnMapped
  <2> QED BY <1>1, <1>2, <2>1 DEF IInv, TypeOK, TypeDriver
<1>13. TypeTrace' /\ TableInv'
    BY <1>2 DEF IInv, TypeOK, TypeTrace, TableInv, IsTable
<1> QED BY <1>7, <1>8, <1>9, <1>10, <1>11, <1>12, <1>13, Whole

\* Who calls the driver has not done it before, has still to tell the trace, and
\* is alone in it when it makes or frees memory.
LEMMA AtDriver ==
    ASSUME IInv, NEW t \in Threads, Doing(t, "driver"), Moves(t, "driver")
    PROVE  /\ UNCHANGED call /\ ~Did(t, "driver") /\ ~Did(t, "FINISH")
           /\ call[t] = "vkFreeMemory" => Did(t, "forget")
           /\ \A u \in Threads, x \in Once :
                Did(u, x)' <=> (u = t /\ x = "driver") \/ Did(u, x)
           /\ \A u \in Threads, x \in Once :
                u # t \/ x # "driver" => (Pending(u, x)' <=> Pending(u, x))
           /\ Pending(t, "driver")'
           /\ \A u \in Threads : Remaps(u)' <=> Remaps(u)
           /\ \A u \in Threads : u # t => (Remakes(u)' <=> Remakes(u))
           /\ call[t] \in {"vkAllocateMemory", "vkFreeMemory"}
                => \A u \in Threads : ~Remakes(u)
<1>1. /\ call[t] # "none" /\ at[t] \in 1..Len(Hooks[call[t]])
      /\ Hooks[call[t]][at[t]] = "driver"
      /\ Order(call[t], Hooks[call[t]]) /\ Locking(call[t], Hooks[call[t]])
    BY Place DEF IInv, Doing
<1>2. /\ ~Did(t, "driver") /\ ~Did(t, "FINISH")
      /\ call[t] = "vkFreeMemory" => Did(t, "forget")
    BY <1>1 DEF Order, Did, Once
<1>3. /\ UNCHANGED call
      /\ \A u \in Threads, x \in Once : Did(u, x)' <=> (u = t /\ x = "driver") \/ Did(u, x)
    BY DEF Moves
<1>4. /\ \A u \in Threads, x \in Once :
           u # t \/ x # "driver" => (Pending(u, x)' <=> Pending(u, x))
      /\ Pending(t, "driver")'
    BY <1>2, <1>3 DEF Pending, Once
<1>5. /\ \A u \in Threads : Remaps(u)' <=> Remaps(u)
      /\ \A u \in Threads : u # t => (Remakes(u)' <=> Remakes(u))
    BY <1>3, <1>4 DEF Remaps, Remakes, Once
<1>6. ASSUME call[t] \in {"vkAllocateMemory", "vkFreeMemory"}, NEW u \in Threads, Remakes(u)
      PROVE  FALSE
  <2>1. Holds(t, "trace")
    BY <1>1, <1>6 DEF Locking, Holds
  <2>2. Holds(u, "trace")
    <3>1. call[u] # "none" /\ Did(u, "driver") /\ ~Did(u, "FINISH")
      BY <1>6 DEF Remakes, Pending
    <3>2. Locking(call[u], Hooks[call[u]]) /\ at[u] \in 1..Len(Hooks[call[u]])
      BY <3>1, Place DEF IInv
    <3> QED BY <1>6, <3>1, <3>2 DEF Remakes, Did, Locking, Holds
  <2>3. t = u
    BY <2>1, <2>2, Exclusive DEF IInv, Locks
  <2> QED BY <1>2, <1>6, <2>3 DEF Remakes, Pending
<1> QED BY <1>2, <1>3, <1>4, <1>5, <1>6

\* New memory: a handle that nobody names any more, except calls whose packets
\* say that it is free.
LEMMA DriverAllocates ==
    ASSUME IInv, NEW t \in Threads, Doing(t, "driver"), Moves(t, "driver"),
           call[t] = "vkAllocateMemory", NEW h \in Handles, memory[h] = 0,
           memory' = [memory EXCEPT ![h] = ids + 1], mem' = [mem EXCEPT ![t] = h],
           UNCHANGED <<mapped, replayed>>
    PROVE  MemoryInv'
<1>1. /\ memory \in [Handles -> Nat] /\ ids \in Nat
      /\ mem \in [Threads -> Handles \union {NoHandle}]
    BY DEF IInv, TypeOK, TypeDriver, TypeThreads
<1>2. /\ memory'[h] # 0 /\ \A g \in Handles : g # h => memory'[g] = memory[g]
      /\ mem'[t] = h /\ \A u \in Threads : u # t => mem'[u] = mem[u]
    BY <1>1
<1>3. /\ UNCHANGED call /\ ~Did(t, "driver") /\ ~Did(t, "FINISH") /\ mem[t] = NoHandle
      /\ \A u \in Threads, x \in Once : Did(u, x)' <=> (u = t /\ x = "driver") \/ Did(u, x)
      /\ \A u \in Threads, x \in Once :
           u # t \/ x # "driver" => (Pending(u, x)' <=> Pending(u, x))
      /\ \A u \in Threads : (Remaps(u)' <=> Remaps(u)) /\ ~Remakes(u)
      /\ Remakes(t)'
    BY AtDriver DEF IInv, MemoryInv, CallInv, Remakes
<1>4. \A u \in Threads : u # t /\ mem[u] = h => call[u] = "vkFreeMemory" /\ Did(u, "FINISH")
  <2> SUFFICES ASSUME NEW u \in Threads, mem[u] = h
               PROVE  call[u] = "vkFreeMemory" /\ Did(u, "FINISH")
    OBVIOUS
  <2>1. call[u] = "vkFreeMemory" /\ Did(u, "driver")
    BY NoOneIsNone DEF IInv, MemoryInv, CallInv
  <2> QED BY <1>3, <2>1 DEF Remakes, Pending
<1>5. replayed[h].id = 0 /\ ~replayed[h].mapped
  <2>1. replayed[h].id = memory[h]
    BY <1>3 DEF IInv, MemoryInv, ReplayedInv
  <2>2. h \notin mapped
    BY DEF IInv, MemoryInv, MappedInv
  <2>3. ASSUME NEW u \in Threads, mem[u] = h PROVE ~Remaps(u)
    BY <1>3, <1>4, <2>3, NoOneIsNone DEF Remaps, Pending
  <2> QED BY <2>1, <2>2, <2>3 DEF IInv, MemoryInv, ReplayedInv
<1>6. CallInv'
  <2> SUFFICES ASSUME NEW u \in Threads
               PROVE  /\ call[u] \in OnHandle => mem'[u] \in Handles
                      /\ call[u] \in OnHandle /\ ~(call[u] = "vkFreeMemory" /\ Did(u, "driver")')
                           => memory'[mem'[u]] # 0
                      /\ call[u] = "vkFreeMemory" /\ Pending(u, "driver")' => memory'[mem'[u]] = 0
                      /\ call[u] = "vkAllocateMemory" /\ ~Did(u, "driver")' => mem'[u] = NoHandle
                      /\ call[u] = "vkAllocateMemory" /\ Did(u, "driver")'
                           => mem'[u] \in Handles /\ memory'[mem'[u]] # 0
                      /\ call[u] \notin OnHandle \union {"vkAllocateMemory"} => mem'[u] = NoHandle
    BY <1>3 DEF CallInv
  <2>1. CASE u = t
    BY <1>2, <1>3, <2>1 DEF OnHandle, OnMapped, Once
  <2>2. CASE u # t
    <3>1. /\ mem'[u] = mem[u] /\ (Did(u, "driver")' <=> Did(u, "driver"))
          /\ (Pending(u, "driver")' <=> Pending(u, "driver"))
          /\ \A g \in Handles : memory[g] # 0 => memory'[g] # 0
      BY <1>2, <1>3, <2>2 DEF Once
    <3>2. ~(call[u] = "vkFreeMemory" /\ Pending(u, "driver"))
      BY <1>3 DEF Remakes
    <3> QED BY <3>1, <3>2 DEF IInv, MemoryInv, CallInv
  <2> QED BY <2>1, <2>2
<1>7. OwnInv'
  <2>1. \A u, v \in Threads : Reuses(u, v) => Reuses(u, v)'
    BY <1>3 DEF Reuses, Once
  <2>2. \A u \in Threads : u # t /\ mem[u] = h => Reuses(u, t)'
    BY <1>3, <1>4 DEF Reuses, Once
  <2> QED BY <1>2, <2>1, <2>2 DEF IInv, MemoryInv, OwnInv
<1>8. MappedInv'
  <2>1. \A g \in mapped : memory'[g] # 0
    <3>1. mapped \subseteq Handles
      BY DEF IInv, TypeOK, TypeDriver
    <3> QED BY <1>2, <3>1 DEF IInv, MemoryInv, MappedInv
  <2>2. /\ \A u \in Threads : Pending(u, "forget")' <=> Pending(u, "forget")
        /\ \A u \in Threads : Did(u, "forget")' <=> Did(u, "forget")
        /\ \A u \in Threads : Did(u, "remember")' <=> Did(u, "remember")
    BY <1>3 DEF Once
  <2>3. call[t] \notin OnMapped
    BY DEF OnMapped
  <2> QED BY <1>2, <1>3, <2>1, <2>2, <2>3 DEF IInv, MemoryInv, MappedInv
<1>9. ReplayedInv'
  <2>1. ASSUME NEW g \in Handles
        PROVE  replayed[g].id = memory'[g] \/ \E u \in Threads : mem'[u] = g /\ Remakes(u)'
    <3>1. CASE g = h
      BY <1>2, <1>3, <3>1
    <3>2. CASE g # h
      <4>1. replayed[g].id = memory[g]
        BY <1>3 DEF IInv, MemoryInv, ReplayedInv
      <4> QED BY <1>2, <3>2, <4>1
    <3> QED BY <3>1, <3>2
  <2>2. ASSUME NEW g \in Handles
        PROVE  \/ replayed[g].mapped <=> g \in mapped
               \/ \E u \in Threads : mem'[u] = g /\ Remaps(u)'
    <3>1. \A u \in Threads : Remaps(u) => u # t
      BY DEF Remaps
    <3> QED BY <1>2, <1>3, <3>1 DEF IInv, MemoryInv, ReplayedInv
  <2>3. ASSUME NEW u \in Threads, ~Did(u, "FINISH")'
        PROVE  /\ call[u] = "vkAllocateMemory" /\ Did(u, "driver")'
                    => replayed[mem'[u]].id = 0 /\ ~replayed[mem'[u]].mapped
               /\ call[u] = "vkMapMemory" => ~replayed[mem'[u]].mapped
               /\ call[u] \in OnMapped => replayed[mem'[u]].mapped
               /\ call[u] = "vkFreeMemory" => replayed[mem'[u]].id # 0
    <3>1. CASE u = t
      BY <1>2, <1>5, <3>1 DEF OnMapped
    <3>2. CASE u # t
      <4>1. mem'[u] = mem[u] /\ ~Did(u, "FINISH") /\ (Did(u, "driver")' <=> Did(u, "driver"))
        BY <1>2, <1>3, <2>3, <3>2 DEF Once
      <4> QED BY <4>1 DEF IInv, MemoryInv, ReplayedInv
    <3> QED BY <3>1, <3>2
  <2> QED BY <1>3, <2>1, <2>2, <2>3 DEF ReplayedInv
<1> QED BY <1>6, <1>7, <1>8, <1>9 DEF MemoryInv

\* Freed memory: no other call names it, and the page guard has forgotten it.
LEMMA DriverFrees ==
    ASSUME IInv, NEW t \in Threads, Doing(t, "driver"), Moves(t, "driver"),
           call[t] = "vkFreeMemory", memory' = [memory EXCEPT ![mem[t]] = 0],
           UNCHANGED <<mem, mapped, replayed>>
    PROVE  MemoryInv'
<1>1. /\ UNCHANGED call /\ ~Did(t, "driver") /\ ~Did(t, "FINISH")
      /\ \A u \in Threads, x \in Once : Did(u, x)' <=> (u = t /\ x = "driver") \/ Did(u, x)
      /\ \A u \in Threads, x \in Once :
           u # t \/ x # "driver" => (Pending(u, x)' <=> Pending(u, x))
      /\ \A u \in Threads : (Remaps(u)' <=> Remaps(u)) /\ ~Remakes(u)
      /\ Remakes(t)' /\ Did(t, "forget")
    BY AtDriver DEF Remakes
<1>2. /\ mem[t] \in Handles
      /\ \A u \in Threads : u # t => mem[u] # mem[t]
      /\ mem[t] \notin mapped
  <2>1. mem[t] \in Handles
    BY DEF IInv, MemoryInv, CallInv, OnHandle
  <2>2. \A u \in Threads : u # t => mem[u] # mem[t]
    BY <1>1, <2>1 DEF IInv, MemoryInv, OwnInv, Reuses
  <2>3. mem[t] \notin mapped
    BY <1>1 DEF IInv, MemoryInv, MappedInv, Pending
  <2> QED BY <2>1, <2>2, <2>3
<1>3. memory'[mem[t]] = 0 /\ \A g \in Handles : g # mem[t] => memory'[g] = memory[g]
    BY <1>2 DEF IInv, TypeOK, TypeDriver
<1>4. CallInv'
  <2> SUFFICES ASSUME NEW u \in Threads
               PROVE  /\ call[u] \in OnHandle => mem[u] \in Handles
                      /\ call[u] \in OnHandle /\ ~(call[u] = "vkFreeMemory" /\ Did(u, "driver")')
                           => memory'[mem[u]] # 0
                      /\ call[u] = "vkFreeMemory" /\ Pending(u, "driver")' => memory'[mem[u]] = 0
                      /\ call[u] = "vkAllocateMemory" /\ ~Did(u, "driver")' => mem[u] = NoHandle
                      /\ call[u] = "vkAllocateMemory" /\ Did(u, "driver")'
                           => mem[u] \in Handles /\ memory'[mem[u]] # 0
                      /\ call[u] \notin OnHandle \union {"vkAllocateMemory"} => mem[u] = NoHandle
    BY <1>1 DEF CallInv
  <2>1. CASE u = t
    BY <1>1, <1>2, <1>3, <2>1 DEF OnHandle, Once
  <2>2. CASE u # t
    <3>1. /\ mem[u] \in Handles => memory'[mem[u]] = memory[mem[u]]
          /\ (Did(u, "driver")' <=> Did(u, "driver"))
          /\ (Pending(u, "driver")' <=> Pending(u, "driver"))
      BY <1>1, <1>2, <1>3, <2>2 DEF Once
    <3>2. ~(call[u] = "vkFreeMemory" /\ Pending(u, "driver"))
      BY <1>1 DEF Remakes
    <3> QED BY <3>1, <3>2 DEF IInv, MemoryInv, CallInv
  <2> QED BY <2>1, <2>2
<1>5. OwnInv'
  <2>1. \A u, v \in Threads : Reuses(u, v) => Reuses(u, v)'
    BY <1>1 DEF Reuses, Once
  <2> QED BY <2>1 DEF IInv, MemoryInv, OwnInv
<1>6. MappedInv'
  <2>1. \A g \in mapped : memory'[g] # 0
    <3>1. mapped \subseteq Handles
      BY DEF IInv, TypeOK, TypeDriver
    <3> QED BY <1>2, <1>3, <3>1 DEF IInv, MemoryInv, MappedInv
  <2>2. /\ \A u \in Threads : Pending(u, "forget")' <=> Pending(u, "forget")
        /\ \A u \in Threads : Did(u, "forget")' <=> Did(u, "forget")
        /\ \A u \in Threads : Did(u, "remember")' <=> Did(u, "remember")
    BY <1>1 DEF Once
  <2> QED BY <1>1, <2>1, <2>2 DEF IInv, MemoryInv, MappedInv
<1>7. ReplayedInv'
  <2>1. ASSUME NEW g \in Handles
        PROVE  replayed[g].id = memory'[g] \/ \E u \in Threads : mem[u] = g /\ Remakes(u)'
    <3>1. CASE g = mem[t]
      BY <1>1, <3>1
    <3>2. CASE g # mem[t]
      <4>1. replayed[g].id = memory[g]
        BY <1>1 DEF IInv, MemoryInv, ReplayedInv
      <4> QED BY <1>3, <3>2, <4>1
    <3> QED BY <3>1, <3>2
  <2>2. ASSUME NEW u \in Threads
        PROVE  /\ Did(u, "FINISH")' <=> Did(u, "FINISH")
               /\ call[u] = "vkAllocateMemory" => (Did(u, "driver")' <=> Did(u, "driver"))
    BY <1>1 DEF Once
  <2> QED BY <1>1, <2>1, <2>2 DEF IInv, MemoryInv, ReplayedInv
<1> QED BY <1>4, <1>5, <1>6, <1>7 DEF MemoryInv

\* The driver does the call.
LEMMA DriverStep == ASSUME IInv, NEW t \in Threads, Driver(t) PROVE IInv'
<1>1. /\ Doing(t, "driver") /\ Advance(t)
      /\ execs' = execs + 1 /\ exec' = [exec EXCEPT ![t] = execs + 1]
      /\ fence' = IF call[t] = "vkQueueSubmit" THEN "submitted" ELSE fence
      /\ event' = (event \/ call[t] = "vkSetEvent")
      /\ UNCHANGED <<locked, lock, call, calls, cur, todo, found, index, table, mapped,
                     packets, written, replayed>>
    BY DEF Driver, traceVars
<1>2. Moves(t, "driver")
    BY <1>1, StepMoves DEF IInv
<1>3. LockInv'
  <2>1. Switches(t, "driver")
    BY <1>1 DEF Switches, Opens, Closes, Locks
  <2> QED BY <1>1, <1>2, <2>1, LocksKept DEF IInv
<1>4. OrderInv'
    BY <1>1, <1>2, OrderKept DEF IInv
<1>5. ExecInv'
  <2>1. /\ written.exec <= execs /\ execs \in Nat /\ written.exec \in Nat
        /\ exec'[t] = execs + 1 /\ \A u \in Threads : u # t => exec'[u] = exec[u]
        /\ exec \in [Threads -> Nat]
    BY <1>1 DEF IInv, ExecInv, TypeOK, TypeThreads, TypeDriver, TypeTrace
  <2>2. \A u \in Threads : u # t => (Pending(u, "driver")' <=> Pending(u, "driver"))
    BY <1>1, <1>2, AtDriver DEF Once
  <2>3. \A u \in Threads : exec'[u] <= execs'
    <3> SUFFICES ASSUME NEW u \in Threads PROVE exec'[u] <= execs + 1
      BY <1>1
    <3>1. exec[u] <= execs /\ exec[u] \in Nat
      BY <2>1 DEF IInv, ExecInv
    <3> QED BY <2>1, <3>1
  <2>4. ASSUME locked, NEW u \in Threads, Pending(u, "driver")' PROVE exec'[u] > written.exec
    <3>1. CASE u = t
      BY <2>1, <3>1
    <3>2. CASE u # t
      BY <2>1, <2>2, <2>4, <3>2 DEF IInv, ExecInv
    <3> QED BY <3>1, <3>2
  <2>5. written'.exec <= execs'
    BY <1>1, <2>1
  <2> QED BY <1>1, <2>3, <2>4, <2>5 DEF ExecInv
<1>6. MemoryInv' /\ memory' \in [Handles -> Nat] /\ ids' \in Nat
        /\ mem' \in [Threads -> Handles \union {NoHandle}]
  <2>1. /\ memory \in [Handles -> Nat] /\ ids \in Nat
        /\ mem \in [Threads -> Handles \union {NoHandle}]
    BY DEF IInv, TypeOK, TypeDriver, TypeThreads
  <2>2. CASE call[t] = "vkAllocateMemory"
    <3>1. PICK h \in Handles : /\ memory[h] = 0 /\ memory' = [memory EXCEPT ![h] = ids + 1]
                               /\ ids' = ids + 1 /\ mem' = [mem EXCEPT ![t] = h]
      BY <2>2 DEF Driver
    <3>2. MemoryInv'
      BY <1>1, <1>2, <2>2, <3>1, DriverAllocates
    <3> QED BY <2>1, <3>1, <3>2
  <2>3. CASE call[t] = "vkFreeMemory"
    <3>1. memory' = [memory EXCEPT ![mem[t]] = 0] /\ UNCHANGED <<ids, mem>>
      BY <2>3 DEF Driver
    <3>2. MemoryInv'
      BY <1>1, <1>2, <2>3, <3>1, DriverFrees
    <3> QED BY <2>1, <3>1, <3>2
  <2>4. CASE call[t] \notin {"vkAllocateMemory", "vkFreeMemory"}
    <3>1. UNCHANGED <<memory, ids, mem>>
      BY <2>4 DEF Driver
    <3>2. /\ \A u \in Threads : Did(u, "FINISH")' <=> Did(u, "FINISH")
          /\ \A u \in Threads : Did(u, "remember")' <=> Did(u, "remember")
          /\ \A u \in Threads : Did(u, "forget")' <=> Did(u, "forget")
          /\ \A u \in Threads : Pending(u, "forget")' <=> Pending(u, "forget")
          /\ \A u \in Threads : Remaps(u)' <=> Remaps(u)
      BY <1>1, <1>2, AtDriver DEF Once
    <3>3. \A u \in Threads : call[u] \in {"vkAllocateMemory", "vkFreeMemory"} =>
            /\ Did(u, "driver")' <=> Did(u, "driver")
            /\ Pending(u, "driver")' <=> Pending(u, "driver")
      BY <1>1, <1>2, <2>4, AtDriver DEF Once
    <3>4. \A u \in Threads : Remakes(u)' <=> Remakes(u)
      BY <1>1, <3>3 DEF Remakes
    <3>5. CallInv'
      BY <1>1, <3>1, <3>3 DEF IInv, MemoryInv, CallInv
    <3>6. OwnInv'
      BY <1>1, <3>1, <3>2 DEF IInv, MemoryInv, OwnInv, Reuses
    <3>7. MappedInv'
      BY <1>1, <3>1, <3>2 DEF IInv, MemoryInv, MappedInv
    <3>8. ReplayedInv'
      BY <1>1, <3>1, <3>2, <3>3, <3>4 DEF IInv, MemoryInv, ReplayedInv
    <3> QED BY <2>1, <3>1, <3>5, <3>6, <3>7, <3>8 DEF MemoryInv
  <2> QED BY <2>2, <2>3, <2>4
<1>7. LoopInv'
    BY <1>1, <1>2, LoopKept DEF IInv
<1>8. TypeThreads'
  <2>1. exec' \in [Threads -> Nat]
    BY <1>1 DEF IInv, TypeOK, TypeThreads, TypeDriver
  <2> QED BY <1>1, <1>2, <1>6, <2>1, WalkTypes DEF IInv, TypeOK, TypeThreads
<1>9. TypeDriver'
  <2>1. event' \in BOOLEAN
    BY <1>1
  <2>2. fence' \in {"unsubmitted", "submitted", "signalled"}
    BY <1>1 DEF IInv, TypeOK, TypeDriver
  <2>3. mapped' \in SUBSET Handles /\ execs' \in Nat
    BY <1>1 DEF IInv, TypeOK, TypeDriver
  <2> QED BY <1>6, <2>1, <2>2, <2>3 DEF TypeDriver
<1>10. TypeTrace' /\ TableInv'
    BY <1>1 DEF IInv, TypeOK, TypeTrace, TableInv, IsTable
<1> QED BY <1>3, <1>4, <1>5, <1>6, <1>7, <1>8, <1>9, <1>10, Whole

-----------------------------------------------------------------------------
(* The beginning and the end of a call.                                    *)

\* Another thread stays where it is.
LEMMA Elsewhere ==
    ASSUME NEW t \in Threads, TypeThreads, NEW n, NEW k,
           call' = [call EXCEPT ![t] = n], at' = [at EXCEPT ![t] = k]
    PROVE  /\ call'[t] = n /\ at'[t] = k
           /\ \A u \in Threads : u # t =>
                /\ call'[u] = call[u] /\ at'[u] = at[u]
                /\ \A l \in Locks : Holds(u, l)' <=> Holds(u, l)
                /\ \A x \in Once : Did(u, x)' <=> Did(u, x)
                /\ \A x \in Once : Pending(u, x)' <=> Pending(u, x)
                /\ Looping(u)' <=> Looping(u)
                /\ Flushing(u)' <=> Flushing(u)
                /\ Remakes(u)' <=> Remakes(u)
                /\ Remaps(u)' <=> Remaps(u)
<1>1. call \in [Threads -> DOMAIN Hooks \union {"none"}] /\ at \in [Threads -> Nat]
    BY DEF TypeThreads
<1>2. call'[t] = n /\ at'[t] = k
      /\ \A u \in Threads : u # t => call'[u] = call[u] /\ at'[u] = at[u]
    BY <1>1
<1>3. ASSUME NEW u \in Threads, u # t
      PROVE  /\ \A l \in Locks : Holds(u, l)' <=> Holds(u, l)
             /\ \A x \in Once : Did(u, x)' <=> Did(u, x)
             /\ Looping(u)' <=> Looping(u)
             /\ Flushing(u)' <=> Flushing(u)
    BY <1>2, <1>3, Stays
<1>4. ASSUME NEW u \in Threads, u # t
      PROVE  \A x \in Once : Pending(u, x)' <=> Pending(u, x)
    BY <1>3, <1>4 DEF Pending, Once
<1>5. ASSUME NEW u \in Threads, u # t
      PROVE  (Remakes(u)' <=> Remakes(u)) /\ (Remaps(u)' <=> Remaps(u))
    BY <1>2, <1>4, <1>5 DEF Remakes, Remaps, Once
<1> QED BY <1>2, <1>3, <1>4, <1>5

\* A thread that has not begun a call, or has just begun it, has done nothing.
LEMMA Idle ==
    ASSUME NEW t \in Threads, call[t] = "none"
    PROVE  /\ \A l \in Locks : ~Holds(t, l)
           /\ \A x \in Once : ~Did(t, x) /\ ~Pending(t, x)
           /\ ~Looping(t) /\ ~Flushing(t) /\ ~Remakes(t) /\ ~Remaps(t)
BY DEF Holds, Did, Pending, Looping, Flushing, Remakes, Remaps

\* A thread at the beginning of a call has done nothing of it.
LEMMA Begun ==
    ASSUME NEW t \in Threads, at'[t] = 1
    PROVE  /\ \A l \in Locks : ~Holds(t, l)'
           /\ \A x \in Once : ~Did(t, x)' /\ ~Pending(t, x)'
           /\ ~Flushing(t)' /\ ~Remakes(t)' /\ ~Remaps(t)'
<1>1. \A i : ~(i \in 1..1 - 1)
    OBVIOUS
<1> QED BY <1>1 DEF Holds, Did, Pending, Flushing, Between, Past, InFlush, Remakes, Remaps

\* What the application may call.
LEMMA MayCallIs ==
    ASSUME NEW n \in Name, NEW h \in Handles \union {NoHandle}, MayCall(n, h)
    PROVE  /\ n \in OnHandle => h \in Handles /\ memory[h] # 0 /\ \A u \in Threads : mem[u] # h
           /\ n = "vkMapMemory" => h \notin mapped
           /\ n \in OnMapped => h \in mapped
           /\ n \notin OnHandle => h = NoHandle
<1>1. CASE n = "vkMapMemory"
    BY <1>1 DEF MayCall, Usable, OnHandle, OnMapped
<1>2. CASE n \in OnMapped
    BY <1>2 DEF MayCall, Usable, OnHandle, OnMapped
<1>3. CASE n = "vkFreeMemory"
    BY <1>3 DEF MayCall, Usable, OnHandle, OnMapped
<1>4. CASE n \notin OnHandle
    BY <1>4 DEF MayCall, OnHandle, OnMapped, Name
<1> QED BY <1>1, <1>2, <1>3, <1>4 DEF OnHandle

\* A call that keeps the rules of Vulkan names memory that it may name.
LEMMA CallMemory ==
    ASSUME IInv, NEW t \in Threads, NEW n \in Name, NEW h \in Handles \union {NoHandle},
           MayCall(n, h), call[t] = "none",
           call' = [call EXCEPT ![t] = n], at' = [at EXCEPT ![t] = 1],
           mem' = [mem EXCEPT ![t] = h], UNCHANGED <<memory, mapped, replayed>>
    PROVE  MemoryInv'
<1>1. /\ call'[t] = n /\ at'[t] = 1 /\ mem'[t] = h
      /\ \A u \in Threads : u # t =>
            /\ call'[u] = call[u] /\ mem'[u] = mem[u]
            /\ \A x \in Once : Did(u, x)' <=> Did(u, x)
            /\ \A x \in Once : Pending(u, x)' <=> Pending(u, x)
            /\ Remakes(u)' <=> Remakes(u)
            /\ Remaps(u)' <=> Remaps(u)
  <2>1. mem \in [Threads -> Handles \union {NoHandle}] /\ TypeThreads
    BY DEF IInv, TypeOK, TypeThreads
  <2> QED BY <2>1, Elsewhere
<1>2. /\ \A x \in Once : ~Did(t, x)' /\ ~Pending(t, x)'
      /\ ~Remakes(t) /\ ~Remaps(t)
  <2>1. \A x \in Once : ~Did(t, x)' /\ ~Pending(t, x)'
    BY <1>1, Begun
  <2> QED BY <2>1, Idle
<1>3. /\ n \in OnHandle => h \in Handles /\ memory[h] # 0 /\ \A u \in Threads : mem[u] # h
      /\ n = "vkMapMemory" => h \notin mapped
      /\ n \in OnMapped => h \in mapped
      /\ n \notin OnHandle => h = NoHandle
    BY MayCallIs
<1>4. n \in OnHandle => replayed[h].id = memory[h] /\ (replayed[h].mapped <=> h \in mapped)
    BY <1>3 DEF IInv, MemoryInv, ReplayedInv
<1>5. CallInv'
  <2> SUFFICES ASSUME NEW u \in Threads
               PROVE  /\ call'[u] \in OnHandle => mem'[u] \in Handles
                      /\ call'[u] \in OnHandle /\ ~(call'[u] = "vkFreeMemory" /\ Did(u, "driver")')
                           => memory[mem'[u]] # 0
                      /\ call'[u] = "vkFreeMemory" /\ Pending(u, "driver")' => memory[mem'[u]] = 0
                      /\ call'[u] = "vkAllocateMemory" /\ ~Did(u, "driver")' => mem'[u] = NoHandle
                      /\ call'[u] = "vkAllocateMemory" /\ Did(u, "driver")'
                           => mem'[u] \in Handles /\ memory[mem'[u]] # 0
                      /\ call'[u] \notin OnHandle \union {"vkAllocateMemory"} => mem'[u] = NoHandle
    BY DEF CallInv
  <2>1. CASE u = t
    BY <1>1, <1>2, <1>3, <2>1 DEF OnHandle, OnMapped, Once
  <2>2. CASE u # t
    <3>1. /\ call'[u] = call[u] /\ mem'[u] = mem[u]
          /\ (Did(u, "driver")' <=> Did(u, "driver"))
          /\ (Pending(u, "driver")' <=> Pending(u, "driver"))
      BY <1>1, <2>2 DEF Once
    <3> QED BY <3>1 DEF IInv, MemoryInv, CallInv
  <2> QED BY <2>1, <2>2
<1>6. OwnInv'
  <2>1. \A u, v \in Threads : u # t /\ v # t => (Reuses(u, v)' <=> Reuses(u, v))
    BY <1>1 DEF Reuses, Once
  <2>2. \A u \in Threads : u # t /\ h \in Handles => mem[u] # h
    BY <1>3, NoOneIsNone
  <2> QED BY <1>1, <2>1, <2>2 DEF IInv, MemoryInv, OwnInv
<1>7. MappedInv'
  <2>1. \A u \in Threads : u # t =>
          /\ Did(u, "remember")' <=> Did(u, "remember")
          /\ Did(u, "forget")' <=> Did(u, "forget")
          /\ Pending(u, "forget")' <=> Pending(u, "forget")
    BY <1>1 DEF Once
  <2>2. ~Did(t, "remember")' /\ ~Did(t, "forget")' /\ ~Pending(t, "forget")'
    BY <1>2 DEF Once
  <2> QED BY <1>1, <1>3, <2>1, <2>2 DEF IInv, MemoryInv, MappedInv, OnMapped
<1>8. ReplayedInv'
  <2>1. ASSUME NEW g \in Handles
        PROVE  replayed[g].id = memory[g] \/ \E u \in Threads : mem'[u] = g /\ Remakes(u)'
    BY <1>1, <1>2 DEF IInv, MemoryInv, ReplayedInv
  <2>2. ASSUME NEW g \in Handles
        PROVE  \/ replayed[g].mapped <=> g \in mapped
               \/ \E u \in Threads : mem'[u] = g /\ Remaps(u)'
    BY <1>1, <1>2 DEF IInv, MemoryInv, ReplayedInv
  <2>3. ASSUME NEW u \in Threads, ~Did(u, "FINISH")'
        PROVE  /\ call'[u] = "vkAllocateMemory" /\ Did(u, "driver")'
                    => replayed[mem'[u]].id = 0 /\ ~replayed[mem'[u]].mapped
               /\ call'[u] = "vkMapMemory" => ~replayed[mem'[u]].mapped
               /\ call'[u] \in OnMapped => replayed[mem'[u]].mapped
               /\ call'[u] = "vkFreeMemory" => replayed[mem'[u]].id # 0
    <3>1. CASE u = t
      BY <1>1, <1>2, <1>3, <1>4, <3>1 DEF OnHandle, Once
    <3>2. CASE u # t
      <4>1. /\ call'[u] = call[u] /\ mem'[u] = mem[u] /\ ~Did(u, "FINISH")
            /\ (Did(u, "driver")' <=> Did(u, "driver"))
        BY <1>1, <2>3, <3>2 DEF Once
      <4> QED BY <4>1 DEF IInv, MemoryInv, ReplayedInv
    <3> QED BY <3>1, <3>2
  <2> QED BY <2>1, <2>2, <2>3 DEF ReplayedInv
<1> QED BY <1>5, <1>6, <1>7, <1>8 DEF MemoryInv

\* The application calls an interceptor.
LEMMA CallStep ==
    ASSUME IInv, NEW t \in Threads, NEW n \in DOMAIN Hooks, NEW h \in Handles \union {NoHandle},
           Call(t, n, h)
    PROVE  IInv'
<1>1. /\ call[t] = "none" /\ calls < MaxCalls /\ MayCall(n, h)
      /\ call' = [call EXCEPT ![t] = n] /\ at' = [at EXCEPT ![t] = 1]
      /\ calls' = calls + 1 /\ mem' = [mem EXCEPT ![t] = h]
      /\ UNCHANGED <<locked, lock, cur, todo, found, index, exec, table, memory, ids, mapped,
                     fence, event, execs, packets, written, replayed>>
    BY DEF Call, driverVars, traceVars
<1>2. n \in Name
    BY TextsOfHooks
<1>3. /\ call'[t] = n /\ at'[t] = 1
      /\ \A u \in Threads : u # t =>
            /\ call'[u] = call[u] /\ at'[u] = at[u]
            /\ \A l \in Locks : Holds(u, l)' <=> Holds(u, l)
            /\ \A x \in Once : Pending(u, x)' <=> Pending(u, x)
            /\ Looping(u)' <=> Looping(u)
            /\ Flushing(u)' <=> Flushing(u)
    BY <1>1, Elsewhere DEF IInv, TypeOK
<1>4. /\ \A l \in Locks : ~Holds(t, l) /\ ~Holds(t, l)'
      /\ \A x \in Once : ~Pending(t, x)'
      /\ ~Looping(t) /\ ~Flushing(t)'
    BY <1>1, <1>3, Idle, Begun
<1>5. LockInv'
    BY <1>1, <1>3, <1>4 DEF IInv, LockInv
<1>6. OrderInv'
    BY <1>1, <1>3, <1>4 DEF IInv, OrderInv, Locks
<1>7. ExecInv'
    BY <1>1, <1>3, <1>4 DEF IInv, ExecInv, Once
<1>8. MemoryInv'
    BY <1>1, <1>2, CallMemory
<1>9. LoopInv'
  <2>1. todo[t] = {} /\ cur[t] = NoHandle
    BY <1>4 DEF IInv, LoopInv
  <2> QED BY <1>1, <1>3, <1>4, <2>1 DEF IInv, LoopInv
<1>10. TypeThreads'
  <2>1. 1 \in DOMAIN Hooks[n]
    <3>1. Order(n, Hooks[n])
      BY <1>2, Shape
    <3> QED BY <3>1 DEF Order
  <2>2. \A u \in Threads : at'[u] \in IF call'[u] = "none" THEN {0} ELSE DOMAIN Hooks[call'[u]]
    <3>1. n # "none"
      BY <1>2 DEF Name
    <3> QED BY <1>3, <2>1, <3>1 DEF IInv, TypeOK, TypeThreads
  <2>3. calls' \in 0..MaxCalls
    BY <1>1, CallsAreCounted DEF IInv, TypeOK, TypeThreads
  <2>4. call' \in [Threads -> DOMAIN Hooks \union {"none"}] /\ at' \in [Threads -> Nat]
        /\ mem' \in [Threads -> Handles \union {NoHandle}]
    BY <1>1 DEF IInv, TypeOK, TypeThreads
  <2> QED BY <1>1, <2>2, <2>3, <2>4 DEF IInv, TypeOK, TypeThreads
<1>11. TypeDriver' /\ TypeTrace' /\ TableInv'
    BY <1>1 DEF IInv, TypeOK, TypeDriver, TypeTrace, TableInv, IsTable
<1> QED BY <1>5, <1>6, <1>7, <1>8, <1>9, <1>10, <1>11, Whole

\* A call that returns holds no lock and has told the trace.
LEMMA ReturnStep == ASSUME IInv, NEW t \in Threads, Return(t) PROVE IInv'
<1>1. /\ Doing(t, "return")
      /\ call' = [call EXCEPT ![t] = "none"] /\ at' = [at EXCEPT ![t] = 0]
      /\ mem' = [mem EXCEPT ![t] = NoHandle] /\ cur' = [cur EXCEPT ![t] = NoHandle]
      /\ found' = [found EXCEPT ![t] = Null]
      /\ index' = [index EXCEPT ![t] = 0] /\ exec' = [exec EXCEPT ![t] = 0]
      /\ UNCHANGED <<locked, lock, calls, todo, table, memory, ids, mapped, fence, event,
                     execs, packets, written, replayed>>
    BY DEF Return, driverVars, traceVars
<1>2. /\ call[t] # "none" /\ at[t] \in 1..Len(Hooks[call[t]])
      /\ Hooks[call[t]][at[t]] = "return" /\ Order(call[t], Hooks[call[t]])
      /\ Locking(call[t], Hooks[call[t]]) /\ Loop(call[t], Hooks[call[t]])
    BY <1>1, Place DEF IInv, Doing
<1>3. /\ \A l \in Locks : ~Holds(t, l)
      /\ Did(t, "FINISH") /\ ~Looping(t)
  <2>1. \A l \in Locks : ~Holds(t, l)
    BY <1>2 DEF Locking, Holds
  <2>2. Did(t, "FINISH")
    BY <1>2 DEF Order, Did
  <2>3. ~Looping(t)
    BY <1>2, <2>1 DEF Loop, Looping, Holds, Locks
  <2> QED BY <2>1, <2>2, <2>3
<1>4. /\ call'[t] = "none" /\ at'[t] = 0
      /\ \A u \in Threads : u # t =>
            /\ call'[u] = call[u] /\ at'[u] = at[u]
            /\ \A l \in Locks : Holds(u, l)' <=> Holds(u, l)
            /\ \A x \in Once : Did(u, x)' <=> Did(u, x)
            /\ \A x \in Once : Pending(u, x)' <=> Pending(u, x)
            /\ Looping(u)' <=> Looping(u)
            /\ Flushing(u)' <=> Flushing(u)
            /\ Remakes(u)' <=> Remakes(u)
            /\ Remaps(u)' <=> Remaps(u)
    BY <1>1, Elsewhere DEF IInv, TypeOK
<1>5. /\ \A l \in Locks : ~Holds(t, l)'
      /\ \A x \in Once : ~Pending(t, x)'
      /\ ~Flushing(t)' /\ ~Remakes(t) /\ ~Remaps(t)
    BY <1>3, <1>4 DEF Holds, Pending, Did, Flushing, Remakes, Remaps
<1>6. /\ mem'[t] = NoHandle /\ cur'[t] = NoHandle /\ exec'[t] = 0
      /\ \A u \in Threads : u # t => /\ mem'[u] = mem[u] /\ cur'[u] = cur[u]
                                     /\ index'[u] = index[u] /\ exec'[u] = exec[u]
    BY <1>1 DEF IInv, TypeOK, TypeThreads
<1>7. LockInv'
    BY <1>1, <1>3, <1>4, <1>5 DEF IInv, LockInv
<1>8. OrderInv'
    BY <1>1, <1>4, <1>5, <1>6 DEF IInv, OrderInv, Locks
<1>9. ExecInv'
  <2>1. \A u \in Threads : exec'[u] <= execs
    BY <1>4, <1>6 DEF IInv, ExecInv, TypeOK, TypeDriver
  <2> QED BY <1>1, <1>4, <1>5, <1>6, <2>1 DEF IInv, ExecInv, Once
<1>10. CallInv'
  <2>1. \A u \in Threads : u # t => /\ Did(u, "driver")' <=> Did(u, "driver")
                                    /\ Pending(u, "driver")' <=> Pending(u, "driver")
    BY <1>4 DEF Once
  <2>2. "none" \notin OnHandle
    BY DEF OnHandle, OnMapped
  <2> QED BY <1>1, <1>4, <1>6, <2>1, <2>2 DEF IInv, MemoryInv, CallInv
<1>11. OwnInv'
  <2>1. \A u, v \in Threads : u # t /\ v # t => (Reuses(u, v)' <=> Reuses(u, v))
    BY <1>4 DEF Reuses, Once
  <2> QED BY <1>6, <2>1, NoOneIsNone DEF IInv, MemoryInv, OwnInv
<1>12. MappedInv'
  <2>1. \A u \in Threads : u # t =>
          /\ Did(u, "remember")' <=> Did(u, "remember")
          /\ Did(u, "forget")' <=> Did(u, "forget")
          /\ Pending(u, "forget")' <=> Pending(u, "forget")
    BY <1>4 DEF Once
  <2>2. "none" \notin OnMapped
    BY DEF OnMapped
  <2> QED BY <1>1, <1>4, <1>6, <2>1, <2>2 DEF IInv, MemoryInv, MappedInv
<1>13. ReplayedInv'
  <2>1. ASSUME NEW g \in Handles
        PROVE  replayed[g].id = memory[g] \/ \E u \in Threads : mem'[u] = g /\ Remakes(u)'
    BY <1>4, <1>5, <1>6 DEF IInv, MemoryInv, ReplayedInv
  <2>2. ASSUME NEW g \in Handles
        PROVE  \/ replayed[g].mapped <=> g \in mapped
               \/ \E u \in Threads : mem'[u] = g /\ Remaps(u)'
    BY <1>4, <1>5, <1>6 DEF IInv, MemoryInv, ReplayedInv
  <2>3. \A u \in Threads : u # t => /\ Did(u, "driver")' <=> Did(u, "driver")
                                    /\ Did(u, "FINISH")' <=> Did(u, "FINISH")
    BY <1>4 DEF Once
  <2>4. "none" \notin OnMapped
    BY DEF OnMapped
  <2> QED BY <1>1, <1>4, <1>6, <2>1, <2>2, <2>3, <2>4 DEF IInv, MemoryInv, ReplayedInv
<1>14. LoopInv'
  <2>1. todo[t] = {}
    BY <1>3 DEF IInv, LoopInv
  <2> QED BY <1>1, <1>4, <1>5, <1>6, <2>1 DEF IInv, LoopInv
<1>15. TypeThreads'
  <2>1. \A u \in Threads : at'[u] \in IF call'[u] = "none" THEN {0} ELSE DOMAIN Hooks[call'[u]]
    BY <1>4 DEF IInv, TypeOK, TypeThreads
  <2>2. found' \in [Threads -> Nat \X Nat]
    BY <1>1 DEF IInv, TypeOK, TypeThreads, Null
  <2>3. /\ call' \in [Threads -> DOMAIN Hooks \union {"none"}] /\ at' \in [Threads -> Nat]
        /\ mem' \in [Threads -> Handles \union {NoHandle}]
        /\ cur' \in [Threads -> Handles \union {NoHandle}]
        /\ index' \in [Threads -> Nat] /\ exec' \in [Threads -> Nat]
    BY <1>1 DEF IInv, TypeOK, TypeThreads
  <2> QED BY <1>1, <2>1, <2>2, <2>3 DEF IInv, TypeOK, TypeThreads
<1>16. TypeDriver' /\ TypeTrace' /\ TableInv'
    BY <1>1 DEF IInv, TypeOK, TypeDriver, TypeTrace, TableInv, IsTable
<1> QED BY <1>7, <1>8, <1>9, <1>10, <1>11, <1>12, <1>13, <1>14, <1>15, <1>16, Whole
        DEF MemoryInv

\* Nothing happens but on the device.
LEMMA Rests ==
    ASSUME IInv, fence' \in {"unsubmitted", "submitted", "signalled"},
           UNCHANGED <<locked, lock, threadVars, table, memory, ids, mapped, event, execs,
                       traceVars>>
    PROVE  IInv'
<1>1. UNCHANGED <<locked, lock, call, at, calls, mem, cur, todo, found, index, exec, table,
                  memory, ids, mapped, event, execs, packets, written, replayed>>
    BY DEF threadVars, traceVars
<1>2. \A u \in Threads : /\ \A l \in Locks : Holds(u, l)' <=> Holds(u, l)
                         /\ \A x \in Once : Did(u, x)' <=> Did(u, x)
                         /\ Looping(u)' <=> Looping(u)
                         /\ Flushing(u)' <=> Flushing(u)
    BY <1>1, Stays
<1>3. \A u \in Threads : /\ \A x \in Once : Pending(u, x)' <=> Pending(u, x)
                         /\ Remakes(u)' <=> Remakes(u)
                         /\ Remaps(u)' <=> Remaps(u)
    BY <1>1, <1>2 DEF Pending, Remakes, Remaps, Once
<1>4. LockInv' /\ OrderInv' /\ ExecInv'
    BY <1>1, <1>2, <1>3 DEF IInv, LockInv, OrderInv, ExecInv, Once, Locks
<1>5. CallInv'
    BY <1>1, <1>2, <1>3 DEF IInv, MemoryInv, CallInv, Once
<1>6. OwnInv'
    BY <1>1, <1>2 DEF IInv, MemoryInv, OwnInv, Reuses, Once
<1>7. MappedInv'
    BY <1>1, <1>2, <1>3 DEF IInv, MemoryInv, MappedInv, Once
<1>8. ReplayedInv'
    BY <1>1, <1>2, <1>3 DEF IInv, MemoryInv, ReplayedInv, Once
<1>9. LoopInv'
    BY <1>1, <1>2 DEF IInv, LoopInv
<1>10. TypeThreads'
    BY <1>1 DEF IInv, TypeOK, TypeThreads
<1>11. TypeDriver' /\ TypeTrace' /\ TableInv'
    BY <1>1 DEF IInv, TypeOK, TypeDriver, TypeTrace, TableInv, IsTable
<1> QED BY <1>4, <1>5, <1>6, <1>7, <1>8, <1>9, <1>10, <1>11, Whole DEF MemoryInv

-----------------------------------------------------------------------------
(* The beginning, and every step.                                          *)

\* Nothing has been called yet.
LEMMA InitInv == Init => IInv
<1> SUFFICES ASSUME Init PROVE IInv
    OBVIOUS
<1>1. \A u \in Threads : /\ \A l \in Locks : ~Holds(u, l)
                         /\ \A x \in Once : ~Did(u, x) /\ ~Pending(u, x)
                         /\ ~Looping(u) /\ ~Flushing(u) /\ ~Remakes(u) /\ ~Remaps(u)
    BY Idle DEF Init
<1>2. TableInv /\ TypeTable
    BY NoTableIsTable, TableTypes DEF Init, TableInv, TypeTable
<1>3. TypeThreads
  <2>1. Null \in Nat \X Nat
    BY DEF Null
  <2> QED BY <2>1, CallsAreCounted DEF Init, TypeThreads
<1>4. TypeDriver /\ TypeTrace
    BY FlagsAreBooleans DEF Init, TypeDriver, TypeTrace
<1>5. LockInv
    BY <1>1, NoOneIsNone DEF Init, LockInv
<1>6. OrderInv
    BY <1>1 DEF Init, OrderInv, Locks
<1>7. ExecInv
    BY <1>1 DEF Init, ExecInv, Once
<1>8. CallInv /\ OwnInv /\ MappedInv
    BY NoOneIsNone DEF Init, CallInv, OwnInv, MappedInv, OnHandle, OnMapped
<1>9. ReplayedInv
    BY DEF Init, ReplayedInv, OnMapped
<1>10. LoopInv
    BY <1>1 DEF Init, LoopInv
<1> QED BY <1>2, <1>3, <1>4, <1>5, <1>6, <1>7, <1>8, <1>9, <1>10 DEF IInv, TypeOK, MemoryInv

\* Every step of a thread.
LEMMA StepInv == ASSUME IInv, NEW t \in Threads, Step(t) PROVE IInv'
BY LockSteps, TableSteps, EnterMapStep, EachStep, CreateStep, FlushedStep, FinishStep,
   RememberStep, DriverStep, ReturnStep DEF Step

\* Every step of the specification.
LEMMA NextInv == IInv /\ [Next]_vars => IInv'
<1> SUFFICES ASSUME IInv, [Next]_vars PROVE IInv'
    OBVIOUS
<1>1. CASE Signal
  <2>1. /\ fence' = "signalled"
        /\ UNCHANGED <<locked, lock, threadVars, table, memory, ids, mapped, event, execs,
                       traceVars>>
    BY <1>1 DEF Signal
  <2> QED BY <2>1, Rests
<1>2. ASSUME NEW t \in Threads, Step(t) PROVE IInv'
    BY <1>2, StepInv
<1>3. ASSUME NEW t \in Threads, NEW n \in DOMAIN Hooks, NEW h \in Handles \union {NoHandle},
             Call(t, n, h)
      PROVE  IInv'
    BY <1>3, CallStep
<1>4. CASE UNCHANGED vars
  <2>1. /\ fence' = fence
        /\ UNCHANGED <<locked, lock, threadVars, table, memory, ids, mapped, event, execs,
                       traceVars>>
    BY <1>4 DEF vars, driverVars
  <2> QED BY <2>1, Rests DEF IInv, TypeOK, TypeDriver
<1> QED BY <1>1, <1>2, <1>3, <1>4 DEF Next

-----------------------------------------------------------------------------
(* What follows for the trace.                                             *)

\* The locks, the orders and what is known of memory are as IInv says, always.
THEOREM Invariance == Spec => []IInv
<1>1. Init => IInv
    BY InitInv
<1>2. IInv /\ [Next]_vars => IInv'
    BY NextInv
<1> QED BY <1>1, <1>2, PTL DEF Spec

\* Every variable keeps its type, and every thread is at a step of its interceptor.
THEOREM TypeCorrect == Spec => []TypeOK
<1>1. IInv => TypeOK
    BY DEF IInv
<1> QED BY <1>1, Invariance, PTL

\* Only a packet that is written changes what is written, by the thread that
\* has created the last one.
LEMMA WritesInOrder ==
    ASSUME IInv, [Next]_vars, written' # written
    PROVE  \E t \in Threads :
             /\ written'.index = written.index \/ written'.index = index[t]
             /\ written'.exec = written.exec \/ (Doing(t, "FINISH") /\ written'.exec = exec[t])
             /\ index[t] > written.index
<1>1. PICK t \in Threads : Finish(t) \/ Flushed(t)
  <2>1. ~(UNCHANGED vars) /\ ~Signal
    BY DEF vars, traceVars, Signal
  <2>2. PICK t \in Threads : Step(t) \/ \E n \in DOMAIN Hooks, h \in Handles \cup {NoHandle} : Call(t, n, h)
    BY <2>1 DEF Next
  <2>3. \A n, h : ~Call(t, n, h)
    BY DEF Call, traceVars
  <2>4. ~EnterApi(t) /\ ~LeaveApi(t) /\ ~EnterMap(t) /\ ~LeaveMap(t) /\ ~EnterInfo(t) /\ ~LeaveInfo(t)
    BY DEF EnterApi, LeaveApi, EnterMap, LeaveMap, EnterInfo, LeaveInfo, traceVars
  <2>5. ~FindEntry(t) /\ ~UseEntry(t) /\ ~AddEntry(t) /\ ~MapEntry(t) /\ ~RemoveEntry(t)
    BY DEF FindEntry, UseEntry, AddEntry, MapEntry, RemoveEntry, traceVars
  <2>6. ~Create(t) /\ ~Each(t) /\ ~Remember(t) /\ ~Driver(t) /\ ~Return(t)
    BY DEF Create, Each, Remember, Driver, Return, traceVars
  <2> QED BY <2>2, <2>3, <2>4, <2>5, <2>6 DEF Step
<1>2. PICK s \in {"FINISH", "FLUSHED"} : Doing(t, s)
    BY <1>1 DEF Finish, Flushed
<1>3. Holds(t, "trace")
    BY <1>2, Place DEF IInv, Doing, Locking, Locks, Closes, Holds
<1>4. index[t] > written.index
  <2>1. index[t] = packets /\ written.index < packets
    BY <1>3 DEF IInv, OrderInv
  <2>2. packets \in Nat /\ written.index \in Nat
    BY DEF IInv, TypeOK, TypeTrace
  <2> QED BY <2>1, <2>2
<1>5. CASE Finish(t)
    BY <1>4, <1>5 DEF Finish
<1>6. CASE Flushed(t)
  <2>1. written \in [index : Nat, exec : Nat]
    BY DEF IInv, TypeOK, TypeTrace
  <2> QED BY <1>4, <1>6, <2>1 DEF Flushed
<1> QED BY <1>1, <1>5, <1>6

\* The packets come to the trace in the order of their indices, however many
\* threads call.
THEOREM PacketsInOrder == Spec => IndexOrder
<1>1. IInv /\ [Next]_vars => [written'.index # written.index => written'.index > written.index]_vars
  <2> SUFFICES ASSUME IInv, [Next]_vars, written'.index # written.index
               PROVE  written'.index > written.index
    OBVIOUS
  <2>1. written' # written
    OBVIOUS
  <2> QED BY <2>1, WritesInOrder
<1> QED BY <1>1, Invariance, PTL DEF Spec, IndexOrder

\* With TraceLock they come in the order of the driver's calls.
THEOREM DriverOrder == Spec => ExecOrder
<1>1. IInv /\ [Next]_vars
        => [locked /\ written'.exec # written.exec => written'.exec > written.exec]_vars
  <2> SUFFICES ASSUME IInv, [Next]_vars, locked, written'.exec # written.exec
               PROVE  written'.exec > written.exec
    OBVIOUS
  <2>1. written' # written
    OBVIOUS
  <2>2. PICK t \in Threads : Doing(t, "FINISH") /\ written'.exec = exec[t]
    BY <2>1, WritesInOrder
  <2>3. Pending(t, "driver")
    BY <2>2, Place DEF IInv, Doing, Order, Pending, Did, Once
  <2> QED BY <2>2, <2>3 DEF IInv, ExecInv
<1> QED BY <1>1, Invariance, PTL DEF Spec, ExecOrder

\* Memory that is being flushed is mapped on replay: who maps it or forgets it
\* holds the lock of the page guard too.
LEMMA FlushIsLegal ==
    ASSUME IInv, NEW t \in Threads, Doing(t, "FLUSHED")
    PROVE  replayed[cur[t]].mapped
<1>1. /\ call[t] # "none" /\ at[t] \in 1..Len(Hooks[call[t]])
      /\ Hooks[call[t]][at[t]] = "FLUSHED" /\ Loop(call[t], Hooks[call[t]])
      /\ Len(Hooks[call[t]]) \in Nat
    BY Place DEF IInv, Doing, Order
<1>2. Flushing(t) /\ Looping(t)
  <2> DEFINE h == Hooks[call[t]]
             i == at[t]
  <2>1. PICK j \in 1..i : h[j] = "each"
    BY <1>1 DEF Loop
  <2>2. i \in 1..Len(h) /\ h[i] = "FLUSHED"
    BY <1>1
  <2> HIDE DEF h, i
  <2>3. j \in 1..i-1 /\ i \in i..Len(h)
    BY <1>1, <2>1, <2>2
  <2>4. InFlush(h, i) /\ InLoop(h, i)
    BY <2>1, <2>2, <2>3 DEF InFlush, InLoop
  <2> QED BY <1>1, <2>4 DEF Flushing, Looping, h, i
<1>3. Holds(t, "map") /\ call[t] \in Flushers
    BY <1>1, <1>2 DEF Loop, Looping, Holds
<1>4. cur[t] \in mapped /\ cur[t] \in Handles
  <2>1. cur[t] # NoHandle
    BY <1>2 DEF IInv, LoopInv
  <2> QED BY <2>1 DEF IInv, LoopInv, TypeOK, TypeDriver
<1>5. ASSUME NEW u \in Threads, mem[u] = cur[t], Remaps(u) PROVE FALSE
  <2>1. CASE call[u] = "vkMapMemory" /\ Pending(u, "remember")
    <3>1. Holds(u, "map")
      BY <2>1, Place DEF IInv, Pending, Did, Locking, Holds
    <3>2. u = t
      BY <1>3, <3>1, Exclusive DEF IInv, Locks
    <3> QED BY <1>3, <2>1, <3>2 DEF Flushers
  <2>2. CASE call[u] \in {"vkUnmapMemory", "vkFreeMemory"} /\ Pending(u, "forget")
    BY <1>4, <1>5, <2>2 DEF IInv, MemoryInv, MappedInv, Pending
  <2> QED BY <1>5, <2>1, <2>2 DEF Remaps
<1> QED BY <1>4, <1>5 DEF IInv, MemoryInv, ReplayedInv

\* So is what the packet of a call says of its memory.
LEMMA CallIsLegal ==
    ASSUME IInv, NEW t \in Threads, Doing(t, "FINISH")
    PROVE  /\ call[t] = "vkAllocateMemory" => mem[t] \in Handles /\ replayed[mem[t]].id = 0
           /\ call[t] = "vkMapMemory" =>
                mem[t] \in Handles /\ replayed[mem[t]].id # 0 /\ ~replayed[mem[t]].mapped
           /\ call[t] \in OnMapped => mem[t] \in Handles /\ replayed[mem[t]].mapped
           /\ call[t] = "vkFreeMemory" => mem[t] \in Handles /\ replayed[mem[t]].id # 0
<1>1. Did(t, "driver") /\ ~Did(t, "FINISH")
    BY Place DEF IInv, Doing, Order, Did, Once
<1>2. /\ call[t] = "vkAllocateMemory" => mem[t] \in Handles
      /\ call[t] \in OnHandle => mem[t] \in Handles
    BY <1>1 DEF IInv, MemoryInv, CallInv
<1>3. call[t] = "vkMapMemory" => replayed[mem[t]].id # 0
  <2> SUFFICES ASSUME call[t] = "vkMapMemory" PROVE replayed[mem[t]].id # 0
    OBVIOUS
  <2>1. mem[t] \in Handles /\ memory[mem[t]] # 0
    BY DEF IInv, MemoryInv, CallInv, OnHandle
  <2>2. \A u \in Threads : mem[u] = mem[t] => ~Remakes(u)
    BY <2>1 DEF IInv, MemoryInv, OwnInv, Reuses, Remakes
  <2> QED BY <2>1, <2>2 DEF IInv, MemoryInv, ReplayedInv
<1> QED BY <1>1, <1>2, <1>3 DEF IInv, MemoryInv, ReplayedInv, OnHandle

\* The replay can do what every packet says, in the order of the packets: memory
\* is allocated before it is mapped, flushed and freed, and freed before its
\* handle comes again, with and without TraceLock.
THEOREM TraceIsLegal == Spec => []ReplayIsLegal
<1>1. IInv => ReplayIsLegal
  <2> SUFFICES ASSUME IInv, NEW t \in Threads, Doing(t, "FLUSHED") \/ Doing(t, "FINISH")
               PROVE  Replayable(t)
    BY DEF ReplayIsLegal
  <2>1. CASE Doing(t, "FLUSHED")
    BY <2>1, FlushIsLegal DEF Replayable
  <2>2. CASE Doing(t, "FINISH")
    <3>1. ~Doing(t, "FLUSHED")
      BY <2>2 DEF Doing
    <3>2. mem[t] \in Handles => mem[t] # NoHandle
      BY NoOneIsNone
    <3>3. CASE call[t] = "vkAllocateMemory"
      BY <2>2, <3>1, <3>2, <3>3, CallIsLegal DEF Replayable
    <3>4. CASE call[t] = "vkMapMemory"
      BY <2>2, <3>1, <3>2, <3>4, CallIsLegal DEF Replayable
    <3>5. CASE call[t] \in OnMapped
      BY <2>2, <3>1, <3>2, <3>5, CallIsLegal DEF Replayable, OnMapped
    <3>6. CASE call[t] = "vkFreeMemory"
      BY <2>2, <3>1, <3>2, <3>6, CallIsLegal DEF Replayable, OnMapped
    <3>7. CASE call[t] \notin OnHandle \union {"vkAllocateMemory"}
      BY <2>2, <3>1, <3>7 DEF Replayable, OnHandle
    <3> QED BY <3>3, <3>4, <3>5, <3>6, <3>7 DEF OnHandle
  <2> QED BY <2>1, <2>2
<1> QED BY <1>1, Invariance, PTL
===============================================================================
