------------------------------ MODULE TraceCalls ------------------------------
(***************************************************************************)
(* Calls of several threads through the tracing layer (vktrace_layer):     *)
(* which locks an interceptor takes in which order, when it calls the      *)
(* driver, and when its packet is numbered and written.                    *)
(*                                                                         *)
(* CREATE_TRACE_PACKET takes s_trace_lock and the next packet index;       *)
(* FINISH_TRACE_PACKET writes the packet and gives the lock back.  Most    *)
(* interceptors call the driver in between, some before.  TraceLock is a   *)
(* lock around each interceptor that is off unless                         *)
(* VKTRACE_ENABLE_TRACE_LOCK is set.                                       *)
(***************************************************************************)
EXTENDS MemTable, Sequences

CONSTANTS
    Threads,    \* the threads of the application
    Handles,    \* the VkDeviceMemory values that the driver hands out
    MaxCalls,   \* bound on the calls of all threads
    AwaitsEvent, \* the job waits for an event that the application sets with vkSetEvent
    NoThread    \* nobody holds the lock

ASSUME FlagsAreBooleans == AwaitsEvent \in BOOLEAN
ASSUME CallsAreCounted == MaxCalls \in Nat
ASSUME NoOneIsNone == NoThread \notin Threads /\ NoHandle \notin Handles
ASSUME HandlesAreFinite == IsFiniteSet(Handles)

Locks == {"api", "map", "trace", "info"}

VARIABLES
    locked,     \* g_TraceLockEnabled
    lock,       \* who holds g_mutex_trace, map_lock_sem_id, s_trace_lock, g_memInfoLock
    call,       \* the interceptor that each thread is in
    at,         \* its next step there
    calls,      \* the calls begun so far
    mem,        \* the memory object of the call
    cur,        \* the memory that a flush handles
    todo,       \* the memories that it has still to handle
    found,      \* pEntry, entry: the pointer that find_mem_info_entry returned
    index,      \* pHeader->global_packet_index
    exec,       \* when the driver did the call (history)
    table,      \* g_memInfo
    memory,     \* the driver: the id of the memory object behind each handle, or 0
    ids,        \* the ids given so far
    mapped,     \* PageGuardCapture::MapMemory
    fence,      \* the fence of the job
    event,      \* the event that the job waits for is set
    packets,    \* s_packet_index
    execs,      \* the calls that the driver has done
    written,    \* the index and the exec of the last packet of a call (history)
    replayed    \* what the packets written so far make of the handles on replay (history)

threadVars == <<call, at, calls, mem, cur, todo, found, index, exec>>
driverVars == <<memory, ids, mapped, fence, event, execs>>
traceVars == <<packets, written, replayed>>
vars == <<locked, lock, threadVars, table, driverVars, traceVars>>

-----------------------------------------------------------------------------
(* The interceptors, as the order of their steps. *)

(* The packet of vkFlushMappedMemoryRangesWithoutAPICall for each memory to do. *)
Flushes == <<"each", "CREATE", "enterInfo", "find", "use", "leaveInfo", "FLUSHED">>

(* flushAllChangedMappedMemory looks every memory up before it flushes it. *)
FlushesAll == <<"each", "find", "use", "CREATE", "enterInfo", "find", "use", "leaveInfo", "FLUSHED">>

AllocateMemory == <<"CREATE", "driver", "FINISH", "add">>

(* Mutant of FreeMemory: the driver frees the memory before the packet is created. *)
FreeMemoryFirst == <<"enterMap">> \o Flushes \o <<"forget", "leaveMap", "driver", "CREATE", "FINISH", "remove">>

(* Mutant of FreeMemory: rm_handle_from_mem_info is not called. *)
FreeMemoryLeaves == <<"enterMap">> \o Flushes \o <<"forget", "leaveMap", "CREATE", "driver", "FINISH">>

FreeMemory == <<"enterMap">> \o Flushes \o <<"forget", "leaveMap", "CREATE", "driver", "FINISH", "remove">>

(* Mutant of MapMemory: the packet is created before pageguardEnter. *)
MapMemoryLate == <<"CREATE", "enterMap", "driver", "find", "use", "remember", "data", "FINISH", "leaveMap">>

MapMemory == <<"enterMap", "CREATE", "driver", "find", "use", "remember", "data", "FINISH", "leaveMap">>

UnmapMemory == <<"enterMap">> \o Flushes \o
    <<"forget", "enterInfo", "find", "CREATE", "use", "leaveInfo", "driver", "FINISH", "leaveMap">>

FlushRanges ==
    <<"enterMap", "CREATE", "enterInfo", "find", "use", "leaveInfo", "driver", "FINISH", "leaveMap">>

InvalidateRanges ==
    <<"enterMap", "find", "use", "CREATE", "enterInfo", "find", "use", "leaveInfo",
      "driver", "FINISH", "leaveMap">>

QueueSubmit == <<"enterMap">> \o FlushesAll \o <<"CREATE", "driver", "FINISH", "leaveMap">>

WaitForFences == <<"CREATE", "driver", "FINISH">>

SetEvent == <<"CREATE", "driver", "FINISH">>

GetQueryPoolResults == <<"driver", "CREATE", "FINISH">>

(* Mutant of Guarded: the lock is given back as soon as it is taken. *)
GuardedBriefly(steps) == <<"enterApi", "leaveApi">> \o steps \o <<"return">>

(* trim::TraceLock around an interceptor. *)
Guarded(steps) == <<"enterApi">> \o steps \o <<"leaveApi", "return">>

Hooks == [
    vkAllocateMemory      |-> Guarded(AllocateMemory),
    vkFreeMemory          |-> Guarded(FreeMemory),
    vkMapMemory           |-> Guarded(MapMemory),
    vkUnmapMemory         |-> Guarded(UnmapMemory),
    vkFlushMappedMemoryRanges      |-> Guarded(FlushRanges),
    vkInvalidateMappedMemoryRanges |-> Guarded(InvalidateRanges),
    vkQueueSubmit         |-> Guarded(QueueSubmit),
    vkWaitForFences       |-> Guarded(WaitForFences),
    vkSetEvent            |-> Guarded(SetEvent),
    vkGetQueryPoolResults |-> Guarded(GetQueryPoolResults)]

(* The calls that name mapped memory. *)
OnMapped == {"vkUnmapMemory", "vkFlushMappedMemoryRanges", "vkInvalidateMappedMemoryRanges"}

-----------------------------------------------------------------------------
Init ==
    /\ locked \in BOOLEAN
    /\ lock = [l \in Locks |-> NoThread]
    /\ call = [t \in Threads |-> "none"]
    /\ at = [t \in Threads |-> 0]
    /\ calls = 0
    /\ mem = [t \in Threads |-> NoHandle]
    /\ cur = [t \in Threads |-> NoHandle]
    /\ todo = [t \in Threads |-> {}]
    /\ found = [t \in Threads |-> Null]
    /\ index = [t \in Threads |-> 0]
    /\ exec = [t \in Threads |-> 0]
    /\ table = NoTable
    /\ memory = [h \in Handles |-> 0]
    /\ ids = 0
    /\ mapped = {}
    /\ fence = "unsubmitted"
    /\ event = ~AwaitsEvent
    /\ packets = 0
    /\ execs = 0
    /\ written = [index |-> 0, exec |-> 0]
    /\ replayed = [h \in Handles |-> [id |-> 0, mapped |-> FALSE]]

(* Thread t is about to do step s. *)
Doing(t, s) == call[t] # "none" /\ Hooks[call[t]][at[t]] = s

Advance(t) == at' = [at EXCEPT ![t] = @ + 1]

-----------------------------------------------------------------------------
(* The application keeps the rules of Vulkan: it names memory only after the call that
   allocated it has returned, and no two calls name one memory object at once. *)
Usable(h) == memory[h] # 0 /\ \A t \in Threads : mem[t] # h

(* A handle is left for every call of vkAllocateMemory that is under way. *)
RoomToAllocate ==
    Cardinality({h \in Handles : memory[h] = 0}) >
    Cardinality({t \in Threads : call[t] = "vkAllocateMemory" /\ mem[t] = NoHandle})

(* The application waits for a job once the event it awaits is set or being set. *)
EventWillBeSet == event \/ \E t \in Threads : call[t] = "vkSetEvent"

MayCall(name, h) ==
    CASE name = "vkAllocateMemory" -> h = NoHandle /\ RoomToAllocate
      [] name = "vkMapMemory" -> h \in Handles /\ Usable(h) /\ h \notin mapped
      [] name \in OnMapped -> h \in Handles /\ Usable(h) /\ h \in mapped
      [] name = "vkFreeMemory" -> h \in Handles /\ Usable(h)
      [] name = "vkQueueSubmit" -> h = NoHandle /\ fence = "unsubmitted"
                                   /\ \A t \in Threads : call[t] # "vkQueueSubmit"
      [] name = "vkWaitForFences" -> h = NoHandle /\ fence # "unsubmitted" /\ EventWillBeSet
      [] name = "vkSetEvent" -> h = NoHandle /\ ~event
      [] OTHER -> h = NoHandle

Call(t, name, h) ==
    /\ call[t] = "none"
    /\ calls < MaxCalls
    /\ MayCall(name, h)
    /\ call' = [call EXCEPT ![t] = name]
    /\ at' = [at EXCEPT ![t] = 1]
    /\ calls' = calls + 1
    /\ mem' = [mem EXCEPT ![t] = h]
    /\ UNCHANGED <<locked, lock, cur, todo, found, index, exec, table, driverVars, traceVars>>

Return(t) ==
    /\ Doing(t, "return")
    /\ call' = [call EXCEPT ![t] = "none"]
    /\ at' = [at EXCEPT ![t] = 0]
    /\ mem' = [mem EXCEPT ![t] = NoHandle]
    /\ cur' = [cur EXCEPT ![t] = NoHandle]
    /\ found' = [found EXCEPT ![t] = Null]
    /\ index' = [index EXCEPT ![t] = 0]
    /\ exec' = [exec EXCEPT ![t] = 0]
    /\ UNCHANGED <<locked, lock, calls, todo, table, driverVars, traceVars>>

-----------------------------------------------------------------------------
(* Locks. *)

Take(t, l) == lock[l] = NoThread /\ lock' = [lock EXCEPT ![l] = t]
GiveBack(l) == lock' = [lock EXCEPT ![l] = NoThread]

(* The constructor of TraceLock does nothing unless locked. *)
EnterApi(t) ==
    /\ Doing(t, "enterApi")
    /\ IF locked THEN Take(t, "api") ELSE UNCHANGED lock
    /\ Advance(t)
    /\ UNCHANGED <<locked, call, calls, mem, cur, todo, found, index, exec, table, driverVars, traceVars>>

LeaveApi(t) ==
    /\ Doing(t, "leaveApi")
    /\ IF locked THEN GiveBack("api") ELSE UNCHANGED lock
    /\ Advance(t)
    /\ UNCHANGED <<locked, call, calls, mem, cur, todo, found, index, exec, table, driverVars, traceVars>>

(* pageguardEnter.  A submission will flush all mapped memory, the calls on one memory
   object that one, if it is mapped. *)
EnterMap(t) ==
    /\ Doing(t, "enterMap")
    /\ Take(t, "map")
    /\ todo' = [todo EXCEPT ![t] =
            IF call[t] = "vkQueueSubmit" THEN mapped
            ELSE IF call[t] \in {"vkUnmapMemory", "vkFreeMemory"} THEN mapped \cap {mem[t]} ELSE {}]
    /\ Advance(t)
    /\ UNCHANGED <<locked, call, calls, mem, cur, found, index, exec, table, driverVars, traceVars>>

(* pageguardExit. *)
LeaveMap(t) ==
    /\ Doing(t, "leaveMap")
    /\ GiveBack("map")
    /\ Advance(t)
    /\ UNCHANGED <<locked, call, calls, mem, cur, todo, found, index, exec, table, driverVars, traceVars>>

(* vktrace_enter_critical_section(&g_memInfoLock). *)
EnterInfo(t) ==
    /\ Doing(t, "enterInfo")
    /\ Take(t, "info")
    /\ Advance(t)
    /\ UNCHANGED <<locked, call, calls, mem, cur, todo, found, index, exec, table, driverVars, traceVars>>

LeaveInfo(t) ==
    /\ Doing(t, "leaveInfo")
    /\ GiveBack("info")
    /\ Advance(t)
    /\ UNCHANGED <<locked, call, calls, mem, cur, todo, found, index, exec, table, driverVars, traceVars>>

-----------------------------------------------------------------------------
(* Packets. *)

(* Mutant of Create: the index is taken before s_trace_lock. *)
CreateNumbered(t) ==
    /\ Doing(t, "CREATE")
    /\ IF index[t] = 0
       THEN /\ packets' = packets + 1
            /\ index' = [index EXCEPT ![t] = packets + 1]
            /\ UNCHANGED <<lock, at>>
       ELSE /\ Take(t, "trace")
            /\ Advance(t)
            /\ UNCHANGED <<packets, index>>
    /\ UNCHANGED <<locked, call, calls, mem, cur, todo, found, exec, table, driverVars, written, replayed>>

(* vktrace_create_trace_packet. *)
Create(t) ==
    /\ Doing(t, "CREATE")
    /\ Take(t, "trace")
    /\ packets' = packets + 1
    /\ index' = [index EXCEPT ![t] = packets + 1]
    /\ Advance(t)
    /\ UNCHANGED <<locked, call, calls, mem, cur, todo, found, exec, table, driverVars, written, replayed>>

(* The end of vkFlushMappedMemoryRangesWithoutAPICall: FINISH_TRACE_PACKET, or
   vktrace_delete_trace_packet when no page was dirty. *)
Flushed(t) ==
    /\ Doing(t, "FLUSHED")
    /\ GiveBack("trace")
    /\ written' \in {written, [written EXCEPT !.index = index[t]]}
    /\ index' = [index EXCEPT ![t] = 0]
    /\ at' = [at EXCEPT ![t] = CHOOSE i \in 1..at[t] : Hooks[call[t]][i] = "each"]
    /\ UNCHANGED <<locked, call, calls, mem, cur, todo, found, exec, table, driverVars, packets, replayed>>

(* FINISH_TRACE_PACKET. *)
Finish(t) ==
    /\ Doing(t, "FINISH")
    /\ GiveBack("trace")
    /\ written' = [index |-> index[t], exec |-> exec[t]]
    /\ index' = [index EXCEPT ![t] = 0]
    /\ replayed' =
         CASE call[t] = "vkAllocateMemory" -> [replayed EXCEPT ![mem[t]].id = memory[mem[t]]]
           [] call[t] = "vkFreeMemory" -> [replayed EXCEPT ![mem[t]] = [id |-> 0, mapped |-> FALSE]]
           [] call[t] = "vkMapMemory" -> [replayed EXCEPT ![mem[t]].mapped = TRUE]
           [] call[t] = "vkUnmapMemory" -> [replayed EXCEPT ![mem[t]].mapped = FALSE]
           [] OTHER -> replayed
    /\ Advance(t)
    /\ UNCHANGED <<locked, call, calls, mem, cur, todo, found, exec, table, driverVars, packets>>

-----------------------------------------------------------------------------
(* The flush of all the memories to do: the next one, or on to what follows. *)
Each(t) ==
    /\ Doing(t, "each")
    /\ \/ /\ todo[t] = {}
          /\ cur' = [cur EXCEPT ![t] = NoHandle]
          /\ at' = [at EXCEPT ![t] = 1 + CHOOSE i \in 1..Len(Hooks[call[t]]) : Hooks[call[t]][i] = "FLUSHED"]
          /\ UNCHANGED todo
       \/ \E h \in todo[t] :
          /\ cur' = [cur EXCEPT ![t] = h]
          /\ todo' = [todo EXCEPT ![t] = @ \ {h}]
          /\ Advance(t)
    /\ UNCHANGED <<locked, lock, call, calls, mem, found, index, exec, table, driverVars, traceVars>>

(* The memory whose entry is looked for. *)
Subject(t) == IF cur[t] # NoHandle THEN cur[t] ELSE mem[t]

(* find_mem_info_entry, with or without g_memInfoLock. *)
FindEntry(t) ==
    /\ Doing(t, "find")
    /\ \E e \in Find(table, Subject(t)) : found' = [found EXCEPT ![t] = e]
    /\ Advance(t)
    /\ UNCHANGED <<locked, lock, call, calls, mem, cur, todo, index, exec, table, driverVars, traceVars>>

(* The entry is read or its didFlush or pData written. *)
UseEntry(t) ==
    /\ Doing(t, "use")
    /\ found' = [found EXCEPT ![t] = Null]
    /\ Advance(t)
    /\ UNCHANGED <<locked, lock, call, calls, mem, cur, todo, index, exec, table, driverVars, traceVars>>

(* add_new_handle_to_mem_info; its critical section touches nothing else. *)
AddEntry(t) ==
    /\ Doing(t, "add")
    /\ lock["info"] = NoThread
    /\ table' \in Added(table, mem[t], memory[mem[t]])
    /\ Advance(t)
    /\ UNCHANGED <<locked, lock, call, calls, mem, cur, todo, found, index, exec, driverVars, traceVars>>

(* add_data_to_mem_info. *)
MapEntry(t) ==
    /\ Doing(t, "data")
    /\ lock["info"] = NoThread
    /\ \E e \in Find(table, mem[t]) : table' = [table EXCEPT !.last = e]
    /\ Advance(t)
    /\ UNCHANGED <<locked, lock, call, calls, mem, cur, todo, found, index, exec, driverVars, traceVars>>

(* rm_handle_from_mem_info. *)
RemoveEntry(t) ==
    /\ Doing(t, "remove")
    /\ lock["info"] = NoThread
    /\ \E e \in Find(table, mem[t]) : table' = Removed(table, e)
    /\ Advance(t)
    /\ UNCHANGED <<locked, lock, call, calls, mem, cur, todo, found, index, exec, driverVars, traceVars>>

(* PageGuardCapture::vkMapMemoryPageGuardHandle and vkUnmapMemoryPageGuardHandle. *)
Remember(t) ==
    /\ \/ Doing(t, "remember") /\ mapped' = mapped \cup {mem[t]}
       \/ Doing(t, "forget") /\ mapped' = mapped \ {mem[t]}
    /\ Advance(t)
    /\ UNCHANGED <<locked, lock, call, calls, mem, cur, todo, found, index, exec, table,
                   memory, ids, fence, event, execs, traceVars>>

-----------------------------------------------------------------------------
(* The driver does the call; vkWaitForFences has no timeout. *)
Driver(t) ==
    /\ Doing(t, "driver")
    /\ call[t] = "vkWaitForFences" => fence = "signalled"
    /\ IF call[t] = "vkAllocateMemory"
       THEN \E h \in Handles :
              /\ memory[h] = 0
              /\ memory' = [memory EXCEPT ![h] = ids + 1]
              /\ ids' = ids + 1
              /\ mem' = [mem EXCEPT ![t] = h]
       ELSE /\ memory' = IF call[t] = "vkFreeMemory" THEN [memory EXCEPT ![mem[t]] = 0] ELSE memory
            /\ UNCHANGED <<ids, mem>>
    /\ fence' = IF call[t] = "vkQueueSubmit" THEN "submitted" ELSE fence
    /\ event' = (event \/ call[t] = "vkSetEvent")
    /\ execs' = execs + 1
    /\ exec' = [exec EXCEPT ![t] = execs + 1]
    /\ Advance(t)
    /\ UNCHANGED <<locked, lock, call, calls, cur, todo, found, index, table, mapped, traceVars>>

(* The device finishes the job once the event that it awaits is set. *)
Signal ==
    /\ fence = "submitted" /\ event
    /\ fence' = "signalled"
    /\ UNCHANGED <<locked, lock, threadVars, table, memory, ids, mapped, event, execs, traceVars>>

-----------------------------------------------------------------------------
Step(t) ==
    \/ EnterApi(t) \/ LeaveApi(t) \/ EnterMap(t) \/ LeaveMap(t) \/ EnterInfo(t) \/ LeaveInfo(t)
    \/ Create(t) \/ Finish(t) \/ Flushed(t) \/ Each(t)
    \/ FindEntry(t) \/ UseEntry(t) \/ AddEntry(t) \/ MapEntry(t) \/ RemoveEntry(t) \/ Remember(t)
    \/ Driver(t) \/ Return(t)

Next ==
    \/ Signal
    \/ \E t \in Threads :
        \/ Step(t)
        \/ \E name \in DOMAIN Hooks, h \in Handles \cup {NoHandle} : Call(t, name, h)

Spec == Init /\ [][Next]_vars

(* Every thread that can run does, and the device finishes its jobs.  The threads make
   boundedly many calls, so that none waits for a lock that is taken again and again. *)
Fairness == WF_vars(Signal) /\ \A t \in Threads : WF_vars(Step(t))

FairSpec == Spec /\ Fairness
===============================================================================
