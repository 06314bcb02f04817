--------------------------- MODULE TraceCallsProps ---------------------------
(***************************************************************************)
(* What the order of the packets owes the replay, and the interceptors the *)
(* application.                                                            *)
(***************************************************************************)
EXTENDS TraceCalls

Entry == [valid : BOOLEAN, handle : Handles \cup {NoHandle}, id : Nat]

TypeThreads ==
    /\ locked \in BOOLEAN
    /\ lock \in [Locks -> Threads \cup {NoThread}]
    /\ call \in [Threads -> DOMAIN Hooks \cup {"none"}]
    /\ at \in [Threads -> Nat]
    /\ \A t \in Threads : at[t] \in IF call[t] = "none" THEN {0} ELSE DOMAIN Hooks[call[t]]
    /\ calls \in 0..MaxCalls
    /\ mem \in [Threads -> Handles \cup {NoHandle}]
    /\ cur \in [Threads -> Handles \cup {NoHandle}]
    /\ todo \in [Threads -> SUBSET Handles]
    /\ found \in [Threads -> Nat \X Nat]
    /\ index \in [Threads -> Nat] /\ exec \in [Threads -> Nat]

TypeTable ==
    /\ \A i \in DOMAIN table.entries : table.entries[i] \in Entry
    /\ table.numEntrys \in 0..Capacity(table)

TypeDriver ==
    /\ memory \in [Handles -> Nat] /\ ids \in Nat
    /\ mapped \in SUBSET Handles
    /\ fence \in {"unsubmitted", "submitted", "signalled"}
    /\ event \in BOOLEAN
    /\ execs \in Nat

TypeTrace ==
    /\ packets \in Nat
    /\ written \in [index : Nat, exec : Nat]
    /\ replayed \in [Handles -> [id : Nat, mapped : BOOLEAN]]

(* Every variable has the type its declaration gives it, and every thread is at a step
   of its interceptor. *)
TypeOK == TypeThreads /\ TypeTable /\ TypeDriver /\ TypeTrace

(* Packets come to the trace in the order of their indices (vktrace_create_trace_packet
   keeps s_trace_lock until vktrace_delete_trace_packet). *)
IndexOrder == [][written'.index # written.index => written'.index > written.index]_vars

(* With TraceLock the packets come in the order in which the driver did the calls, also
   those of interceptors that call the driver before they create their packet
   (VKTRACE_ENABLE_TRACE_LOCK, vktrace.md:193). *)
ExecOrder == [][locked /\ written'.exec # written.exec => written'.exec > written.exec]_vars

(* The replay can do what the next packet of thread t says. *)
Replayable(t) ==
    LET r == IF Doing(t, "FLUSHED") THEN replayed[cur[t]]
             ELSE IF mem[t] # NoHandle THEN replayed[mem[t]]
             ELSE [id |-> 0, mapped |-> FALSE]
    IN  \/ Doing(t, "FLUSHED") /\ r.mapped
        \/ Doing(t, "FINISH")
           /\ CASE call[t] = "vkAllocateMemory" -> r.id = 0
                [] call[t] = "vkMapMemory" -> r.id # 0 /\ ~r.mapped
                [] call[t] \in OnMapped -> r.mapped
                [] call[t] = "vkFreeMemory" -> r.id # 0
                [] OTHER -> TRUE

(* In the trace every handle is allocated before it is mapped, flushed or freed, and
   freed before the driver gives it out again, even without TraceLock and although the
   driver may reuse a handle as soon as it is free (vkAllocateMemory and vkFreeMemory
   call the driver while they hold s_trace_lock). *)
ReplayIsLegal ==
    \A t \in Threads : Doing(t, "FLUSHED") \/ Doing(t, "FINISH") => Replayable(t)

(* An entry of g_memInfo that an interceptor uses is the one that was made for this very
   memory, not one of an earlier memory with the same handle. *)
EntriesAreOwn ==
    \A t \in Threads : Doing(t, "use") =>
        /\ found[t] # Null
        /\ Points(table, found[t])
        /\ table.entries[found[t][2]] =
                [valid |-> TRUE, handle |-> Subject(t), id |-> memory[Subject(t)]]

(* With TraceLock, and as long as the array does not have to grow, every interceptor uses
   the entry of its memory (assert(entry->handle == memory), vktrace_lib_trace.cpp:602).
   An array that moves leaves pLastMapped behind, and then vkFreeMemory clears the entry
   in the old block and leaves the one in the array for the next memory with its handle. *)
FoundIsOwn == locked /\ Cardinality(Handles) <= FirstCapacity => EntriesAreOwn

(* Every call returns: the locks are taken in an order in which no threads wait for
   each other in a circle. *)
CallsReturn == \A t \in Threads : call[t] # "none" ~> call[t] = "none"
=============================================================================
