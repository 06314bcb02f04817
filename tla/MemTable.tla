------------------------------- MODULE MemTable -------------------------------
(***************************************************************************)
(* g_memInfo of the tracing layer (vktrace_lib_helpers.h): an array with   *)
(* one entry for each VkDeviceMemory, found again by its handle, with the  *)
(* entry that was mapped last as a short cut.  A pointer to an entry is    *)
(* the block of memory that the array had and an index; realloc may move   *)
(* the array to another block.                                             *)
(***************************************************************************)
EXTENDS Integers, FiniteSets

CONSTANTS
    FirstCapacity,  \* the capacity that init_mem_info allocates
    NoHandle        \* VK_NULL_HANDLE

ASSUME CapacityIsPositive == FirstCapacity \in Nat \ {0}

(* id tells the memories apart that had the same handle one after the other. *)
Unused == [valid |-> FALSE, handle |-> NoHandle, id |-> 0]
Null == <<0, 0>>

(* VKMemInfo: pEntrys is the pair of block and entries. *)
NoTable == [block |-> 1, entries |-> [i \in {} |-> Unused], numEntrys |-> 0, last |-> Null]

Capacity(tab) == Cardinality(DOMAIN tab.entries)

(* The pointer p is Null or points into the array of tab. *)
Points(tab, p) == p = Null \/ (p[1] = tab.block /\ p[2] \in DOMAIN tab.entries)

Matches(e, h) == e.valid /\ e.handle = h

(* find_mem_info_entry without the short cut. *)
Scan(tab, h) ==
    LET hits == {i \in 1..tab.numEntrys : Matches(tab.entries[i], h)}
    IN  IF hits = {} THEN Null
        ELSE <<tab.block, CHOOSE i \in hits : \A j \in hits : i <= j>>

(* find_mem_info_entry: what it may return.  A pLastMapped that points to freed
   memory may match or not. *)
Find(tab, h) ==
    IF tab.last = Null THEN {Scan(tab, h)}
    ELSE IF ~Points(tab, tab.last) THEN {tab.last, Scan(tab, h)}
    ELSE IF Matches(tab.entries[tab.last[2]], h) THEN {tab.last}
    ELSE {Scan(tab, h)}

(* init_mem_info, when the array has been deleted. *)
Inited(tab) ==
    IF Capacity(tab) = 0
    THEN [tab EXCEPT !.entries = [i \in 1..FirstCapacity |-> Unused], !.numEntrys = 0, !.last = Null]
    ELSE tab

(* get_mem_info_entry: the array grows to twice its size, in place or elsewhere. *)
Grown(tab) ==
    LET twice == [i \in 1..2 * Capacity(tab) |->
                    IF i \in DOMAIN tab.entries THEN tab.entries[i] ELSE Unused]
    IN  {[tab EXCEPT !.entries = twice, !.block = b] : b \in {tab.block, tab.block + 1}}

(* Mutant of Added: the array grows one entry too late. *)
AddedLate(tab, h, id) ==
    LET t == Inited(tab)
        free == {i \in 1..t.numEntrys : ~t.entries[i].valid}
        roomy == IF free = {} /\ t.numEntrys > Capacity(t) THEN Grown(t) ELSE {t}
        slot == IF free = {} THEN t.numEntrys + 1 ELSE CHOOSE i \in free : \A j \in free : i <= j
    IN  {[u EXCEPT !.entries[slot] = [valid |-> TRUE, handle |-> h, id |-> id],
                   !.numEntrys = IF free = {} THEN slot ELSE @] : u \in roomy}

(* add_new_handle_to_mem_info, get_mem_info_entry: the first entry that is free. *)
Added(tab, h, id) ==
    LET t == Inited(tab)
        free == {i \in 1..t.numEntrys : ~t.entries[i].valid}
        roomy == IF free = {} /\ t.numEntrys = Capacity(t) THEN Grown(t) ELSE {t}
        slot == IF free = {} THEN t.numEntrys + 1 ELSE CHOOSE i \in free : \A j \in free : i <= j
    IN  {[u EXCEPT !.entries[slot] = [valid |-> TRUE, handle |-> h, id |-> id],
                   !.numEntrys = IF free = {} THEN slot ELSE @] : u \in roomy}

(* rm_handle_from_mem_info: numEntrys falls to the last valid entry. *)
Shrunk(tab) ==
    LET used == {i \in 1..tab.numEntrys : tab.entries[i].valid}
    IN  IF used = {} THEN [NoTable EXCEPT !.block = tab.block]
        ELSE [tab EXCEPT !.numEntrys = CHOOSE i \in used : \A j \in used : i >= j]

(* rm_handle_from_mem_info with the entry that it has found; an entry in freed memory
   is cleared there and nowhere else. *)
Removed(tab, e) ==
    LET cleared == IF Points(tab, e) THEN [tab EXCEPT !.entries[e[2]] = Unused] ELSE tab
    IN  IF e = Null THEN tab
        ELSE Shrunk([cleared EXCEPT !.last = IF @ = e THEN Null ELSE @])
===============================================================================
