-------------------------- MODULE TraceTable_proofs --------------------------
(***************************************************************************)
(* Proofs about g_memInfo under TraceLock: as long as pLastMapped points   *)
(* into the array, and therefore always when the array does not have to    *)
(* grow, an interceptor finds the entry of its own memory.                 *)
(***************************************************************************)
EXTENDS TraceCalls_proofs

-----------------------------------------------------------------------------
(* Entries, and how they follow the driver's memory.                       *)

InUse(tab) == {i \in DOMAIN tab.entries : tab.entries[i].valid}
Held(tab) == {tab.entries[i] : i \in InUse(tab)}

\* A table that has one entry for each of its handles, all of them among the first
\* numEntrys, and pLastMapped in the array.
Tidy(tab) ==
    /\ Points(tab, tab.last)
    /\ \A i \in InUse(tab) : i <= tab.numEntrys /\ tab.entries[i].handle \in Handles
    /\ \A i, j \in InUse(tab) : tab.entries[i].handle = tab.entries[j].handle => i = j

\* Between "find" and "use" a thread has found an entry.
Seeks(s, i) == \E k \in 1..i-1 : s[k] = "find" /\ \A m \in k+1..i-1 : s[m] # "use"
Sought(t) == call[t] # "none" /\ Seeks(Hooks[call[t]], at[t])

\* Memory that has no entry yet, and an entry whose memory is gone.
Unlisted(t) == call[t] = "vkAllocateMemory" /\ Did(t, "driver") /\ ~Did(t, "add")
Delisting(t) == call[t] = "vkFreeMemory" /\ Did(t, "driver") /\ ~Did(t, "remove")

\* The table has the driver's memory, except for the call under way.
ListInv ==
    /\ \A e \in Held(table) :
         \/ e.id = memory[e.handle] /\ e.id # 0
         \/ \E t \in Threads : Delisting(t) /\ mem[t] = e.handle
    /\ \A h \in Handles : memory[h] # 0 =>
         \/ \E e \in Held(table) : e.handle = h
         \/ \E t \in Threads : Unlisted(t) /\ mem[t] = h
    /\ \A t \in Threads : Delisting(t) => mem[t] \in Handles /\ memory[mem[t]] = 0
    /\ \A t \in Threads : Unlisted(t) => mem[t] \in Handles /\ \A e \in Held(table) : e.handle # mem[t]

\* What has been found is the entry of a memory that exists.
SoughtInv ==
    \A t \in Threads : Sought(t) =>
        /\ Subject(t) \in Handles /\ memory[Subject(t)] # 0
        /\ found[t][1] = table.block /\ found[t][2] \in InUse(table)
        /\ table.entries[found[t][2]].handle = Subject(t)

EntryInv == Tidy(table) /\ ListInv /\ SoughtInv

-----------------------------------------------------------------------------
(* What the texts say of it.                                               *)

\* Entries are looked up, used, made and removed under TraceLock; between a look-up and
\* the use there is at most the creation of the packet; an entry is made after the driver
\* has made the memory, and removed after the driver has freed it.
Looks(n, s) ==
    /\ \A i \in 1..Len(s) :
         /\ s[i] \in {"find", "use", "add", "data", "remove", "driver"} => Between(s, i, "api")
         /\ s[i] = "use" => Seeks(s, i)
         /\ Seeks(s, i) => Between(s, i, "api") /\ s[i] \in {"CREATE", "use"}
         /\ s[i] = "find" => n \in OnHandle \/ InFlush(s, i)
         /\ s[i] = "find" /\ n = "vkFreeMemory" => ~Past(s, i, "driver")
         /\ s[i] = "data" => n = "vkMapMemory"
         /\ s[i] = "add" => n = "vkAllocateMemory" /\ Past(s, i, "driver") /\ ~Past(s, i, "add")
         /\ s[i] = "remove" =>
              n = "vkFreeMemory" /\ Past(s, i, "driver") /\ ~Past(s, i, "remove")
         /\ s[i] = "driver" =>
              ~Past(s, i, "driver") /\ ~Past(s, i, "add") /\ ~Past(s, i, "remove")
         /\ n = "vkAllocateMemory" /\ Past(s, i, "driver") /\ ~Past(s, i, "add")
              => Between(s, i, "api")
         /\ n = "vkFreeMemory" /\ Past(s, i, "driver") /\ ~Past(s, i, "remove")
              => Between(s, i, "api")
    /\ \A i \in 1..Len(s), j \in 1..Len(s) : s[i] = "each" /\ s[j] = "FLUSHED" =>
         /\ ~Past(s, i, "driver") /\ ~Past(s, j + 1, "driver")
         /\ ~Seeks(s, i) /\ ~Seeks(s, j + 1) /\ ~Seeks(s, j)

\* The look-ups of each.
LEMMA LooksOfTexts ==
    /\ Looks("vkAllocateMemory", AllocateMemoryText)
    /\ Looks("vkFreeMemory", FreeMemoryText)
    /\ Looks("vkMapMemory", MapMemoryText)
    /\ Looks("vkUnmapMemory", UnmapMemoryText)
    /\ Looks("vkFlushMappedMemoryRanges", FlushRangesText)
    /\ Looks("vkInvalidateMappedMemoryRanges", InvalidateRangesText)
    /\ Looks("vkQueueSubmit", QueueSubmitText)
    /\ Looks("vkWaitForFences", WaitForFencesText)
    /\ Looks("vkSetEvent", SetEventText)
    /\ Looks("vkGetQueryPoolResults", GetQueryPoolResultsText)
<1>1. Looks("vkAllocateMemory", AllocateMemoryText)
    BY DEF Looks, AllocateMemoryText, Opens, Closes, Between, Past, InFlush, Seeks, OnHandle, OnMapped
<1>2. Looks("vkFreeMemory", FreeMemoryText)
    BY DEF Looks, FreeMemoryText, Opens, Closes, Between, Past, InFlush, Seeks, OnHandle, OnMapped
<1>3. Looks("vkMapMemory", MapMemoryText)
    BY DEF Looks, MapMemoryText, Opens, Closes, Between, Past, InFlush, Seeks, OnHandle, OnMapped
<1>4. Looks("vkUnmapMemory", UnmapMemoryText)
    BY DEF Looks, UnmapMemoryText, Opens, Closes, Between, Past, InFlush, Seeks, OnHandle, OnMapped
<1>5. Looks("vkFlushMappedMemoryRanges", FlushRangesText)
    BY DEF Looks, FlushRangesText, Opens, Closes, Between, Past, InFlush, Seeks, OnHandle, OnMapped
<1>6. Looks("vkInvalidateMappedMemoryRanges", InvalidateRangesText)
    BY DEF Looks, InvalidateRangesText, Opens, Closes, Between, Past, InFlush, Seeks, OnHandle, OnMapped
<1>7. Looks("vkQueueSubmit", QueueSubmitText)
    BY DEF Looks, QueueSubmitText, Opens, Closes, Between, Past, InFlush, Seeks, OnHandle, OnMapped
<1>8. Looks("vkWaitForFences", WaitForFencesText)
    BY DEF Looks, WaitForFencesText, Opens, Closes, Between, Past, InFlush, Seeks, OnHandle, OnMapped
<1>9. Looks("vkSetEvent", SetEventText)
    BY DEF Looks, SetEventText, Opens, Closes, Between, Past, InFlush, Seeks, OnHandle, OnMapped
<1>10. Looks("vkGetQueryPoolResults", GetQueryPoolResultsText)
    BY DEF Looks, GetQueryPoolResultsText, Opens, Closes, Between, Past, InFlush, Seeks, OnHandle, OnMapped
<1> QED BY <1>1, <1>2, <1>3, <1>4, <1>5, <1>6, <1>7, <1>8, <1>9, <1>10

\* So much is known of the look-ups of every interceptor.
LEMMA Lookups ==
    ASSUME NEW n \in Name
    PROVE  Looks(n, Hooks[n])
BY TextsOfHooks, LooksOfTexts DEF Name

-----------------------------------------------------------------------------
(* How a thread that does a step comes to look for an entry, and so on.    *)

\* One step further in a text.
LEMMA SeeksNext ==
    ASSUME NEW s, NEW i \in Nat \ {0}
    PROVE  Seeks(s, i + 1) <=> s[i] = "find" \/ (Seeks(s, i) /\ s[i] # "use")
<1>1. ASSUME Seeks(s, i + 1), s[i] # "find" PROVE Seeks(s, i) /\ s[i] # "use"
  <2>1. PICK k \in 1..i : s[k] = "find" /\ \A m \in k+1..i : s[m] # "use"
    BY <1>1 DEF Seeks
  <2>2. k \in 1..i-1 /\ i \in k+1..i
    BY <1>1, <2>1
  <2> QED BY <2>1, <2>2 DEF Seeks
<1>2. ASSUME s[i] = "find" PROVE Seeks(s, i + 1)
  <2>1. i \in 1..(i + 1) - 1 /\ ~ \E m \in i+1..(i + 1) - 1 : TRUE
    OBVIOUS
  <2> QED BY <1>2, <2>1 DEF Seeks
<1>3. ASSUME Seeks(s, i), s[i] # "use" PROVE Seeks(s, i + 1)
  <2>1. PICK k \in 1..i-1 : s[k] = "find" /\ \A m \in k+1..i-1 : s[m] # "use"
    BY <1>3 DEF Seeks
  <2>2. k \in 1..(i + 1) - 1
    OBVIOUS
  <2>3. ASSUME NEW m \in k+1..(i + 1) - 1 PROVE s[m] # "use"
    <3>1. m = i \/ m \in k+1..i-1
      OBVIOUS
    <3> QED BY <1>3, <2>1, <3>1
  <2> QED BY <2>1, <2>2, <2>3 DEF Seeks
<1> QED BY <1>1, <1>2, <1>3

\* Thread t does step s; the other threads stay where they are.
Marks(t, s) ==
    /\ \A u \in Threads : u # t =>
         /\ Sought(u)' <=> Sought(u)
         /\ Unlisted(u)' <=> Unlisted(u)
         /\ Delisting(u)' <=> Delisting(u)
    /\ Sought(t)' <=> s = "find" \/ (Sought(t) /\ s # "use")
    /\ Unlisted(t)' <=>
         (call[t] = "vkAllocateMemory" /\ s = "driver") \/ (Unlisted(t) /\ s # "add")
    /\ Delisting(t)' <=>
         (call[t] = "vkFreeMemory" /\ s = "driver") \/ (Delisting(t) /\ s # "remove")

\* What is known of a thread depends only on where it is.
LEMMA MarksStay ==
    ASSUME NEW u \in Threads, call'[u] = call[u], at'[u] = at[u]
    PROVE  /\ Sought(u)' <=> Sought(u)
           /\ Unlisted(u)' <=> Unlisted(u)
           /\ Delisting(u)' <=> Delisting(u)
BY DEF Sought, Unlisted, Delisting, Did

\* Where a thread is that has begun a call.
LEMMA LooksOf ==
    ASSUME TypeOK, NEW t \in Threads, call[t] # "none"
    PROVE  Looks(call[t], Hooks[call[t]]) /\ at[t] \in 1..Len(Hooks[call[t]])
BY Place, Lookups

\* A thread that is between such steps, or does one, holds TraceLock, and is at no
\* other step than these.
LEMMA MarkedHolds ==
    ASSUME TypeOK, NEW t \in Threads
    PROVE  /\ Sought(t) \/ Unlisted(t) \/ Delisting(t) => Holds(t, "api")
           /\ \A s \in {"find", "use", "add", "data", "remove", "driver"} :
                Doing(t, s) => Holds(t, "api")
           /\ Sought(t) => Doing(t, "CREATE") \/ Doing(t, "use")
           /\ Doing(t, "use") => Sought(t)
<1>1. CASE call[t] = "none"
    BY <1>1 DEF Sought, Unlisted, Delisting, Doing
<1>2. CASE call[t] # "none"
    BY <1>2, LooksOf DEF Looks, Sought, Unlisted, Delisting, Doing, Holds, Did
<1> QED BY <1>1, <1>2

\* The next step of the text.
LEMMA StepMarks ==
    ASSUME TypeOK, NEW t \in Threads, NEW s, Doing(t, s), Advance(t), UNCHANGED call
    PROVE  Marks(t, s)
<1> DEFINE h == Hooks[call[t]]
           i == at[t]
<1>1. /\ call[t] # "none" /\ h[i] = s /\ i \in 1..Len(h) /\ Len(h) \in Nat
      /\ Looks(call[t], h)
    BY Place, LooksOf DEF Doing, Order
<1>2. at'[t] = i + 1 /\ \A u \in Threads : u # t => at'[u] = at[u]
    BY DEF TypeOK, TypeThreads, Advance
<1>3. /\ Sought(t) <=> Seeks(h, i)
      /\ \A x : Did(t, x) <=> Past(h, i, x)
    BY <1>1 DEF Sought, Did
<1>4. /\ Sought(t)' <=> Seeks(h, i + 1)
      /\ \A x : Did(t, x)' <=> Past(h, i + 1, x)
    BY <1>1, <1>2 DEF Sought, Did
<1> HIDE DEF h, i
<1>5. /\ Sought(t)' <=> s = "find" \/ (Sought(t) /\ s # "use")
      /\ \A x : Did(t, x)' <=> s = x \/ Did(t, x)
    BY <1>1, <1>3, <1>4, SeeksNext, PastNext
<1>6. /\ s = "add" => Did(t, "driver") /\ ~Did(t, "add")
      /\ s = "remove" => Did(t, "driver") /\ ~Did(t, "remove")
      /\ s = "driver" => ~Did(t, "driver") /\ ~Did(t, "add") /\ ~Did(t, "remove")
    BY <1>1, <1>3 DEF Looks
<1>7. /\ Unlisted(t)' <=>
          (call[t] = "vkAllocateMemory" /\ s = "driver") \/ (Unlisted(t) /\ s # "add")
      /\ Delisting(t)' <=>
          (call[t] = "vkFreeMemory" /\ s = "driver") \/ (Delisting(t) /\ s # "remove")
    BY <1>5, <1>6 DEF Unlisted, Delisting
<1> QED BY <1>2, <1>5, <1>7, MarksStay DEF Marks

\* The jumps of the flushes.
LEMMA JumpMarks ==
    ASSUME TypeOK, NEW t \in Threads, NEW s \in {"each", "FLUSHED"}, Doing(t, s),
           NEW k, at' = [at EXCEPT ![t] = k], UNCHANGED call,
           IF s = "each"
           THEN \E j \in 1..Len(Hooks[call[t]]) : Hooks[call[t]][j] = "FLUSHED" /\ k = j + 1
           ELSE k \in 1..at[t] /\ Hooks[call[t]][k] = "each"
    PROVE  Marks(t, s)
<1> DEFINE h == Hooks[call[t]]
           i == at[t]
<1>1. /\ call[t] # "none" /\ h[i] = s /\ i \in 1..Len(h) /\ Len(h) \in Nat
      /\ Looks(call[t], h)
    BY Place, LooksOf DEF Doing, Order
<1>2. at'[t] = k /\ \A u \in Threads : u # t => at'[u] = at[u]
    BY DEF TypeOK, TypeThreads
<1>3. /\ Sought(t) <=> Seeks(h, i)
      /\ \A x : Did(t, x) <=> Past(h, i, x)
    BY <1>1 DEF Sought, Did
<1>4. /\ Sought(t)' <=> Seeks(h, k)
      /\ \A x : Did(t, x)' <=> Past(h, k, x)
    BY <1>1, <1>2 DEF Sought, Did
<1> HIDE DEF h, i
<1>5. ~Past(h, i, "driver") /\ ~Past(h, k, "driver") /\ ~Seeks(h, i) /\ ~Seeks(h, k)
  <2>1. CASE s = "each"
    <3>1. PICK j \in 1..Len(h) : h[j] = "FLUSHED" /\ k = j + 1
      BY <2>1 DEF h
    <3> QED BY <1>1, <2>1, <3>1 DEF Looks
  <2>2. CASE s = "FLUSHED"
    <3>1. k \in 1..Len(h) /\ h[k] = "each"
      BY <1>1, <2>2 DEF h, i
    <3>2. ~Past(h, k, "driver") /\ ~Past(h, i + 1, "driver") /\ ~Seeks(h, k) /\ ~Seeks(h, i)
      BY <1>1, <2>2, <3>1 DEF Looks
    <3> QED BY <1>1, <2>2, <3>2, PastNext
  <2> QED BY <2>1, <2>2
<1>6. ~Sought(t) /\ ~Sought(t)' /\ ~Did(t, "driver") /\ ~Did(t, "driver")'
    BY <1>3, <1>4, <1>5
<1>7. ~Unlisted(t) /\ ~Unlisted(t)' /\ ~Delisting(t) /\ ~Delisting(t)'
    BY <1>6 DEF Unlisted, Delisting
<1>8. s # "find" /\ s # "driver"
    OBVIOUS
<1> QED BY <1>2, <1>6, <1>7, <1>8, MarksStay DEF Marks

\* A thread that begins a call or ends it.
LEMMA EndMarks ==
    ASSUME TypeOK, NEW t \in Threads, NEW s \in {"call", "return"}, NEW n, NEW k \in {0, 1},
           call' = [call EXCEPT ![t] = n], at' = [at EXCEPT ![t] = k],
           n # "none" => k = 1, call[t] = "none" \/ Doing(t, "return")
    PROVE  /\ Marks(t, s)
           /\ ~Sought(t) /\ ~Unlisted(t) /\ ~Delisting(t)
<1>1. /\ call'[t] = n /\ at'[t] = k
      /\ \A u \in Threads : u # t => call'[u] = call[u] /\ at'[u] = at[u]
    BY DEF TypeOK, TypeThreads
<1>2. ~Sought(t)' /\ ~Did(t, "driver")'
  <2>1. \A i : ~(i \in 1..1 - 1)
    OBVIOUS
  <2> QED BY <1>1, <2>1 DEF Sought, Did, Past, Seeks
<1>3. ~Sought(t) /\ ~Unlisted(t) /\ ~Delisting(t)
  <2>1. CASE call[t] = "none"
    BY <2>1 DEF Sought, Unlisted, Delisting
  <2>2. CASE Doing(t, "return") /\ call[t] # "none"
    <3>1. ~Holds(t, "api")
      BY <2>2, Place DEF Doing, Locking, Holds, Locks
    <3> QED BY <3>1, MarkedHolds
  <2> QED BY <2>1, <2>2 DEF Doing
<1>4. ~Unlisted(t)' /\ ~Delisting(t)'
    BY <1>2 DEF Unlisted, Delisting
<1>5. s # "find" /\ s # "driver"
    OBVIOUS
<1> QED BY <1>1, <1>2, <1>3, <1>4, <1>5, MarksStay DEF Marks

-----------------------------------------------------------------------------
(* What the operations of the table do to a tidy one.                      *)

\* What is in use, of an array of entries.
LEMMA ArrayOf ==
    ASSUME NEW tab, IsTable(tab)
    PROVE  /\ tab.entries \in Seq(Entry) /\ DOMAIN tab.entries = 1..Len(tab.entries)
           /\ Len(tab.entries) \in Nat /\ tab.numEntrys \in Nat
           /\ tab.numEntrys <= Len(tab.entries) /\ tab.block \in Nat
           /\ \A i \in DOMAIN tab.entries : tab.entries[i] \in Entry
           /\ Capacity(tab) = Len(tab.entries)
<1>1. tab.entries \in Seq(Entry) /\ tab.numEntrys \in Nat /\ tab.block \in Nat
      /\ tab.numEntrys <= Len(tab.entries)
    BY DEF IsTable
<1>2. DOMAIN tab.entries = 1..Len(tab.entries) /\ Len(tab.entries) \in Nat
      /\ \A i \in DOMAIN tab.entries : tab.entries[i] \in Entry
    BY <1>1
<1> QED BY <1>1, <1>2, CapacityIsLen

\* find_mem_info_entry finds the one entry that there is.
LEMMA Finds ==
    ASSUME NEW tab, IsTable(tab), Tidy(tab), NEW h, NEW e \in Find(tab, h)
    PROVE  /\ e = Null => \A i \in InUse(tab) : tab.entries[i].handle # h
           /\ e # Null => /\ e[1] = tab.block /\ e[2] \in InUse(tab)
                          /\ tab.entries[e[2]].handle = h
<1>1. CASE e = Scan(tab, h)
  <2> DEFINE hits == {i \in 1..tab.numEntrys : Matches(tab.entries[i], h)}
             first == CHOOSE i \in hits : \A j \in hits : i <= j
  <2>1. e = IF hits = {} THEN Null ELSE <<tab.block, first>>
    BY <1>1 DEF Scan
  <2>2. ASSUME NEW i \in InUse(tab), tab.entries[i].handle = h PROVE i \in hits
    <3>1. i \in DOMAIN tab.entries /\ tab.entries[i].valid /\ i <= tab.numEntrys
      BY DEF InUse, Tidy
    <3>2. i \in 1..tab.numEntrys
      BY <3>1, ArrayOf
    <3> QED BY <2>2, <3>1, <3>2 DEF Matches
  <2>3. ASSUME hits # {} PROVE first \in hits
    <3>1. hits \in SUBSET Nat
      BY ArrayOf
    <3> HIDE DEF hits
    <3> QED BY <2>3, <3>1, LeastOf
  <2>4. ASSUME NEW i \in hits
        PROVE  i \in InUse(tab) /\ tab.entries[i].handle = h /\ i # 0
    <3>1. i \in 1..tab.numEntrys /\ Matches(tab.entries[i], h)
      OBVIOUS
    <3>2. i \in 1..Len(tab.entries)
      BY <3>1, ArrayOf
    <3> QED BY <3>1, <3>2, ArrayOf DEF InUse, Matches
  <2> HIDE DEF hits, first
  <2>5. CASE hits = {}
    BY <2>1, <2>2, <2>5
  <2>6. CASE hits # {}
    <3>1. first \in InUse(tab) /\ tab.entries[first].handle = h /\ first # 0
      BY <2>3, <2>4, <2>6
    <3>2. e = <<tab.block, first>>
      BY <2>1, <2>6
    <3> QED BY <3>1, <3>2 DEF Null
  <2> QED BY <2>5, <2>6
<1>2. CASE e # Scan(tab, h)
  <2>1. tab.last # Null /\ Points(tab, tab.last)
    BY <1>2 DEF Find, Tidy
  <2>2. e = tab.last /\ Matches(tab.entries[tab.last[2]], h)
    BY <1>2, <2>1 DEF Find
  <2> QED BY <2>1, <2>2 DEF Points, Matches, InUse
<1> QED BY <1>1, <1>2

\* The array that an entry is put into, and where.
Extends(es, slot, tab, new) ==
    /\ es \in Seq(Entry) /\ slot \in 1..Len(es)
    /\ Len(tab.entries) <= Len(es)
    /\ \A i \in 1..Len(es) : es[i] = IF i \in DOMAIN tab.entries THEN tab.entries[i] ELSE Unused
    /\ \/ slot \in 1..tab.numEntrys /\ ~tab.entries[slot].valid /\ new.numEntrys = tab.numEntrys
       \/ slot = tab.numEntrys + 1 /\ new.numEntrys = slot

\* The array is new, as it was, or full and grows.
Places(es, tab, new) ==
    \/ Len(tab.entries) = 0 /\ Len(es) = FirstCapacity /\ new.last = Null
    \/ es = tab.entries /\ new.last = tab.last /\ new.block = tab.block
    \/ /\ Len(tab.entries) > 0 /\ Len(es) = 2 * Len(tab.entries)
       /\ tab.numEntrys = Len(tab.entries) /\ InUse(tab) = 1..Len(tab.entries)

\* The entry is put into it.
PutInto(es, slot, tab, h, id, new) ==
    /\ Extends(es, slot, tab, new) /\ Places(es, tab, new)
    /\ new.entries = [es EXCEPT ![slot] = [valid |-> TRUE, handle |-> h, id |-> id]]

\* Adding is that.
LEMMA AddedParts ==
    ASSUME NEW tab, IsTable(tab), NEW h \in Handles, NEW id \in Nat, NEW new \in Added(tab, h, id)
    PROVE  \E es, slot : PutInto(es, slot, tab, h, id, new)
<1> DEFINE t == Inited(tab)
           free == {i \in 1..t.numEntrys : ~t.entries[i].valid}
           roomy == IF free = {} /\ t.numEntrys = Capacity(t) THEN Grown(t) ELSE {t}
           slot == IF free = {} THEN t.numEntrys + 1
                   ELSE CHOOSE i \in free : \A j \in free : i <= j
           entry == [valid |-> TRUE, handle |-> h, id |-> id]
<1>1. IsTable(t) /\ Len(t.entries) \in Nat \ {0} /\ t.numEntrys = tab.numEntrys
      /\ IF Len(tab.entries) = 0
         THEN /\ tab.numEntrys = 0 /\ t.last = Null
              /\ t.entries = [i \in 1..FirstCapacity |-> Unused] /\ Len(t.entries) = FirstCapacity
         ELSE t = tab
  <2>1. CASE Len(tab.entries) = 0
    <3> DEFINE e == [i \in 1..FirstCapacity |-> Unused]
    <3>1. e \in Seq(Entry) /\ Len(e) = FirstCapacity
      BY UnusedIsEntry, CapacityIsPositive
    <3>2. t = [tab EXCEPT !.entries = e, !.numEntrys = 0, !.last = Null]
      BY <2>1, ArrayOf DEF Inited
    <3> HIDE DEF e, t
    <3>3. t.entries = e /\ t.numEntrys = 0 /\ t.last = Null
      BY <3>2 DEF IsTable
    <3>4. t \in [block : Nat, entries : Seq(Entry), numEntrys : Nat, last : Nat \X Nat]
      BY <3>1, <3>2 DEF IsTable, Null
    <3>5. IsTable(t)
      BY <3>1, <3>3, <3>4, CapacityIsPositive DEF IsTable
    <3>6. tab.numEntrys = 0
      BY <2>1, ArrayOf
    <3> QED BY <2>1, <3>1, <3>3, <3>5, <3>6, CapacityIsPositive DEF e
  <2>2. CASE Len(tab.entries) # 0
    BY <2>2, ArrayOf DEF Inited
  <2> QED BY <2>1, <2>2
<1> HIDE DEF t
<1>2. PICK u \in roomy : new = [u EXCEPT !.entries[slot] = entry,
                                         !.numEntrys = IF free = {} THEN slot ELSE @]
    BY DEF Added, t
<1>3. /\ t.entries \in Seq(Entry) /\ t.numEntrys \in Nat /\ t.numEntrys <= Len(t.entries)
      /\ Capacity(t) = Len(t.entries) /\ DOMAIN t.entries = 1..Len(t.entries)
      /\ \A i \in DOMAIN t.entries : t.entries[i] \in Entry
    BY <1>1, ArrayOf
<1>4. ASSUME NEW v \in Grown(t)
      PROVE  /\ v.numEntrys = t.numEntrys /\ v.last = t.last
             /\ v.entries \in Seq(Entry) /\ Len(v.entries) = 2 * Len(t.entries)
             /\ \A i \in 1..Len(v.entries) :
                  v.entries[i] = IF i \in DOMAIN t.entries THEN t.entries[i] ELSE Unused
             /\ v = [block |-> v.block, entries |-> v.entries, numEntrys |-> v.numEntrys,
                     last |-> v.last]
  <2> DEFINE twice == [i \in 1..2 * Capacity(t) |->
                          IF i \in DOMAIN t.entries THEN t.entries[i] ELSE Unused]
  <2>1. twice \in [1..2 * Len(t.entries) -> Entry]
    BY <1>3, UnusedIsEntry
  <2>2. twice \in Seq(Entry) /\ Len(twice) = 2 * Len(t.entries)
        /\ \A i \in 1..Len(twice) :
             twice[i] = IF i \in DOMAIN t.entries THEN t.entries[i] ELSE Unused
    BY <1>3, <2>1
  <2>3. PICK b \in {t.block, t.block + 1} : v = [t EXCEPT !.entries = twice, !.block = b]
    BY DEF Grown
  <2> HIDE DEF twice
  <2>4. v.entries = twice /\ v.numEntrys = t.numEntrys /\ v.last = t.last
        /\ v = [block |-> v.block, entries |-> v.entries, numEntrys |-> v.numEntrys,
                last |-> v.last]
    BY <1>1, <2>3 DEF IsTable
  <2> QED BY <2>2, <2>4
<1>5. /\ u.numEntrys = t.numEntrys /\ u.last = t.last /\ u.entries \in Seq(Entry)
      /\ free = {} => t.numEntrys < Len(u.entries)
      /\ Len(t.entries) <= Len(u.entries)
      /\ \A i \in 1..Len(u.entries) :
           u.entries[i] = IF i \in DOMAIN t.entries THEN t.entries[i] ELSE Unused
      /\ u = [block |-> u.block, entries |-> u.entries, numEntrys |-> u.numEntrys,
              last |-> u.last]
      /\ \/ u = t
         \/ /\ free = {} /\ t.numEntrys = Len(t.entries)
            /\ Len(u.entries) = 2 * Len(t.entries)
  <2>1. CASE free = {} /\ t.numEntrys = Capacity(t)
    <3>1. u \in Grown(t)
      BY <2>1
    <3> HIDE DEF free, roomy
    <3> QED BY <1>1, <1>3, <1>4, <2>1, <3>1
  <2>2. CASE ~(free = {} /\ t.numEntrys = Capacity(t))
    <3>1. u = t
      BY <2>2
    <3>2. u = [block |-> u.block, entries |-> u.entries, numEntrys |-> u.numEntrys,
               last |-> u.last]
      BY <1>1, <3>1 DEF IsTable
    <3> HIDE DEF free, roomy
    <3> QED BY <1>1, <1>3, <2>2, <3>1, <3>2
  <2> QED BY <2>1, <2>2
<1>6. /\ free = {} => slot = t.numEntrys + 1
      /\ free # {} => slot \in 1..t.numEntrys /\ ~t.entries[slot].valid
  <2>1. free \in SUBSET Nat
    BY <1>3
  <2>2. ASSUME free # {} PROVE slot \in free
    <3> HIDE DEF free
    <3> QED BY <2>1, <2>2, LeastOf
  <2> HIDE DEF slot
  <2>3. free # {} => slot \in 1..t.numEntrys /\ ~t.entries[slot].valid
    BY <2>2
  <2> QED BY <2>3 DEF slot
<1>7. free = {} => \A i \in 1..t.numEntrys : t.entries[i].valid
    OBVIOUS
<1> HIDE DEF free, roomy, slot, entry
<1>8. slot \in 1..Len(u.entries)
    BY <1>3, <1>5, <1>6
<1>9. /\ new.entries = [u.entries EXCEPT ![slot] = entry]
      /\ new.numEntrys = IF free = {} THEN slot ELSE u.numEntrys
      /\ new.last = u.last /\ new.block = u.block
    BY <1>2, <1>5
<1>10. Extends(u.entries, slot, tab, new)
  <2>1. Len(tab.entries) <= Len(u.entries)
        /\ \A i \in 1..Len(u.entries) :
             u.entries[i] = IF i \in DOMAIN tab.entries THEN tab.entries[i] ELSE Unused
    <3>1. CASE Len(tab.entries) = 0
      <4>1. DOMAIN tab.entries = {}
        BY <3>1, ArrayOf
      <4>2. \A i \in DOMAIN t.entries : t.entries[i] = Unused
        BY <1>1, <3>1
      <4> QED BY <1>1, <1>3, <1>5, <3>1, <4>1, <4>2
    <3>2. CASE Len(tab.entries) # 0
      BY <1>1, <1>5, <3>2
    <3> QED BY <3>1, <3>2
  <2>2. \/ slot \in 1..tab.numEntrys /\ ~tab.entries[slot].valid /\ new.numEntrys = tab.numEntrys
        \/ slot = tab.numEntrys + 1 /\ new.numEntrys = slot
    <3>1. CASE free = {}
      BY <1>1, <1>6, <1>9, <3>1
    <3>2. CASE free # {}
      <4>1. slot \in 1..t.numEntrys /\ ~t.entries[slot].valid
        BY <1>6, <3>2
      <4>2. t = tab
        BY <1>1, <4>1
      <4> QED BY <1>5, <1>9, <3>2, <4>1, <4>2
    <3> QED BY <3>1, <3>2
  <2> QED BY <1>5, <1>8, <2>1, <2>2 DEF Extends
<1>11. Places(u.entries, tab, new)
  <2>1. CASE Len(tab.entries) = 0
    <3>1. u = t
      BY <1>1, <1>3, <1>5, <2>1
    <3> QED BY <1>1, <1>9, <2>1, <3>1 DEF Places
  <2>2. CASE Len(tab.entries) # 0 /\ u = t
    BY <1>1, <1>9, <2>2 DEF Places
  <2>3. CASE Len(tab.entries) # 0 /\ u # t
    <3>1. /\ t = tab /\ free = {} /\ tab.numEntrys = Len(tab.entries)
          /\ Len(u.entries) = 2 * Len(tab.entries)
      BY <1>1, <1>5, <2>3
    <3>2. InUse(tab) = 1..Len(tab.entries)
      BY <1>3, <1>7, <3>1 DEF InUse
    <3> QED BY <1>1, <3>1, <3>2 DEF Places
  <2> QED BY <2>1, <2>2, <2>3
<1> QED BY <1>9, <1>10, <1>11 DEF entry, PutInto

\* add_new_handle_to_mem_info adds the one entry of a handle that has none.
LEMMA Adds ==
    ASSUME NEW tab, IsTable(tab), Tidy(tab), NEW h \in Handles, NEW id \in Nat,
           \A i \in InUse(tab) : tab.entries[i].handle # h,
           NEW new \in Added(tab, h, id), Points(new, new.last)
    PROVE  /\ Tidy(new)
           /\ Held(new) = Held(tab) \union {[valid |-> TRUE, handle |-> h, id |-> id]}
<1> DEFINE entry == [valid |-> TRUE, handle |-> h, id |-> id]
<1>1. PICK es, slot : Extends(es, slot, tab, new) /\ new.entries = [es EXCEPT ![slot] = entry]
  <2>1. PICK es, slot : PutInto(es, slot, tab, h, id, new)
    BY AddedParts
  <2> QED BY <2>1 DEF PutInto
<1>2. /\ es \in Seq(Entry) /\ slot \in 1..Len(es) /\ Len(es) \in Nat /\ DOMAIN es = 1..Len(es)
      /\ DOMAIN tab.entries = 1..Len(tab.entries) /\ Len(tab.entries) \in Nat
      /\ Len(tab.entries) <= Len(es) /\ tab.numEntrys \in Nat
    BY <1>1, ArrayOf DEF Extends
<1>3. /\ DOMAIN new.entries = 1..Len(es) /\ new.entries[slot] = entry
      /\ \A i \in 1..Len(es) : i # slot => new.entries[i] = es[i]
    BY <1>1, <1>2
<1>4. entry.valid /\ entry.handle = h
    OBVIOUS
<1> HIDE DEF entry
<1>5. slot \notin InUse(tab)
  <2>1. CASE slot \in 1..tab.numEntrys /\ ~tab.entries[slot].valid
    BY <2>1 DEF InUse
  <2>2. CASE slot = tab.numEntrys + 1
    BY <1>2, <2>2 DEF Tidy
  <2> QED BY <1>1, <2>1, <2>2 DEF Extends
<1>6. \A i \in 1..Len(es) : i # slot =>
        /\ i \in InUse(new) <=> i \in InUse(tab)
        /\ i \in InUse(tab) => new.entries[i] = tab.entries[i]
  <2> SUFFICES ASSUME NEW i \in 1..Len(es), i # slot
               PROVE  /\ i \in InUse(new) <=> i \in InUse(tab)
                      /\ i \in InUse(tab) => new.entries[i] = tab.entries[i]
    OBVIOUS
  <2>1. new.entries[i] = IF i \in DOMAIN tab.entries THEN tab.entries[i] ELSE Unused
    BY <1>1, <1>3 DEF Extends
  <2>2. ~Unused.valid
    BY DEF Unused
  <2> QED BY <1>3, <2>1, <2>2 DEF InUse
<1>7. /\ InUse(new) = InUse(tab) \union {slot}
      /\ \A i \in InUse(tab) : i # slot /\ new.entries[i] = tab.entries[i]
  <2>1. InUse(tab) \subseteq 1..Len(es) /\ InUse(new) \subseteq 1..Len(es)
    BY <1>2, <1>3 DEF InUse
  <2>2. slot \in InUse(new)
    BY <1>2, <1>3, <1>4 DEF InUse
  <2> QED BY <1>5, <1>6, <2>1, <2>2
<1>8. Held(new) = Held(tab) \union {entry}
    BY <1>3, <1>7 DEF Held
<1>9. Tidy(new)
  <2>1. ASSUME NEW i \in InUse(new)
        PROVE  i <= new.numEntrys /\ new.entries[i].handle \in Handles
    <3>1. tab.numEntrys <= new.numEntrys /\ slot <= new.numEntrys /\ new.numEntrys \in Nat
      BY <1>1, <1>2 DEF Extends
    <3>2. CASE i = slot
      BY <1>3, <1>4, <3>1, <3>2
    <3>3. CASE i \in InUse(tab)
      <4>1. i <= tab.numEntrys /\ tab.entries[i].handle \in Handles /\ i \in Nat
        BY <1>2, <3>3 DEF Tidy, InUse
      <4> QED BY <1>2, <1>7, <3>1, <3>3, <4>1
    <3> QED BY <1>7, <3>2, <3>3
  <2>2. ASSUME NEW i \in InUse(new), NEW j \in InUse(new),
               new.entries[i].handle = new.entries[j].handle
        PROVE  i = j
    <3>1. \A k \in InUse(tab) : new.entries[k].handle # h
      BY <1>7
    <3>2. new.entries[slot].handle = h
      BY <1>3, <1>4
    <3>3. CASE i \in InUse(tab) /\ j \in InUse(tab)
      BY <1>7, <2>2, <3>3 DEF Tidy
    <3> QED BY <1>7, <2>2, <3>1, <3>2, <3>3
  <2> QED BY <2>1, <2>2 DEF Tidy
<1> QED BY <1>8, <1>9 DEF entry

\* The greatest of some numbers.
LEMMA GreatestIs ==
    ASSUME NEW n \in Nat, NEW S \in SUBSET (0..n), S # {}, NEW g,
           g = CHOOSE i \in S : \A j \in S : i >= j
    PROVE  g \in S /\ \A j \in S : j <= g
<1> DEFINE D == {n - i : i \in S}
<1>1. D \in SUBSET Nat /\ D # {}
  <2>1. \A i \in S : n - i \in Nat
    OBVIOUS
  <2> QED BY <2>1
<1>2. \A j \in S : n - j \in D /\ j \in 0..n
    OBVIOUS
<1> HIDE DEF D
<1>3. PICK d \in D : \A e \in D : d <= e
    BY <1>1, LeastNatural
<1>4. PICK i \in S : d = n - i
    BY <1>3 DEF D
<1>5. \A j \in S : i >= j
  <2> SUFFICES ASSUME NEW j \in S PROVE i >= j
    OBVIOUS
  <2>1. n - i <= n - j /\ i \in 0..n /\ j \in 0..n
    BY <1>2, <1>3, <1>4
  <2> QED BY <2>1
<1>6. g \in S /\ \A j \in S : g >= j
    BY <1>5
<1> QED BY <1>2, <1>6

\* rm_handle_from_mem_info removes the one entry of a handle.
LEMMA Removes ==
    ASSUME NEW tab, IsTable(tab), Tidy(tab), NEW h, NEW e \in Find(tab, h),
           NEW new, new = Removed(tab, e)
    PROVE  /\ Tidy(new)
           /\ Held(new) = {x \in Held(tab) : x.handle # h}
<1>1. CASE e = Null
  <2>1. new = tab
    BY <1>1 DEF Removed
  <2>2. \A i \in InUse(tab) : tab.entries[i].handle # h
    BY <1>1, Finds
  <2> QED BY <2>1, <2>2 DEF Held
<1>2. CASE e # Null
  <2> DEFINE k == e[2]
             cleared == [tab EXCEPT !.entries[k] = Unused]
             last == [cleared EXCEPT !.last = IF @ = e THEN Null ELSE @]
             used == {i \in 1..last.numEntrys : last.entries[i].valid}
  <2>1. e[1] = tab.block /\ k \in InUse(tab) /\ tab.entries[k].handle = h
    BY <1>2, Finds
  <2>2. Points(tab, e) /\ k \in DOMAIN tab.entries
    BY <2>1 DEF Points, InUse
  <2>3. new = Shrunk(last)
    BY <1>2, <2>2 DEF Removed
  <2>4. /\ last.entries = [tab.entries EXCEPT ![k] = Unused]
        /\ last.numEntrys = tab.numEntrys /\ last.block = tab.block
        /\ last.last = IF tab.last = e THEN Null ELSE tab.last
        /\ last = [block |-> last.block, entries |-> last.entries,
                   numEntrys |-> last.numEntrys, last |-> last.last]
    <3>1. tab \in [block : Nat, entries : Seq(Entry), numEntrys : Nat, last : Nat \X Nat]
      BY DEF IsTable
    <3> HIDE DEF k
    <3> DEFINE es == [tab.entries EXCEPT ![k] = Unused]
    <3>3. cleared = [tab EXCEPT !.entries = es]
      OBVIOUS
    <3> HIDE DEF cleared, es
    <3>2. /\ cleared.entries = es
          /\ cleared.numEntrys = tab.numEntrys /\ cleared.block = tab.block
          /\ cleared.last = tab.last
          /\ cleared = [block |-> cleared.block, entries |-> cleared.entries,
                        numEntrys |-> cleared.numEntrys, last |-> cleared.last]
      BY <3>1, <3>3
    <3> QED BY <3>2 DEF last, es
  <2> HIDE DEF cleared, last, k
  <2>5. /\ DOMAIN last.entries = DOMAIN tab.entries /\ last.entries[k] = Unused
        /\ \A i \in DOMAIN tab.entries : i # k => last.entries[i] = tab.entries[i]
    BY <2>2, <2>4, ArrayOf
  <2>6. used = InUse(tab) \ {k}
    <3>1. used \subseteq DOMAIN tab.entries
      BY <2>4, ArrayOf
    <3>2. ~Unused.valid
      BY DEF Unused
    <3>3. \A i \in InUse(tab) : i \in 1..tab.numEntrys
      BY ArrayOf DEF InUse, Tidy
    <3> QED BY <2>4, <2>5, <3>1, <3>2, <3>3 DEF InUse
  <2>7. \A x \in Held(tab) : x.handle # h <=> \E i \in used : x = tab.entries[i]
    <3>1. ASSUME NEW i \in InUse(tab) PROVE tab.entries[i].handle # h <=> i # k
      BY <2>1 DEF Tidy
    <3> QED BY <2>6, <3>1 DEF Held
  <2>8. CASE used = {}
    <3>1. new = [NoTable EXCEPT !.block = last.block]
      BY <2>3, <2>8 DEF Shrunk, used
    <3>2. new.entries = [i \in {} |-> Unused] /\ new.last = Null
      BY <3>1 DEF NoTable
    <3>3. InUse(new) = {}
      BY <3>2 DEF InUse
    <3>4. Tidy(new) /\ Held(new) = {}
      BY <3>2, <3>3 DEF Tidy, Held, Points
    <3> QED BY <2>7, <2>8, <3>4
  <2>9. CASE used # {}
    <3> DEFINE n == CHOOSE i \in used : \A j \in used : i >= j
    <3>1. tab.numEntrys \in Nat /\ used \in SUBSET (0..tab.numEntrys)
      BY <2>4, ArrayOf
    <3>2. n \in used /\ \A j \in used : j <= n
      <4> HIDE DEF used
      <4> QED BY <2>9, <3>1, GreatestIs
    <3>3. new = [last EXCEPT !.numEntrys = n]
      BY <2>3, <2>9 DEF Shrunk
    <3> HIDE DEF n, used
    <3>4. new.entries = last.entries /\ new.numEntrys = n /\ new.block = tab.block
          /\ new.last = IF tab.last = e THEN Null ELSE tab.last
      BY <2>4, <3>3
    <3>5. InUse(new) = used
      <4>1. ~Unused.valid
        BY DEF Unused
      <4> QED BY <2>5, <2>6, <3>4, <4>1 DEF InUse
    <3>6. \A i \in used : new.entries[i] = tab.entries[i] /\ i \in InUse(tab)
      BY <2>5, <2>6, <3>4 DEF InUse
    <3>7. Points(new, new.last)
      BY <2>5, <3>4 DEF Tidy, Points
    <3>8. Tidy(new)
      BY <3>2, <3>4, <3>5, <3>6, <3>7 DEF Tidy
    <3>9. Held(new) = {tab.entries[i] : i \in used}
      BY <3>5, <3>6 DEF Held
    <3>10. \A i \in used : tab.entries[i] \in Held(tab)
      BY <3>6 DEF Held
    <3> QED BY <2>7, <3>8, <3>9, <3>10
  <2> QED BY <2>8, <2>9
<1> QED BY <1>1, <1>2

-----------------------------------------------------------------------------
(* The steps that the table and the driver's memory do not see.            *)

\* A step that none of them sees, however the thread gets on.
LEMMA Quietly ==
    ASSUME EntryInv, NEW t \in Threads, NEW s, Marks(t, s),
           s \notin {"find", "add", "remove", "driver"}, UNCHANGED <<table, memory>>,
           \A u \in Threads : Sought(u)' =>
                found'[u] = found[u] /\ cur'[u] = cur[u] /\ mem'[u] = mem[u],
           \A u \in Threads : Unlisted(u) \/ Delisting(u) => mem'[u] = mem[u]
    PROVE  EntryInv'
<1>1. \A u \in Threads : /\ Unlisted(u)' <=> Unlisted(u)
                         /\ Delisting(u)' <=> Delisting(u)
                         /\ Sought(u)' => Sought(u)
    BY DEF Marks
<1>2. Tidy(table')
    BY DEF EntryInv
<1>3. ListInv'
    BY <1>1 DEF EntryInv, ListInv
<1>4. SoughtInv'
  <2> SUFFICES ASSUME NEW u \in Threads, Sought(u)'
               PROVE  /\ Subject(u)' \in Handles /\ memory'[Subject(u)'] # 0
                      /\ found'[u][1] = table'.block /\ found'[u][2] \in InUse(table')
                      /\ table'.entries[found'[u][2]].handle = Subject(u)'
    BY DEF SoughtInv, InUse
  <2>1. Subject(u)' = Subject(u) /\ found'[u] = found[u] /\ Sought(u)
    BY <1>1 DEF Subject
  <2> QED BY <2>1 DEF EntryInv, SoughtInv
<1> QED BY <1>2, <1>3, <1>4 DEF EntryInv, Tidy, InUse, Points

\* Every step but the look-ups and changes of the table and the driver's.
LEMMA QuietSteps ==
    ASSUME IInv, EntryInv, NEW t \in Threads,
           \/ EnterApi(t) \/ LeaveApi(t) \/ EnterMap(t) \/ LeaveMap(t) \/ EnterInfo(t)
           \/ LeaveInfo(t) \/ Create(t) \/ Finish(t) \/ UseEntry(t) \/ Remember(t)
    PROVE  EntryInv'
<1>1. PICK s \in {"enterApi", "leaveApi", "enterMap", "leaveMap", "enterInfo", "leaveInfo",
                  "CREATE", "FINISH", "use", "remember", "forget"} : Doing(t, s) /\ Advance(t)
    BY DEF EnterApi, LeaveApi, EnterMap, LeaveMap, EnterInfo, LeaveInfo, Create, Finish,
       UseEntry, Remember
<1>2. UNCHANGED <<call, mem, cur, table, memory>>
    BY DEF EnterApi, LeaveApi, EnterMap, LeaveMap, EnterInfo, LeaveInfo, Create, Finish,
       UseEntry, Remember, driverVars
<1>3. Marks(t, s)
    BY <1>1, <1>2, StepMarks DEF IInv
<1>4. ASSUME NEW u \in Threads, Sought(u)' PROVE found'[u] = found[u]
  <2>1. CASE UseEntry(t)
    <3>1. s = "use"
      BY <1>1, <2>1 DEF UseEntry, Doing
    <3>2. u # t
      BY <1>3, <1>4, <3>1 DEF Marks
    <3> QED BY <2>1, <3>2 DEF UseEntry, IInv, TypeOK, TypeThreads
  <2>2. CASE ~UseEntry(t)
    BY <2>2 DEF EnterApi, LeaveApi, EnterMap, LeaveMap, EnterInfo, LeaveInfo, Create, Finish,
       Remember
  <2> QED BY <2>1, <2>2
<1> QED BY <1>2, <1>3, <1>4, Quietly

\* The flushes.
LEMMA FlushSteps ==
    ASSUME IInv, EntryInv, NEW t \in Threads, Each(t) \/ Flushed(t)
    PROVE  EntryInv'
<1> DEFINE h == Hooks[call[t]]
<1>1. PICK s \in {"each", "FLUSHED"} : Doing(t, s)
    BY DEF Each, Flushed
<1>2. /\ UNCHANGED <<call, mem, found, table, memory>>
      /\ \A u \in Threads : u # t => cur'[u] = cur[u]
    BY DEF Each, Flushed, driverVars, IInv, TypeOK, TypeThreads
<1>3. h[at[t]] = s /\ at[t] \in 1..Len(h) /\ Len(h) \in Nat /\ Loop(call[t], h)
    BY <1>1, Place DEF Doing, IInv, Order
<1>4. Marks(t, s)
  <2>1. CASE Each(t) /\ Advance(t)
    BY <1>1, <1>2, <2>1, StepMarks DEF IInv
  <2>2. CASE /\ s = "each"
             /\ at' = [at EXCEPT ![t] = 1 + CHOOSE i \in 1..Len(h) : h[i] = "FLUSHED"]
    <3> DEFINE j == CHOOSE i \in 1..Len(h) : h[i] = "FLUSHED"
    <3>1. \E i \in 1..Len(h) : h[i] = "FLUSHED"
      BY <1>3, <2>2 DEF Loop
    <3>2. j \in 1..Len(h) /\ h[j] = "FLUSHED"
      BY <3>1
    <3>3. at' = [at EXCEPT ![t] = j + 1]
      <4>1. 1 + j = j + 1
        BY <1>3, <3>2
      <4> QED BY <2>2, <4>1
    <3> HIDE DEF j
    <3> QED BY <1>1, <1>2, <2>2, <3>2, <3>3, JumpMarks DEF IInv
  <2>3. CASE Flushed(t)
    <3> DEFINE k == CHOOSE i \in 1..at[t] : h[i] = "each"
    <3>1. s = "FLUSHED"
      BY <1>1, <2>3 DEF Flushed, Doing
    <3>2. \E i \in 1..at[t] : h[i] = "each"
      BY <1>3, <3>1 DEF Loop
    <3>3. k \in 1..at[t] /\ h[k] = "each"
      BY <3>2
    <3>4. at' = [at EXCEPT ![t] = k]
      BY <2>3 DEF Flushed
    <3> HIDE DEF k
    <3> QED BY <1>1, <1>2, <3>1, <3>3, <3>4, JumpMarks DEF IInv
  <2>4. Each(t) => s = "each"
    BY <1>1 DEF Each, Doing
  <2> QED BY <2>1, <2>2, <2>3, <2>4 DEF Each
<1>5. \A u \in Threads : Sought(u)' => u # t
  <2>1. ~Sought(t)
    BY <1>1, MarkedHolds DEF IInv, Doing
  <2> QED BY <1>4, <2>1 DEF Marks
<1> QED BY <1>2, <1>4, <1>5, Quietly

\* The beginning and the end of a call.
LEMMA EndSteps ==
    ASSUME IInv, EntryInv, NEW t \in Threads,
           Return(t) \/ \E n \in DOMAIN Hooks, h \in Handles \union {NoHandle} : Call(t, n, h)
    PROVE  EntryInv'
<1>1. \A u \in Threads : u # t => mem'[u] = mem[u] /\ cur'[u] = cur[u] /\ found'[u] = found[u]
    BY DEF Return, Call, IInv, TypeOK, TypeThreads
<1>2. UNCHANGED <<table, memory>>
    BY DEF Return, Call, driverVars
<1>3. \E s \in {"call", "return"} : Marks(t, s) /\ ~Sought(t) /\ ~Unlisted(t) /\ ~Delisting(t)
  <2>1. CASE Return(t)
    <3>1. /\ call' = [call EXCEPT ![t] = "none"] /\ at' = [at EXCEPT ![t] = 0]
          /\ Doing(t, "return")
      BY <2>1 DEF Return
    <3> QED BY <3>1, EndMarks DEF IInv
  <2>2. ASSUME NEW n \in DOMAIN Hooks, NEW h \in Handles \union {NoHandle}, Call(t, n, h)
        PROVE  \E s \in {"call", "return"} :
                    Marks(t, s) /\ ~Sought(t) /\ ~Unlisted(t) /\ ~Delisting(t)
    <3>1. /\ call' = [call EXCEPT ![t] = n] /\ at' = [at EXCEPT ![t] = 1]
          /\ call[t] = "none"
      BY <2>2 DEF Call
    <3> QED BY <3>1, EndMarks DEF IInv
  <2> QED BY <2>1, <2>2
<1>4. PICK s \in {"call", "return"} : Marks(t, s) /\ ~Sought(t) /\ ~Unlisted(t) /\ ~Delisting(t)
    BY <1>3
<1>5. \A u \in Threads : Sought(u)' => u # t
    BY <1>4 DEF Marks
<1> QED BY <1>1, <1>2, <1>4, <1>5, Quietly

\* What is no step of a thread and leaves the table and the memory alone.
LEMMA NoStep ==
    ASSUME EntryInv, UNCHANGED <<threadVars, table, memory>>
    PROVE  EntryInv'
<1>1. UNCHANGED <<call, at, mem, cur, found, table, memory>>
    BY DEF threadVars
<1>2. \A u \in Threads : /\ Sought(u)' <=> Sought(u)
                         /\ Unlisted(u)' <=> Unlisted(u)
                         /\ Delisting(u)' <=> Delisting(u)
    BY <1>1, MarksStay
<1>3. ListInv'
    BY <1>1, <1>2 DEF EntryInv, ListInv
<1>4. SoughtInv'
    BY <1>1, <1>2 DEF EntryInv, SoughtInv, Subject, InUse
<1> QED BY <1>1, <1>3, <1>4 DEF EntryInv, Tidy, InUse, Points

-----------------------------------------------------------------------------
(* The steps that look an entry up, or change the table or the memory.     *)

\* Under TraceLock nobody else is between such steps.
LEMMA OnlyOne ==
    ASSUME IInv, locked, NEW t \in Threads, Holds(t, "api"), NEW u \in Threads,
           Sought(u) \/ Unlisted(u) \/ Delisting(u)
    PROVE  u = t
<1>1. Holds(u, "api")
    BY MarkedHolds DEF IInv
<1>2. LockInv /\ "api" \in Locks
    BY DEF IInv, Locks
<1> QED BY <1>1, <1>2, Exclusive

\* Who does such a step, and what is known of the threads before and after it.
LEMMA Alone ==
    ASSUME IInv, locked, NEW t \in Threads,
           NEW s \in {"find", "add", "data", "remove", "driver"},
           Doing(t, s), Advance(t), UNCHANGED call
    PROVE  /\ Marks(t, s) /\ ~Sought(t) /\ (s # "find" => ~Sought(t)')
           /\ \A u \in Threads : u # t =>
                /\ ~Sought(u) /\ ~Unlisted(u) /\ ~Delisting(u)
                /\ ~Sought(u)' /\ ~Unlisted(u)' /\ ~Delisting(u)'
<1>1. Marks(t, s)
    BY StepMarks DEF IInv
<1>2. Holds(t, "api")
    BY MarkedHolds DEF IInv
<1>3. ~Sought(t)
    BY MarkedHolds DEF IInv, Doing
<1>4. \A u \in Threads : u # t => ~Sought(u) /\ ~Unlisted(u) /\ ~Delisting(u)
    BY <1>2, OnlyOne
<1> QED BY <1>1, <1>3, <1>4 DEF Marks

\* The memory whose entry is looked for exists, and it is in the table.
LEMMA SubjectExists ==
    ASSUME IInv, locked, EntryInv, NEW t \in Threads, Doing(t, "find")
    PROVE  /\ Subject(t) \in Handles /\ memory[Subject(t)] # 0
           /\ \E e \in Held(table) : e.handle = Subject(t)
<1> DEFINE n == call[t]
           s == Hooks[n]
           i == at[t]
<1>1. /\ n # "none" /\ s[i] = "find" /\ i \in 1..Len(s) /\ Len(s) \in Nat
      /\ Looks(n, s) /\ Loop(n, s)
    BY Place, LooksOf DEF IInv, Doing, Order
<1>2. Flushing(t) <=> InFlush(s, i)
    BY <1>1 DEF Flushing
<1>3. /\ n \in OnHandle \/ InFlush(s, i)
      /\ n = "vkFreeMemory" => ~Did(t, "driver")
      /\ Holds(t, "api")
    BY <1>1, MarkedHolds DEF Looks, Did, IInv
<1>4. InFlush(s, i) => n \in Flushers
  <2>1. InFlush(s, i) => InLoop(s, i)
    BY <1>1 DEF InFlush, InLoop
  <2> QED BY <1>1, <2>1 DEF Loop
<1> HIDE DEF s, i
<1>5. n # "vkAllocateMemory"
    BY <1>3, <1>4 DEF OnHandle, OnMapped, Flushers
<1>6. Subject(t) \in Handles /\ memory[Subject(t)] # 0
  <2>1. CASE cur[t] # NoHandle
    <3>1. cur[t] \in mapped
      BY <2>1 DEF IInv, LoopInv
    <3>2. cur[t] \in Handles /\ memory[cur[t]] # 0
      BY <3>1 DEF IInv, TypeOK, TypeDriver, MemoryInv, MappedInv
    <3> QED BY <2>1, <3>2 DEF Subject
  <2>2. CASE cur[t] = NoHandle
    <3>1. n \in OnHandle
      BY <1>2, <1>3, <2>2 DEF IInv, LoopInv
    <3>2. mem[t] \in Handles /\ memory[mem[t]] # 0
      BY <1>3, <3>1 DEF IInv, MemoryInv, CallInv
    <3> QED BY <2>2, <3>2 DEF Subject
  <2> QED BY <2>1, <2>2
<1>7. \A u \in Threads : ~Unlisted(u)
  <2>1. \A u \in Threads : Unlisted(u) => u = t
    BY <1>3, OnlyOne
  <2> QED BY <1>5, <2>1 DEF Unlisted
<1> QED BY <1>6, <1>7 DEF EntryInv, ListInv

\* find_mem_info_entry finds it.
LEMMA FindStep ==
    ASSUME IInv, locked, EntryInv, NEW t \in Threads, FindEntry(t)
    PROVE  EntryInv'
<1>1. PICK e \in Find(table, Subject(t)) : found' = [found EXCEPT ![t] = e]
    BY DEF FindEntry
<1>2. Doing(t, "find") /\ Advance(t) /\ UNCHANGED <<call, mem, cur, table, memory>>
    BY DEF FindEntry, driverVars
<1>3. Marks(t, "find") /\ \A u \in Threads : u # t => ~Sought(u)'
    BY <1>2, Alone
<1>4. /\ Subject(t) \in Handles /\ memory[Subject(t)] # 0
      /\ \E x \in Held(table) : x.handle = Subject(t)
    BY <1>2, SubjectExists
<1>5. e[1] = table.block /\ e[2] \in InUse(table) /\ table.entries[e[2]].handle = Subject(t)
  <2>1. \E i \in InUse(table) : table.entries[i].handle = Subject(t)
    BY <1>4 DEF Held
  <2>2. IsTable(table) /\ Tidy(table)
    BY DEF IInv, TableInv, EntryInv
  <2> QED BY <2>1, <2>2, Finds
<1>6. \A u \in Threads : /\ Unlisted(u)' <=> Unlisted(u)
                         /\ Delisting(u)' <=> Delisting(u)
  <2>1. /\ Unlisted(t)' <=> Unlisted(t)
        /\ Delisting(t)' <=> Delisting(t)
    BY <1>3 DEF Marks
  <2> QED BY <1>3, <2>1 DEF Marks
<1>7. ListInv'
    BY <1>2, <1>6 DEF EntryInv, ListInv
<1>8. SoughtInv'
  <2> SUFFICES ASSUME NEW u \in Threads, Sought(u)'
               PROVE  /\ Subject(u)' \in Handles /\ memory'[Subject(u)'] # 0
                      /\ found'[u][1] = table'.block /\ found'[u][2] \in InUse(table')
                      /\ table'.entries[found'[u][2]].handle = Subject(u)'
    BY DEF SoughtInv, InUse
  <2>1. u = t
    BY <1>3
  <2>2. found'[u] = e /\ Subject(u)' = Subject(t)
    BY <1>1, <1>2, <2>1 DEF IInv, TypeOK, TypeThreads, Subject
  <2> QED BY <1>2, <1>4, <1>5, <2>2
<1> QED BY <1>2, <1>7, <1>8 DEF EntryInv, Tidy, InUse, Points

\* A step after which nobody has found an entry.
LEMMA NotSought ==
    ASSUME \A u \in Threads : ~Sought(u)', Tidy(table)', ListInv'
    PROVE  EntryInv'
BY DEF EntryInv, SoughtInv

\* add_new_handle_to_mem_info makes the entry.
LEMMA AddStep ==
    ASSUME IInv, locked, EntryInv, NEW t \in Threads, AddEntry(t), Points(table', table'.last)
    PROVE  EntryInv'
<1> DEFINE h == mem[t]
           entry == [valid |-> TRUE, handle |-> h, id |-> memory[h]]
<1>1. /\ Doing(t, "add") /\ Advance(t) /\ UNCHANGED <<call, mem, memory>>
      /\ table' \in Added(table, h, memory[h])
    BY DEF AddEntry, driverVars
<1>2. /\ Marks(t, "add") /\ ~Sought(t)'
      /\ \A u \in Threads : u # t =>
           /\ ~Sought(u) /\ ~Unlisted(u) /\ ~Delisting(u)
           /\ ~Sought(u)' /\ ~Unlisted(u)' /\ ~Delisting(u)'
    BY <1>1, Alone
<1>3. call[t] = "vkAllocateMemory" /\ Unlisted(t)
    BY <1>1, LooksOf DEF IInv, Doing, Looks, Unlisted, Did
<1>4. h \in Handles /\ \A e \in Held(table) : e.handle # h
    BY <1>3 DEF EntryInv, ListInv
<1>5. memory[h] \in Nat /\ memory[h] # 0
    BY <1>3, <1>4 DEF IInv, TypeOK, TypeDriver, MemoryInv, CallInv, Unlisted
<1>6. Tidy(table') /\ Held(table') = Held(table) \union {entry}
  <2>1. \A i \in InUse(table) : table.entries[i].handle # h
    BY <1>4 DEF Held
  <2>2. IsTable(table) /\ Tidy(table)
    BY DEF IInv, TableInv, EntryInv
  <2> QED BY <1>1, <1>4, <1>5, <2>1, <2>2, Adds
<1>7. \A u \in Threads : ~Sought(u)' /\ ~Unlisted(u)' /\ ~Delisting(u)' /\ ~Delisting(u)
    BY <1>2, <1>3 DEF Marks, Unlisted, Delisting
<1>8. entry.handle = h /\ entry.id = memory[h]
    OBVIOUS
<1>9. \A e \in Held(table) : e.id = memory[e.handle] /\ e.id # 0
    BY <1>7 DEF EntryInv, ListInv
<1>10. ASSUME NEW g \in Handles, memory[g] # 0
       PROVE  \E e \in Held(table') : e.handle = g
  <2>1. \/ \E e \in Held(table) : e.handle = g
        \/ \E u \in Threads : Unlisted(u) /\ mem[u] = g
    BY <1>10 DEF EntryInv, ListInv
  <2>2. \A u \in Threads : Unlisted(u) => u = t
    BY <1>2
  <2> HIDE DEF entry
  <2> QED BY <1>6, <1>8, <2>1, <2>2
<1> HIDE DEF entry
<1>11. \A e \in Held(table') : e.id = memory[e.handle] /\ e.id # 0
    BY <1>5, <1>6, <1>8, <1>9
<1>12. ListInv'
  <2>1. Held(table)' = Held(table')
    BY DEF Held, InUse
  <2> QED BY <1>1, <1>7, <1>10, <1>11, <2>1 DEF ListInv
<1>13. Tidy(table)'
    BY <1>6 DEF Tidy, InUse, Points
<1> QED BY <1>7, <1>12, <1>13, NotSought

\* add_data_to_mem_info makes pLastMapped point to the entry that it finds.
LEMMA MapStep ==
    ASSUME IInv, locked, EntryInv, NEW t \in Threads, MapEntry(t)
    PROVE  EntryInv'
<1>1. /\ Doing(t, "data") /\ Advance(t) /\ UNCHANGED <<call, mem, memory>>
      /\ \E e \in Find(table, mem[t]) : table' = [table EXCEPT !.last = e]
    BY DEF MapEntry, driverVars
<1>2. PICK e \in Find(table, mem[t]) : table' = [table EXCEPT !.last = e]
    BY <1>1
<1>3. /\ Marks(t, "data") /\ ~Sought(t)'
      /\ \A u \in Threads : u # t => ~Sought(u)'
    BY <1>1, Alone
<1>4. IsTable(table) /\ Tidy(table)
    BY DEF IInv, TableInv, EntryInv
<1>5. /\ table'.entries = table.entries /\ table'.numEntrys = table.numEntrys
      /\ table'.block = table.block /\ table'.last = e
    BY <1>2, <1>4 DEF IsTable
<1>6. e = Null \/ (e[1] = table.block /\ e[2] \in DOMAIN table.entries)
    BY <1>4, Finds DEF InUse
<1>7. Tidy(table)'
    BY <1>4, <1>5, <1>6 DEF Tidy, Points, InUse
<1>8. \A u \in Threads : /\ Unlisted(u)' <=> Unlisted(u)
                         /\ Delisting(u)' <=> Delisting(u)
    BY <1>3 DEF Marks
<1>9. Held(table)' = Held(table)
    BY <1>5 DEF Held, InUse
<1>10. ListInv'
    BY <1>1, <1>8, <1>9 DEF EntryInv, ListInv
<1>11. \A u \in Threads : ~Sought(u)'
    BY <1>3
<1> QED BY <1>7, <1>10, <1>11, NotSought

\* rm_handle_from_mem_info removes the entry of the memory that is gone.
LEMMA RemoveStep ==
    ASSUME IInv, locked, EntryInv, NEW t \in Threads, RemoveEntry(t)
    PROVE  EntryInv'
<1> DEFINE h == mem[t]
<1>1. /\ Doing(t, "remove") /\ Advance(t) /\ UNCHANGED <<call, mem, memory>>
      /\ \E e \in Find(table, h) : table' = Removed(table, e)
    BY DEF RemoveEntry, driverVars
<1>2. /\ Marks(t, "remove") /\ ~Sought(t)'
      /\ \A u \in Threads : u # t =>
           /\ ~Sought(u) /\ ~Unlisted(u) /\ ~Delisting(u)
           /\ ~Sought(u)' /\ ~Unlisted(u)' /\ ~Delisting(u)'
    BY <1>1, Alone
<1>3. call[t] = "vkFreeMemory" /\ Delisting(t)
    BY <1>1, LooksOf DEF IInv, Doing, Looks, Delisting, Did
<1>4. h \in Handles /\ memory[h] = 0
    BY <1>3 DEF EntryInv, ListInv
<1>5. Tidy(table') /\ Held(table') = {x \in Held(table) : x.handle # h}
  <2>1. IsTable(table) /\ Tidy(table)
    BY DEF IInv, TableInv, EntryInv
  <2> QED BY <1>1, <2>1, Removes
<1>6. \A u \in Threads : ~Sought(u)' /\ ~Unlisted(u)' /\ ~Delisting(u)' /\ ~Unlisted(u)
    BY <1>2, <1>3 DEF Marks, Unlisted, Delisting
<1>7. ASSUME NEW e \in Held(table') PROVE e.id = memory[e.handle] /\ e.id # 0
  <2>1. e \in Held(table) /\ e.handle # h
    BY <1>5
  <2>2. ASSUME NEW u \in Threads, Delisting(u) PROVE mem[u] = h
    BY <1>2, <2>2
  <2> QED BY <2>1, <2>2 DEF EntryInv, ListInv
<1>8. ASSUME NEW g \in Handles, memory[g] # 0
      PROVE  \E e \in Held(table') : e.handle = g
  <2>1. PICK e \in Held(table) : e.handle = g
    BY <1>6, <1>8 DEF EntryInv, ListInv
  <2>2. e \in Held(table')
    BY <1>4, <1>5, <1>8, <2>1
  <2> QED BY <2>1, <2>2
<1>9. ListInv'
  <2>1. Held(table)' = Held(table')
    BY DEF Held, InUse
  <2> QED BY <1>1, <1>6, <1>7, <1>8, <2>1 DEF ListInv
<1>10. Tidy(table)'
    BY <1>5 DEF Tidy, InUse, Points
<1> QED BY <1>6, <1>9, <1>10, NotSought

\* The driver makes a memory, frees one, or does something else.
LEMMA DriverListed ==
    ASSUME IInv, locked, EntryInv, NEW t \in Threads, Driver(t)
    PROVE  EntryInv'
<1>1. Doing(t, "driver") /\ Advance(t) /\ UNCHANGED <<call, table>>
    BY DEF Driver
<1>2. /\ Marks(t, "driver") /\ ~Sought(t)'
      /\ \A u \in Threads : u # t =>
           /\ ~Sought(u) /\ ~Unlisted(u) /\ ~Delisting(u)
           /\ ~Sought(u)' /\ ~Unlisted(u)' /\ ~Delisting(u)'
    BY <1>1, Alone
<1>3. ~Unlisted(t) /\ ~Delisting(t)
    BY <1>1, LooksOf DEF IInv, Doing, Looks, Unlisted, Delisting, Did
<1>4. \A u \in Threads : ~Unlisted(u) /\ ~Delisting(u) /\ ~Sought(u)'
    BY <1>2, <1>3
<1>5. \A u \in Threads :
        /\ Unlisted(u)' <=> u = t /\ call[t] = "vkAllocateMemory"
        /\ Delisting(u)' <=> u = t /\ call[t] = "vkFreeMemory"
    BY <1>2, <1>3 DEF Marks
<1>6. Tidy(table)' /\ Held(table)' = Held(table)
    BY <1>1 DEF EntryInv, Tidy, InUse, Points, Held
<1>7. /\ \A e \in Held(table) : e.handle \in Handles /\ e.id = memory[e.handle] /\ e.id # 0
      /\ \A g \in Handles : memory[g] # 0 => \E e \in Held(table) : e.handle = g
    BY <1>4 DEF EntryInv, ListInv, Tidy, Held
<1>8. memory \in [Handles -> Nat] /\ mem \in [Threads -> Handles \cup {NoHandle}]
    BY DEF IInv, TypeOK, TypeDriver, TypeThreads
<1>9. CASE call[t] = "vkAllocateMemory"
  <2>1. PICK h \in Handles : /\ memory[h] = 0 /\ memory' = [memory EXCEPT ![h] = ids + 1]
                             /\ mem' = [mem EXCEPT ![t] = h]
    BY <1>9 DEF Driver
  <2>2. mem'[t] = h /\ \A g \in Handles : g # h => memory'[g] = memory[g]
    BY <1>8, <2>1
  <2>3. \A e \in Held(table) : e.handle # h
    BY <1>7, <2>1
  <2>4. \A e \in Held(table) : e.id = memory'[e.handle] /\ e.id # 0
    BY <1>7, <2>2, <2>3
  <2>5. ASSUME NEW g \in Handles, memory'[g] # 0
        PROVE  \/ \E e \in Held(table) : e.handle = g
               \/ \E u \in Threads : Unlisted(u)' /\ mem'[u] = g
    <3>1. CASE g = h
      BY <1>5, <1>9, <2>2, <3>1
    <3>2. CASE g # h
      BY <1>7, <2>2, <2>5, <3>2
    <3> QED BY <3>1, <3>2
  <2>6. \A u \in Threads : ~Delisting(u)'
    BY <1>5, <1>9
  <2>7. \A u \in Threads :
          Unlisted(u)' => mem'[u] \in Handles /\ \A e \in Held(table) : e.handle # mem'[u]
    BY <1>5, <2>2, <2>3
  <2>8. ListInv'
    BY <1>6, <2>4, <2>5, <2>6, <2>7 DEF ListInv
  <2> QED BY <1>4, <1>6, <2>8, NotSought
<1>10. CASE call[t] = "vkFreeMemory"
  <2>1. memory' = [memory EXCEPT ![mem[t]] = 0] /\ mem' = mem
    BY <1>10 DEF Driver
  <2>2. mem[t] \in Handles
    BY <1>10 DEF IInv, MemoryInv, CallInv, OnHandle
  <2>3. memory'[mem[t]] = 0 /\ \A g \in Handles : g # mem[t] => memory'[g] = memory[g]
    BY <1>8, <2>1, <2>2
  <2>4. ASSUME NEW e \in Held(table)
        PROVE  \/ e.id = memory'[e.handle] /\ e.id # 0
               \/ \E u \in Threads : Delisting(u)' /\ mem'[u] = e.handle
    <3>1. CASE e.handle = mem[t]
      BY <1>5, <1>10, <2>1, <3>1
    <3>2. CASE e.handle # mem[t]
      BY <1>7, <2>3, <3>2
    <3> QED BY <3>1, <3>2
  <2>5. \A g \in Handles : memory'[g] # 0 => \E e \in Held(table) : e.handle = g
    BY <1>7, <2>3
  <2>6. \A u \in Threads : Delisting(u)' => mem'[u] \in Handles /\ memory'[mem'[u]] = 0
    BY <1>5, <2>1, <2>2, <2>3
  <2>7. \A u \in Threads : ~Unlisted(u)'
    BY <1>5, <1>10
  <2>8. ListInv'
    BY <1>6, <2>4, <2>5, <2>6, <2>7 DEF ListInv
  <2> QED BY <1>4, <1>6, <2>8, NotSought
<1>11. CASE call[t] \notin {"vkAllocateMemory", "vkFreeMemory"}
  <2>1. memory' = memory /\ mem' = mem
    BY <1>11 DEF Driver
  <2>2. \A u \in Threads : ~Unlisted(u)' /\ ~Delisting(u)'
    BY <1>5, <1>11
  <2>3. ListInv'
    BY <1>6, <1>7, <2>1, <2>2 DEF ListInv
  <2> QED BY <1>4, <1>6, <2>3, NotSought
<1> QED BY <1>9, <1>10, <1>11

\* Every step keeps it but one that makes the array move and pLastMapped stay behind.
LEMMA EntryNext ==
    ASSUME IInv, locked, EntryInv, [Next]_vars,
           \A t \in Threads : AddEntry(t) => Points(table', table'.last)
    PROVE  EntryInv'
<1>1. CASE UNCHANGED vars
    BY <1>1, NoStep DEF vars, driverVars
<1>2. CASE Signal
    BY <1>2, NoStep DEF Signal
<1>3. ASSUME NEW t \in Threads, Step(t) PROVE EntryInv'
  <2>1. CASE \/ EnterApi(t) \/ LeaveApi(t) \/ EnterMap(t) \/ LeaveMap(t) \/ EnterInfo(t)
             \/ LeaveInfo(t) \/ Create(t) \/ Finish(t) \/ UseEntry(t) \/ Remember(t)
    BY <2>1, QuietSteps
  <2>2. CASE Each(t) \/ Flushed(t)
    BY <2>2, FlushSteps
  <2>3. CASE FindEntry(t)
    BY <2>3, FindStep
  <2>4. CASE AddEntry(t)
    BY <2>4, AddStep
  <2>5. CASE MapEntry(t)
    BY <2>5, MapStep
  <2>6. CASE RemoveEntry(t)
    BY <2>6, RemoveStep
  <2>7. CASE Driver(t)
    BY <2>7, DriverListed
  <2>8. CASE Return(t)
    BY <2>8, EndSteps
  <2> QED BY <1>3, <2>1, <2>2, <2>3, <2>4, <2>5, <2>6, <2>7, <2>8 DEF Step
<1>4. ASSUME NEW t \in Threads, NEW n \in DOMAIN Hooks, NEW h \in Handles \cup {NoHandle},
             Call(t, n, h)
      PROVE  EntryInv'
    BY <1>4, EndSteps
<1> QED BY <1>1, <1>2, <1>3, <1>4 DEF Next

\* It holds at the beginning.
LEMMA EntryInit == Init => EntryInv
<1> SUFFICES ASSUME Init PROVE EntryInv
    OBVIOUS
<1>1. table.entries = [i \in {} |-> Unused] /\ table.last = Null
    BY DEF Init, NoTable
<1>2. InUse(table) = {} /\ Held(table) = {}
    BY <1>1 DEF InUse, Held
<1>3. Tidy(table)
    BY <1>1, <1>2 DEF Tidy, Points
<1>4. \A t \in Threads : call[t] = "none"
    BY DEF Init
<1>5. \A t \in Threads : ~Sought(t) /\ ~Unlisted(t) /\ ~Delisting(t)
    BY <1>4 DEF Sought, Unlisted, Delisting
<1>6. \A h \in Handles : memory[h] = 0
    BY DEF Init
<1> QED BY <1>2, <1>3, <1>5, <1>6 DEF EntryInv, ListInv, SoughtInv

\* Under it every entry that is used is the one of the memory.
LEMMA OwnEntries ==
    ASSUME IInv, locked, EntryInv
    PROVE  EntriesAreOwn
<1> SUFFICES ASSUME NEW t \in Threads, Doing(t, "use")
             PROVE  /\ found[t] # Null
                    /\ Points(table, found[t])
                    /\ table.entries[found[t][2]] =
                         [valid |-> TRUE, handle |-> Subject(t), id |-> memory[Subject(t)]]
    BY DEF EntriesAreOwn
<1> DEFINE e == table.entries[found[t][2]]
<1>1. Sought(t)
    BY MarkedHolds DEF IInv
<1>2. /\ Subject(t) \in Handles /\ memory[Subject(t)] # 0
      /\ found[t][1] = table.block /\ found[t][2] \in InUse(table)
      /\ e.handle = Subject(t)
    BY <1>1 DEF EntryInv, SoughtInv
<1>3. e \in Entry /\ e.valid /\ found[t][2] # 0 /\ found[t][2] \in DOMAIN table.entries
    BY <1>2, ArrayOf DEF IInv, TableInv, InUse
<1>4. e \in Held(table)
    BY <1>2 DEF Held
<1>5. e.id = memory[Subject(t)]
  <2>1. \A u \in Threads : Delisting(u) => memory[mem[u]] = 0
    BY DEF EntryInv, ListInv
  <2> HIDE DEF e
  <2> QED BY <1>2, <1>4, <2>1 DEF EntryInv, ListInv
<1>6. e = [valid |-> TRUE, handle |-> Subject(t), id |-> memory[Subject(t)]]
  <2>1. e = [valid |-> e.valid, handle |-> e.handle, id |-> e.id] /\ e.valid \in BOOLEAN
    <3> HIDE DEF e
    <3> QED BY <1>3 DEF Entry
  <2> HIDE DEF e
  <2> QED BY <1>2, <1>3, <1>5, <2>1
<1>7. found[t] # Null
    BY <1>3 DEF Null
<1> QED BY <1>2, <1>3, <1>6, <1>7 DEF Points

-----------------------------------------------------------------------------
(* As long as pLastMapped points into the array.                           *)

Pointing == locked /\ Points(table, table.last)

\* With TraceLock, and as long as no growth of the array has left pLastMapped behind,
\* every interceptor uses the entry of its memory, whatever the number of memories.
THEOREM OwnWhilePointing == Spec => ([]Pointing => []EntriesAreOwn)
<1>1. Init => EntryInv
    BY EntryInit
<1>2. IInv /\ Pointing /\ Pointing' /\ EntryInv /\ [Next]_vars => EntryInv'
  <2> SUFFICES ASSUME IInv, Pointing, Pointing', EntryInv, [Next]_vars PROVE EntryInv'
    OBVIOUS
  <2>1. locked /\ Points(table', table'.last)
    BY DEF Pointing, Points
  <2> QED BY <2>1, EntryNext
<1>3. IInv /\ Pointing /\ EntryInv => EntriesAreOwn
    BY OwnEntries DEF Pointing
<1> QED BY <1>1, <1>2, <1>3, Invariance, PTL DEF Spec

-----------------------------------------------------------------------------
(* With no more handles than the array has entries from the beginning.     *)

\* The array is deleted, or has room for the handles.
Roomy(tab) == Len(tab.entries) = 0 \/ Len(tab.entries) >= Cardinality(Handles)

\* An array all of whose entries are in use holds every handle.
LEMMA FullHoldsAll ==
    ASSUME NEW tab, IsTable(tab), Tidy(tab), InUse(tab) = 1..Len(tab.entries),
           Len(tab.entries) >= Cardinality(Handles), NEW h \in Handles
    PROVE  \E i \in InUse(tab) : tab.entries[i].handle = h
<1> SUFFICES ASSUME \A i \in InUse(tab) : tab.entries[i].handle # h
             PROVE  FALSE
    OBVIOUS
<1> DEFINE n == Len(tab.entries)
           f == [i \in 1..n |-> tab.entries[i].handle]
<1>1. n \in Nat
    BY ArrayOf
<1>2. IsFiniteSet(1..n) /\ Cardinality(1..n) = n
    BY <1>1, FS_Interval
<1>3. /\ IsFiniteSet(Handles \ {h}) /\ Cardinality(Handles \ {h}) = Cardinality(Handles) - 1
      /\ Cardinality(Handles) \in Nat
    BY HandlesAreFinite, FS_RemoveElement, FS_CardinalityType
<1>4. f \in [1..n -> Handles \ {h}]
    BY DEF Tidy
<1>5. \A i, j \in 1..n : f[i] = f[j] => i = j
    BY DEF Tidy
<1>6. Cardinality(Handles \ {h}) < Cardinality(1..n)
    BY <1>1, <1>2, <1>3
<1>7. \E i, j \in 1..n : i # j /\ f[i] = f[j]
  <2> DEFINE S == 1..n
             T == Handles \ {h}
  <2>1. /\ IsFiniteSet(S) /\ IsFiniteSet(T) /\ Cardinality(T) < Cardinality(S)
        /\ f \in [S -> T]
    BY <1>2, <1>3, <1>4, <1>6
  <2> HIDE DEF S, T, f
  <2>2. \E x, y \in S : x # y /\ f[x] = f[y]
    BY ONLY <2>1, FS_PigeonHole
  <2> QED BY <2>2 DEF S
<1> HIDE DEF f
<1> QED BY <1>5, <1>7

\* So a handle that it does not hold finds room in it.
LEMMA AddsInPlace ==
    ASSUME NEW tab, IsTable(tab), Tidy(tab), Roomy(tab),
           Cardinality(Handles) <= FirstCapacity, NEW h \in Handles, NEW id \in Nat,
           \A i \in InUse(tab) : tab.entries[i].handle # h,
           NEW new \in Added(tab, h, id)
    PROVE  Points(new, new.last) /\ Roomy(new)
<1>1. PICK es, slot : PutInto(es, slot, tab, h, id, new)
    BY AddedParts
<1>2. /\ Places(es, tab, new) /\ es \in Seq(Entry)
      /\ new.entries = [es EXCEPT ![slot] = [valid |-> TRUE, handle |-> h, id |-> id]]
    BY <1>1 DEF PutInto, Extends
<1>3. Len(new.entries) = Len(es) /\ DOMAIN new.entries = DOMAIN es
  <2> DEFINE v == [valid |-> TRUE, handle |-> h, id |-> id]
  <2>1. v \in Entry
    BY DEF Entry
  <2> HIDE DEF v
  <2>2. new.entries = [es EXCEPT ![slot] = v]
    BY <1>2 DEF v
  <2> QED BY <1>2, <2>1, <2>2
<1>4. CASE Len(tab.entries) = 0 /\ Len(es) = FirstCapacity /\ new.last = Null
    BY <1>3, <1>4 DEF Points, Roomy
<1>5. CASE es = tab.entries /\ new.last = tab.last /\ new.block = tab.block
    BY <1>3, <1>5 DEF Points, Roomy, Tidy
<1>6. CASE /\ Len(tab.entries) > 0 /\ Len(es) = 2 * Len(tab.entries)
           /\ tab.numEntrys = Len(tab.entries) /\ InUse(tab) = 1..Len(tab.entries)
  <2>1. Len(tab.entries) >= Cardinality(Handles)
    BY <1>6 DEF Roomy
  <2> QED BY <1>6, <2>1, FullHoldsAll
<1> QED BY <1>2, <1>4, <1>5, <1>6 DEF Places

\* Removing an entry deletes the array or leaves its length.
LEMMA RemovedRoom ==
    ASSUME NEW tab, IsTable(tab), Roomy(tab), NEW e \in Nat \X Nat
    PROVE  Roomy(Removed(tab, e))
<1>1. CASE e = Null
    BY <1>1 DEF Removed
<1>2. CASE e # Null
  <2> DEFINE cleared == IF Points(tab, e) THEN [tab EXCEPT !.entries[e[2]] = Unused] ELSE tab
             last == [cleared EXCEPT !.last = IF @ = e THEN Null ELSE @]
  <2>1. Removed(tab, e) = Shrunk(last)
    BY <1>2 DEF Removed
  <2>2. IsTable(cleared) /\ Len(cleared.entries) = Len(tab.entries)
    <3>1. CASE Points(tab, e)
      <4> DEFINE k == e[2]
                 es == [tab.entries EXCEPT ![k] = Unused]
      <4>1. k \in 1..Len(tab.entries)
        BY <1>2, <3>1, ArrayOf DEF Points
      <4>2. es \in Seq(Entry) /\ Len(es) = Len(tab.entries)
        BY <4>1, ArrayOf, UnusedIsEntry
      <4>3. cleared = [tab EXCEPT !.entries = es]
        BY <3>1
      <4> HIDE DEF k, es, cleared
      <4> QED BY <4>2, <4>3 DEF IsTable
    <3>2. CASE ~Points(tab, e)
      BY <3>2
    <3> QED BY <3>1, <3>2
  <2> HIDE DEF cleared
  <2>3. /\ last.entries = cleared.entries
        /\ last = [block |-> last.block, entries |-> last.entries,
                   numEntrys |-> last.numEntrys, last |-> last.last]
    BY <2>2 DEF IsTable
  <2> HIDE DEF last
  <2>4. Roomy(last)
    BY <2>2, <2>3 DEF Roomy
  <2> DEFINE used == {i \in 1..last.numEntrys : last.entries[i].valid}
  <2>5. CASE used = {}
    <3>1. Shrunk(last) = [NoTable EXCEPT !.block = last.block]
      BY <2>5 DEF Shrunk
    <3>2. Shrunk(last).entries = [i \in {} |-> Unused]
      BY <3>1 DEF NoTable
    <3>3. Len([i \in {} |-> Unused]) = 0
      <4>1. [i \in {} |-> Unused] = << >>
        OBVIOUS
      <4> QED BY <4>1
    <3> QED BY <2>1, <3>2, <3>3 DEF Roomy
  <2>6. CASE used # {}
    <3> DEFINE n == CHOOSE i \in used : \A j \in used : i >= j
    <3>1. Shrunk(last) = [last EXCEPT !.numEntrys = n]
      BY <2>6 DEF Shrunk
    <3> HIDE DEF n, used
    <3>2. Shrunk(last).entries = last.entries
      BY <2>3, <3>1
    <3> QED BY <2>1, <2>4, <3>2 DEF Roomy
  <2> QED BY <2>5, <2>6
<1> QED BY <1>1, <1>2

Spacious == locked /\ Cardinality(Handles) <= FirstCapacity

SpaceInv == Spacious => EntryInv /\ Roomy(table)

\* The array never grows.
LEMMA SpaceNext == IInv /\ SpaceInv /\ [Next]_vars => SpaceInv'
<1> SUFFICES ASSUME IInv, SpaceInv, [Next]_vars, Spacious'
             PROVE  EntryInv' /\ Roomy(table')
    BY DEF SpaceInv, Roomy
<1>1. locked' = locked
  <2>1. ASSUME NEW t \in Threads, Step(t) PROVE locked' = locked
    BY <2>1 DEF Step, EnterApi, LeaveApi, EnterMap, LeaveMap, EnterInfo, LeaveInfo, Create,
       Finish, Flushed, Each, FindEntry, UseEntry, AddEntry, MapEntry, RemoveEntry, Remember,
       Driver, Return
  <2> QED BY <2>1 DEF Next, Signal, Call, vars
<1>2. locked /\ Cardinality(Handles) <= FirstCapacity /\ EntryInv /\ Roomy(table)
    BY <1>1 DEF Spacious, SpaceInv
<1>3. IsTable(table) /\ Tidy(table)
    BY <1>2 DEF IInv, TableInv, EntryInv
<1>4. ASSUME NEW t \in Threads, AddEntry(t)
      PROVE  Points(table', table'.last) /\ Roomy(table')
  <2>1. Doing(t, "add") /\ table' \in Added(table, mem[t], memory[mem[t]])
    BY <1>4 DEF AddEntry
  <2>2. Unlisted(t) /\ call[t] = "vkAllocateMemory"
    BY <2>1, LooksOf DEF IInv, Doing, Looks, Unlisted, Did
  <2>3. mem[t] \in Handles /\ \A e \in Held(table) : e.handle # mem[t]
    BY <1>2, <2>2 DEF EntryInv, ListInv
  <2>4. memory[mem[t]] \in Nat /\ \A i \in InUse(table) : table.entries[i].handle # mem[t]
    BY <2>3 DEF IInv, TypeOK, TypeDriver, Held
  <2> QED BY <1>2, <1>3, <2>1, <2>3, <2>4, AddsInPlace
<1>5. EntryInv'
    BY <1>2, <1>4, EntryNext
<1>6. ASSUME NEW t \in Threads, MapEntry(t) PROVE Roomy(table')
  <2>1. PICK e : table' = [table EXCEPT !.last = e]
    BY <1>6 DEF MapEntry
  <2>2. table'.entries = table.entries
    BY <1>3, <2>1 DEF IsTable
  <2> QED BY <1>2, <2>2 DEF Roomy
<1>7. ASSUME NEW t \in Threads, RemoveEntry(t) PROVE Roomy(table')
  <2>1. PICK e \in Find(table, mem[t]) : table' = Removed(table, e)
    BY <1>7 DEF RemoveEntry
  <2>2. e \in Nat \X Nat
    BY <1>3, <2>1, FindType
  <2> QED BY <1>2, <1>3, <2>1, <2>2, RemovedRoom
<1>8. \/ UNCHANGED table
      \/ \E t \in Threads : AddEntry(t) \/ MapEntry(t) \/ RemoveEntry(t)
  <2>1. ASSUME NEW t \in Threads, Step(t)
        PROVE  UNCHANGED table \/ AddEntry(t) \/ MapEntry(t) \/ RemoveEntry(t)
    BY <2>1 DEF Step, EnterApi, LeaveApi, EnterMap, LeaveMap, EnterInfo, LeaveInfo, Create,
       Finish, Flushed, Each, FindEntry, UseEntry, Remember, Driver, Return
  <2> QED BY <2>1 DEF Next, Signal, Call, vars
<1> QED BY <1>2, <1>4, <1>5, <1>6, <1>7, <1>8

\* With TraceLock, and with no more memories at a time than init_mem_info makes room for,
\* every interceptor uses the entry of its memory.
THEOREM EntriesFound == Spec => []FoundIsOwn
<1>1. Init => SpaceInv
  <2>1. Init => Roomy(table)
    <3>1. Init => table.entries = << >>
      <4>1. [i \in {} |-> Unused] = << >>
        OBVIOUS
      <4> QED BY <4>1 DEF Init, NoTable
    <3> QED BY <3>1 DEF Roomy
  <2> QED BY <2>1, EntryInit DEF SpaceInv
<1>2. IInv /\ SpaceInv => FoundIsOwn
    BY OwnEntries DEF SpaceInv, Spacious, FoundIsOwn
<1> QED BY <1>1, <1>2, SpaceNext, Invariance, PTL DEF Spec
=============================================================================
