-------------------------- MODULE RecordServer_proofs --------------------------
(***************************************************************************)
(* Proofs about the trace server: as long as clients are opened one at a   *)
(* time and only the program that was started connects, every recording    *)
(* thread is joined and every trace file is whole, for all numbers of      *)
(* clients, threads, slots, rounds and packets.                            *)
(***************************************************************************)
EXTENDS RecordServerProps, TLAPS, SequenceTheorems

\* The first recording thread of the round.
First == info[0].thread

\* The threads that have chosen the name of their trace file.
Named == {t \in Threads : pc[t] \in {"open", "header", "read", "finish", "done", "failed"}}

\* The threads created are the first ones; those behind accept have a client.
ThreadInv ==
    /\ \A t \in Threads : pc[t] = "none" <=> t > threads
    /\ \A t \in Threads : client[t] = NoClient <=> pc[t] \in {"none", "listen", "accept"}
    /\ \A t, u \in Opening : t = u

\* The threads of a round have its slots in order; count tells how many there are, or one
\* less while one is being created; those before joining have ended, and so have all the
\* threads of the rounds before.
RoundInv ==
    main \in {"watch", "join"} =>
        /\ First \in 1..threads
        /\ \A t \in 1..threads : t < First => pc[t] = "done"
        /\ \A t \in 1..threads : t >= First => slot[t] = t - First
        /\ \A t \in Threads : pc[t] = "raise" =>
                spawned[t] = threads /\ count = threads - First /\ pc[threads] = "accept"
        /\ (\A t \in Threads : pc[t] # "raise") => count = threads - First + 1
        /\ \A i \in 0..(count - 1) : info[i].thread = First + i
        /\ joining <= count
        /\ \A i \in 0..(joining - 1) : pc[First + i] = "done"
        /\ \A i \in 0..(Slots - 1) : info[i].requests =>
                First + i <= threads /\ pc[First + i] \in {"finish", "done"}

\* Who waits in the listen queue waits there once and is recorded by nobody; what comes
\* before the header has read nothing; the program's trace is the only one with -p.
ClientInv ==
    /\ Running =>
        /\ \A i \in 1..Len(backlog) : place[backlog[i]] = "backlog"
        /\ \A i, j \in 1..Len(backlog) : backlog[i] = backlog[j] => i = j
    /\ \A t \in Threads : client[t] # NoClient => place[client[t]] \notin {"away", "backlog"}
    /\ \A c \in Clients : place[c] \in {"away", "backlog"} => got[c] = 0
    /\ \A t \in Threads : pc[t] \in {"spawn", "raise", "name", "open", "header"} =>
            got[client[t]] = 0
    /\ ~IsServer =>
        /\ \A t \in Threads : client[t] \in {program, NoClient}
        /\ \A c \in Clients : place[c] = "backlog" => c = program

\* No two threads have the same file, because a server numbers names on.
NameInv ==
    /\ IsServer =>
        /\ main # "start" => base < fileIndex
        /\ \A t \in Named : name[t][1] < fileIndex /\ name[t][2] < fileIndex
        /\ main # "start" /\ ~created =>
            \A t \in Named : name[t][1] = base => pc[t] = "open"
    /\ \A t, u \in Named : name[t] = name[u] => t = u

\* What is in the file of each thread, and why a thread ends.
FileInv ==
    \A t \in Threads :
        /\ pc[t] \in {"header", "read", "finish", "done"} => name[t] \in DOMAIN files
        /\ pc[t] \in {"header", "read", "finish"} =>
                files[name[t]] = [i \in 1..got[client[t]] |-> <<client[t], i>>]
        /\ pc[t] = "done" =>
                files[name[t]] = [i \in 1..(got[client[t]] + 1) |->
                                    <<client[t], IF i <= got[client[t]] THEN i ELSE 0>>]
        /\ pc[t] \in {"finish", "done"} =>
                arrived \/ (got[client[t]] = sent[client[t]] /\ place[client[t]] # "open")

\* The inductive invariant.
IInv == TypeOK /\ ThreadInv /\ RoundInv /\ JoinsAll /\ ClientInv /\ NameInv /\ FileInv

------------------------------------------------------------------------------
(* Files and threads.                                                      *)

\* What fwrite makes of a file that has the first k packets of c: the tables.
LEMMA TablesWritten ==
    ASSUME NEW k \in Nat, NEW c
    PROVE  With([i \in 1..k |-> <<c, i>>], k + 1, <<c, 0>>) =
                [i \in 1..(k + 1) |-> <<c, IF i <= k THEN i ELSE 0>>]
<1>1. (1..k) \cup {k + 1} = 1..(k + 1)
    OBVIOUS
<1>2. \A i \in 1..(k + 1) : i = k + 1 <=> ~(i <= k)
    OBVIOUS
<1> QED BY <1>1, <1>2 DEF With

\* The next packet.
LEMMA PacketWritten ==
    ASSUME NEW k \in Nat, NEW c
    PROVE  With([i \in 1..k |-> <<c, i>>], k + 1, <<c, k + 1>>) = [i \in 1..(k + 1) |-> <<c, i>>]
<1>1. (1..k) \cup {k + 1} = 1..(k + 1)
    OBVIOUS
<1>2. \A i \in 1..(k + 1) : i # k + 1 => i \in 1..k
    OBVIOUS
<1> QED BY <1>1, <1>2 DEF With

\* A thread that runs belongs to the round that main is in.
LEMMA InRound ==
    ASSUME IInv, Running, NEW t \in Threads, pc[t] \notin {"none", "done"}
    PROVE  /\ main \in {"watch", "join"}
           /\ t \in 1..threads /\ First \in 1..threads /\ t >= First /\ slot[t] = t - First
           /\ threads \in Nat /\ First \in Nat /\ threads <= MaxThreads
<1>1. t \in 1..threads /\ threads \in Nat /\ threads <= MaxThreads
    BY LimitsArePositive DEF IInv, TypeOK, ThreadInv, Threads
<1>2. main \in {"watch", "join"}
    BY <1>1 DEF IInv, TypeOK, JoinsAll, Running
<1> QED BY <1>1, <1>2 DEF IInv, RoundInv
------------------------------------------------------------------------------
(* The clients.                                                            *)

\* What does not touch main and the recording threads keeps what is known of them.
LEMMA ThreadsStay ==
    ASSUME IInv, UNCHANGED <<main, joining, program, info, count, threads, pc, slot, client, spawned>>
    PROVE  ThreadInv' /\ RoundInv' /\ JoinsAll'
BY DEF IInv, ThreadInv, RoundInv, JoinsAll, First, Opening

\* What does not touch the names keeps them apart.
LEMMA NamesStay ==
    ASSUME IInv, UNCHANGED <<main, program, base, fileIndex, created, name>>, Named' = Named,
           \A t \in Named : pc[t] = "open" => pc'[t] = "open"
    PROVE  NameInv'
BY DEF IInv, NameInv, IsServer, Named

\* What leaves the files and the counts of packets alone keeps what is in the files.
LEMMA FilesStay ==
    ASSUME IInv, UNCHANGED <<client, name, files, got, sent>>, arrived => arrived',
           \A t \in Threads : pc'[t] \in {"header", "read", "finish", "done"} => pc'[t] = pc[t],
           \A c \in Clients : place'[c] = "open" => place[c] = "open"
    PROVE  FileInv'
<1> SUFFICES ASSUME NEW t \in Threads, pc'[t] \in {"header", "read", "finish", "done"}
             PROVE  FileInv!(t)'
    BY DEF FileInv
<1>1. pc'[t] = pc[t]
    OBVIOUS
<1>2. pc[t] \in {"finish", "done"} => client[t] \in Clients
    BY DEF IInv, TypeOK, ThreadInv
<1> QED BY <1>1, <1>2 DEF IInv, FileInv

\* A client comes to the backlog: nothing recorded changes.
LEMMA ConnectKeeps ==
    ASSUME ~Children, IInv, NEW c \in Clients, Connect(c)
    PROVE  IInv'
<1>1. /\ place[c] = "away" /\ Running /\ (IsServer \/ c = program)
      /\ place' = [place EXCEPT ![c] = "backlog"] /\ backlog' = Append(backlog, c)
      /\ UNCHANGED <<mainVars, status, roundVars, fileIndex, listening, signalVars, threadVars,
                     files, sent, got>>
    BY DEF Connect
<1>2. UNCHANGED <<main, joining, program, status, info, count, created, base, fileIndex, listening,
                  arrived, handler, threads, pc, slot, client, spawned, name, files, sent, got>>
    BY <1>1 DEF mainVars, roundVars, signalVars, threadVars
<1>3. /\ backlog' \in Seq(Clients) /\ Len(backlog') = Len(backlog) + 1
      /\ \A i \in 1..Len(backlog) : backlog'[i] = backlog[i] /\ backlog[i] \in Clients
      /\ backlog'[Len(backlog) + 1] = c /\ Len(backlog) \in Nat
    BY <1>1, AppendProperties, ElementOfSeq DEF IInv, TypeOK
<1>4. TypeOK'
    BY <1>1, <1>2, <1>3 DEF IInv, TypeOK
<1>5. ThreadInv' /\ RoundInv' /\ JoinsAll' /\ NameInv'
    BY <1>2, ThreadsStay, NamesStay DEF Named
<1>6. ClientInv'
    <2>1. place'[c] = "backlog" /\ \A d \in Clients : d # c => place'[d] = place[d]
        BY <1>1 DEF IInv, TypeOK
    <2>2. /\ \A i \in 1..Len(backlog) : place[backlog[i]] = "backlog" /\ backlog[i] # c
          /\ \A i, j \in 1..Len(backlog) : backlog[i] = backlog[j] => i = j
        BY <1>1 DEF IInv, ClientInv
    <2>3. \A i \in 1..Len(backlog') : i \in 1..Len(backlog) \/ i = Len(backlog) + 1
        BY <1>3
    <2>4. /\ \A i \in 1..Len(backlog') : place'[backlog'[i]] = "backlog"
          /\ \A i, j \in 1..Len(backlog') : backlog'[i] = backlog'[j] => i = j
        BY <1>3, <2>1, <2>2, <2>3
    <2>5. \A t \in Threads : client[t] # NoClient => client[t] \in Clients /\ client[t] # c
        BY <1>1 DEF IInv, TypeOK, ClientInv
    <2>6. \A t \in Threads : client[t] # NoClient => place'[client[t]] \notin {"away", "backlog"}
        BY <2>1, <2>5 DEF IInv, ClientInv
    <2>7. \A d \in Clients : place'[d] \in {"away", "backlog"} => got[d] = 0
        BY <1>1, <2>1 DEF IInv, ClientInv
    <2>8. ~IsServer => \A d \in Clients : place'[d] = "backlog" => d = program
        BY <1>1, <2>1 DEF IInv, ClientInv
    <2> QED BY <1>2, <2>4, <2>6, <2>7, <2>8 DEF IInv, ClientInv, IsServer
<1>7. FileInv'
    BY <1>1, <1>2, FilesStay DEF IInv, TypeOK
<1> QED BY <1>4, <1>5, <1>6, <1>7 DEF IInv

\* A client that finds nobody listening is gone.
LEMMA RefusedKeeps ==
    ASSUME IInv, NEW c \in Clients, Refused(c)
    PROVE  IInv'
<1>1. /\ place[c] = "away" /\ place' = [place EXCEPT ![c] = "refused"]
      /\ UNCHANGED <<mainVars, status, roundVars, fileIndex, listening, backlog, signalVars,
                     threadVars, files, sent, got>>
    BY DEF Refused
<1>2. UNCHANGED <<main, joining, program, status, info, count, created, base, fileIndex, listening,
                  backlog, arrived, handler, threads, pc, slot, client, spawned, name, files,
                  sent, got>>
    BY <1>1 DEF mainVars, roundVars, signalVars, threadVars
<1>3. TypeOK'
    BY <1>1, <1>2 DEF IInv, TypeOK
<1>4. ThreadInv' /\ RoundInv' /\ JoinsAll' /\ NameInv'
    BY <1>2, ThreadsStay, NamesStay DEF Named
<1>5. ClientInv'
    BY <1>1, <1>2, ElementOfSeq DEF IInv, TypeOK, ClientInv, Running, IsServer
<1>6. FileInv'
    BY <1>1, <1>2, FilesStay DEF IInv, TypeOK
<1> QED BY <1>3, <1>4, <1>5, <1>6 DEF IInv

\* The end of the server takes the connections with it.
LEMMA LoseKeeps ==
    ASSUME IInv, NEW c \in Clients, Lose(c)
    PROVE  IInv'
<1>1. /\ ~Running /\ place[c] \in {"backlog", "open"}
      /\ place' = [place EXCEPT ![c] = "refused"]
      /\ UNCHANGED <<mainVars, status, roundVars, fileIndex, listening, backlog, signalVars,
                     threadVars, files, sent, got>>
    BY DEF Lose
<1>2. UNCHANGED <<main, joining, program, status, info, count, created, base, fileIndex, listening,
                  backlog, arrived, handler, threads, pc, slot, client, spawned, name, files,
                  sent, got>>
    BY <1>1 DEF mainVars, roundVars, signalVars, threadVars
<1>3. TypeOK'
    BY <1>1, <1>2 DEF IInv, TypeOK
<1>4. ThreadInv' /\ RoundInv' /\ JoinsAll' /\ NameInv'
    BY <1>2, ThreadsStay, NamesStay DEF Named
<1>5. ClientInv'
    BY <1>1, <1>2, ElementOfSeq DEF IInv, TypeOK, ClientInv, Running, IsServer
<1>6. FileInv'
    BY <1>1, <1>2, FilesStay DEF IInv, TypeOK
<1> QED BY <1>3, <1>4, <1>5, <1>6 DEF IInv

\* What a client sends is still to be read: no file changes.
LEMMA SendKeeps ==
    ASSUME IInv, NEW c \in Clients, Send(c)
    PROVE  IInv'
<1>1. /\ place[c] = "open" /\ sent[c] < MaxPackets /\ sent' = [sent EXCEPT ![c] = @ + 1]
      /\ UNCHANGED <<mainVars, status, roundVars, fileIndex, listening, backlog, signalVars,
                     threadVars, files, place, got>>
    BY DEF Send
<1>2. UNCHANGED <<main, joining, program, status, info, count, created, base, fileIndex, listening,
                  backlog, arrived, handler, threads, pc, slot, client, spawned, name, files,
                  place, got>>
    BY <1>1 DEF mainVars, roundVars, signalVars, threadVars
<1>3. TypeOK'
    <2>1. sent \in [Clients -> 0..MaxPackets]
        BY DEF IInv, TypeOK
    <2>2. sent[c] + 1 \in 0..MaxPackets
        BY <1>1, <2>1, LimitsArePositive
    <2>3. sent' \in [Clients -> 0..MaxPackets]
        BY <1>1, <2>1, <2>2
    <2> QED BY <1>2, <2>3 DEF IInv, TypeOK
<1>4. ThreadInv' /\ RoundInv' /\ JoinsAll' /\ NameInv'
    BY <1>2, ThreadsStay, NamesStay DEF Named
<1>5. ClientInv'
    BY <1>2 DEF IInv, ClientInv, Running, IsServer
<1>6. FileInv'
    <2>1. \A t \in Threads : pc[t] \in {"finish", "done"} /\ ~arrived =>
                client[t] \in Clients /\ client[t] # c
        BY <1>1 DEF IInv, TypeOK, ThreadInv, FileInv
    <2>2. \A d \in Clients : d # c => sent'[d] = sent[d]
        BY <1>1 DEF IInv, TypeOK
    <2> QED BY <1>2, <2>1, <2>2 DEF IInv, FileInv
<1> QED BY <1>3, <1>4, <1>5, <1>6 DEF IInv

\* A client that leaves sends no more.
LEMMA LeaveKeeps ==
    ASSUME IInv, NEW c \in Clients, NEW how \in {"marked", "killed"}, Leave(c, how)
    PROVE  IInv'
<1>1. /\ place[c] = "open" /\ place' = [place EXCEPT ![c] = how]
      /\ UNCHANGED <<mainVars, status, roundVars, fileIndex, listening, backlog, signalVars,
                     threadVars, files, sent, got>>
    BY DEF Leave
<1>2. UNCHANGED <<main, joining, program, status, info, count, created, base, fileIndex, listening,
                  backlog, arrived, handler, threads, pc, slot, client, spawned, name, files,
                  sent, got>>
    BY <1>1 DEF mainVars, roundVars, signalVars, threadVars
<1>3. TypeOK'
    BY <1>1, <1>2 DEF IInv, TypeOK
<1>4. ThreadInv' /\ RoundInv' /\ JoinsAll' /\ NameInv'
    BY <1>2, ThreadsStay, NamesStay DEF Named
<1>5. ClientInv'
    BY <1>1, <1>2, ElementOfSeq DEF IInv, TypeOK, ClientInv, Running, IsServer
<1>6. FileInv'
    BY <1>1, <1>2, FilesStay DEF IInv, TypeOK
<1> QED BY <1>3, <1>4, <1>5, <1>6 DEF IInv
------------------------------------------------------------------------------
(* The recording threads.                                                  *)

Places == {"none", "listen", "accept", "spawn", "raise", "name", "open", "header", "read",
           "finish", "done", "failed"}

\* A thread that goes from one place to the next keeps the order of the round.
LEMMA RoundMoves ==
    ASSUME IInv, Running, NEW t \in Threads, NEW where \in Places \ {"none", "raise"},
           pc[t] \notin {"none", "done", "raise"}, pc' = [pc EXCEPT ![t] = where],
           pc[t] = "finish" => where = "done", pc[t] = "accept" => Opening = {},
           UNCHANGED <<main, joining, program, count, threads, slot, spawned>>,
           \A i \in 0..(Slots - 1) :
                /\ info'[i].thread = info[i].thread
                /\ info'[i].requests => info[i].requests \/ (i = slot[t] /\ where = "finish")
    PROVE  RoundInv' /\ JoinsAll'
<1>1. /\ main \in {"watch", "join"} /\ t \in 1..threads /\ First \in 1..threads /\ t >= First
      /\ slot[t] = t - First /\ threads \in Nat /\ First \in Nat /\ threads <= MaxThreads
    BY InRound
<1>2. pc \in [Threads -> Places] /\ count \in 0..Slots /\ Slots \in Nat \ {0} /\ joining \in 0..Slots
    BY LimitsArePositive DEF IInv, TypeOK, Places
<1>3. pc'[t] = where /\ \A u \in Threads : u # t => pc'[u] = pc[u]
    BY <1>2
<1>4. First' = First
    BY <1>2 DEF First
<1>5. JoinsAll'
    BY <1>1 DEF JoinsAll
<1>6. \A u \in 1..threads : u \in Threads
    BY <1>1, LimitsArePositive DEF Threads
<1>7. \A u \in 1..threads' : u < First' => pc'[u] = "done"
    BY <1>1, <1>3, <1>4, <1>6 DEF IInv, RoundInv
<1>8. \A u \in 1..threads' : u >= First' => slot'[u] = u - First'
    BY <1>1, <1>4 DEF IInv, RoundInv
<1>9. \A u \in Threads : pc'[u] = "raise" =>
            spawned'[u] = threads' /\ count' = threads' - First' /\ pc'[threads'] = "accept"
    <2> SUFFICES ASSUME NEW u \in Threads, pc'[u] = "raise"
                 PROVE  spawned[u] = threads /\ count = threads - First /\ pc'[threads] = "accept"
        BY <1>4
    <2>1. u # t /\ pc[u] = "raise"
        BY <1>3
    <2>2. spawned[u] = threads /\ count = threads - First /\ pc[threads] = "accept"
        BY <1>1, <2>1 DEF IInv, RoundInv
    <2>3. Opening # {}
        BY <2>1 DEF Opening
    <2>4. threads # t /\ threads \in Threads
        BY <1>1, <1>6, <2>2, <2>3
    <2> QED BY <1>3, <2>2, <2>4
<1>10. (\A u \in Threads : pc'[u] # "raise") => count' = threads' - First' + 1
    <2> SUFFICES ASSUME \A u \in Threads : pc'[u] # "raise"
                 PROVE  count = threads - First + 1
        BY <1>4
    <2>1. \A u \in Threads : pc[u] # "raise"
        BY <1>3
    <2> QED BY <1>1, <2>1 DEF IInv, RoundInv
<1>11. \A i \in 0..(count' - 1) : info'[i].thread = First' + i
    <2> SUFFICES ASSUME NEW i \in 0..(count - 1)
                 PROVE  info'[i].thread = First + i
        BY <1>4
    <2>1. i \in 0..(Slots - 1)
        BY <1>2
    <2> QED BY <1>1, <2>1 DEF IInv, RoundInv
<1>12. joining' <= count'
    BY <1>1 DEF IInv, RoundInv
<1>13. \A i \in 0..(joining' - 1) : pc'[First' + i] = "done"
    <2> SUFFICES ASSUME NEW i \in 0..(joining - 1)
                 PROVE  pc'[First + i] = "done"
        BY <1>4
    <2>1. pc[First + i] = "done"
        BY <1>1 DEF IInv, RoundInv
    <2>2. count <= threads - First + 1
        BY <1>1 DEF IInv, RoundInv
    <2>3. joining <= count /\ joining \in Nat
        BY <1>1, <1>2 DEF IInv, RoundInv
    <2>4. First + i \in 1..threads
        BY <1>1, <1>2, <2>2, <2>3
    <2>5. First + i \in Threads
        BY <1>6, <2>4
    <2> QED BY <1>3, <2>1, <2>5
<1>14. \A i \in 0..(Slots - 1) : info'[i].requests =>
            First' + i <= threads' /\ pc'[First' + i] \in {"finish", "done"}
    <2> SUFFICES ASSUME NEW i \in 0..(Slots - 1), info'[i].requests
                 PROVE  First + i <= threads /\ pc'[First + i] \in {"finish", "done"}
        BY <1>4
    <2>1. CASE info[i].requests
        <3>1. First + i <= threads /\ pc[First + i] \in {"finish", "done"}
            BY <1>1, <2>1 DEF IInv, RoundInv
        <3>2. First + i \in Threads
            BY <1>1, <1>6, <3>1
        <3> QED BY <1>3, <3>1, <3>2
    <2>2. CASE i = slot[t] /\ where = "finish"
        <3>1. First + i = t
            BY <1>1, <2>2
        <3> QED BY <1>1, <1>3, <2>2, <3>1
    <2> QED BY <2>1, <2>2
<1>15. First' \in 1..threads'
    BY <1>1, <1>4
<1> QED BY <1>5, <1>7, <1>8, <1>9, <1>10, <1>11, <1>12, <1>13, <1>14, <1>15 DEF RoundInv

\* It stays what it is for the others, unless it accepts.
LEMMA ThreadMoves ==
    ASSUME IInv, NEW t \in Threads, NEW where \in Places \ {"none"}, pc[t] # "none",
           pc' = [pc EXCEPT ![t] = where], UNCHANGED <<threads, client>>,
           where \in {"listen", "accept"} <=> pc[t] \in {"listen", "accept"},
           where \in {"spawn", "raise", "name", "open"} => t \in Opening
    PROVE  ThreadInv'
<1>1. pc \in [Threads -> Places]
    BY DEF IInv, TypeOK, Places
<1>2. pc'[t] = where /\ \A u \in Threads : u # t => pc'[u] = pc[u]
    BY <1>1
<1>3. Opening' \subseteq Opening
    BY <1>2 DEF Opening
<1>4. \A u \in Threads : pc'[u] = "none" <=> u > threads
    BY <1>2 DEF IInv, ThreadInv
<1>5. \A u \in Threads : client[u] = NoClient <=> pc'[u] \in {"none", "listen", "accept"}
    BY <1>2 DEF IInv, ThreadInv
<1> QED BY <1>3, <1>4, <1>5 DEF IInv, ThreadInv

\* main_loop of a recording thread begins to listen.
LEMMA ListenKeeps ==
    ASSUME IInv, NEW t \in Threads, Listen(t)
    PROVE  IInv'
<1>1. /\ Running /\ pc[t] = "listen" /\ pc' = [pc EXCEPT ![t] = "accept"] /\ listening' = TRUE
      /\ UNCHANGED <<main, joining, program, status, info, count, created, base, fileIndex, backlog,
                     arrived, handler, threads, slot, client, spawned, name, files, place, sent, got>>
    BY DEF Listen, At, Goto, mainVars, roundVars, signalVars, clientVars
<1>2. "accept" \in Places \ {"none", "raise"}
    BY DEF Places
<1>3. TypeOK'
    BY <1>1 DEF IInv, TypeOK
<1>4. RoundInv' /\ JoinsAll' /\ ThreadInv'
    BY <1>1, <1>2, RoundMoves, ThreadMoves
<1>5. pc'[t] = "accept" /\ \A u \in Threads : u # t => pc'[u] = pc[u]
    BY <1>1 DEF IInv, TypeOK
<1>6. ClientInv' /\ FileInv'
    BY <1>1, <1>5 DEF IInv, ClientInv, FileInv, Running, IsServer
<1>7. Named' = Named
    BY <1>1, <1>5 DEF Named
<1>8. NameInv'
    BY <1>1, <1>5, <1>7, NamesStay DEF Named
<1> QED BY <1>3, <1>4, <1>6, <1>8 DEF IInv

\* Without -p no thread is created for the next client.
LEMMA SpawnNoneKeeps ==
    ASSUME IInv, NEW t \in Threads, SpawnNone(t)
    PROVE  IInv'
<1>1. /\ Running /\ pc[t] = "spawn" /\ pc' = [pc EXCEPT ![t] = "name"]
      /\ UNCHANGED <<main, joining, program, status, info, count, created, base, fileIndex, backlog,
                     listening, arrived, handler, threads, slot, client, spawned, name, files,
                     place, sent, got>>
    BY DEF SpawnNone, At, Goto, mainVars, roundVars, signalVars, clientVars
<1>2. "name" \in Places \ {"none", "raise"} /\ t \in Opening
    BY <1>1 DEF Places, Opening
<1>3. TypeOK'
    BY <1>1 DEF IInv, TypeOK
<1>4. RoundInv' /\ JoinsAll' /\ ThreadInv'
    BY <1>1, <1>2, RoundMoves, ThreadMoves
<1>5. pc'[t] = "name" /\ \A u \in Threads : u # t => pc'[u] = pc[u]
    BY <1>1 DEF IInv, TypeOK
<1>6. ClientInv' /\ FileInv'
    BY <1>1, <1>5 DEF IInv, ClientInv, FileInv, Running, IsServer
<1>7. Named' = Named
    BY <1>1, <1>5 DEF Named
<1>8. NameInv'
    BY <1>1, <1>5, <1>7, NamesStay DEF Named
<1> QED BY <1>3, <1>4, <1>6, <1>8 DEF IInv

\* A thread accepts a client that no other thread has.
LEMMA AcceptKeeps ==
    ASSUME OneAtATime, IInv, NEW t \in Threads, Accept(t)
    PROVE  IInv'
<1>1. PICK c : c = Head(backlog)
    OBVIOUS
<1>2. /\ Running /\ pc[t] = "accept" /\ backlog # <<>> /\ Opening = {}
      /\ pc' = [pc EXCEPT ![t] = "spawn"] /\ client' = [client EXCEPT ![t] = c]
      /\ place' = [place EXCEPT ![c] = "open"] /\ backlog' = Tail(backlog)
      /\ UNCHANGED <<main, joining, program, status, info, count, created, base, fileIndex,
                     listening, arrived, handler, threads, slot, spawned, name, files, sent, got>>
    BY <1>1 DEF Accept, At, Goto, mainVars, roundVars, signalVars
<1>3. /\ backlog' \in Seq(Clients) /\ Len(backlog') = Len(backlog) - 1 /\ Len(backlog) \in Nat \ {0}
      /\ \A i \in 1..Len(backlog') : backlog'[i] = backlog[i + 1] /\ i + 1 \in 1..Len(backlog)
      /\ \A i \in 1..Len(backlog) : backlog[i] \in Clients
      /\ c = backlog[1] /\ 1 \in 1..Len(backlog)
    <2>1. backlog \in Seq(Clients) /\ backlog # <<>>
        BY <1>2 DEF IInv, TypeOK
    <2>2. Len(backlog) \in Nat \ {0}
        BY <2>1, EmptySeq, LenProperties
    <2> QED BY <1>1, <1>2, <2>1, <2>2, HeadTailProperties, ElementOfSeq
<1>4. c \in Clients /\ c # NoClient /\ place[c] = "backlog" /\ got[c] = 0
    BY <1>2, <1>3, NobodyIsNone DEF IInv, ClientInv
<1>5. \A u \in Threads : client[u] # c
    BY <1>4 DEF IInv, ClientInv
<1>6. /\ pc'[t] = "spawn" /\ \A u \in Threads : u # t => pc'[u] = pc[u]
      /\ client'[t] = c /\ \A u \in Threads : u # t => client'[u] = client[u]
      /\ place'[c] = "open" /\ \A d \in Clients : d # c => place'[d] = place[d]
    BY <1>2, <1>4 DEF IInv, TypeOK
<1>7. TypeOK'
    <2>1. client' \in [Threads -> Clients \cup {NoClient}]
        BY <1>2, <1>4 DEF IInv, TypeOK
    <2>2. \A u, v \in Threads : client[u] = client[v] => u = v \/ client[u] = NoClient
        BY DEF IInv, TypeOK
    <2>3. \A u, v \in Threads : client'[u] = client'[v] => u = v \/ client'[u] = NoClient
        BY <1>5, <1>6, <2>2
    <2> QED BY <1>2, <1>3, <2>1, <2>3 DEF IInv, TypeOK
<1>8. ThreadInv'
    <2>1. Opening' \subseteq {t}
        BY <1>2, <1>6 DEF Opening
    <2>2. \A u \in Threads : pc'[u] = "none" <=> u > threads'
        BY <1>2, <1>6 DEF IInv, ThreadInv
    <2>3. \A u \in Threads : client'[u] = NoClient <=> pc'[u] \in {"none", "listen", "accept"}
        BY <1>4, <1>6 DEF IInv, ThreadInv
    <2> QED BY <2>1, <2>2, <2>3 DEF ThreadInv
<1>9. RoundInv' /\ JoinsAll'
    <2>1. "spawn" \in Places \ {"none", "raise"}
        BY DEF Places
    <2> QED BY <1>2, <2>1, RoundMoves
<1>10. ClientInv'
    <2>1. /\ \A i \in 1..Len(backlog) : place[backlog[i]] = "backlog"
          /\ \A i, j \in 1..Len(backlog) : backlog[i] = backlog[j] => i = j
        BY <1>2 DEF IInv, ClientInv
    <2>2. \A i \in 1..Len(backlog') : i + 1 # 1
        BY <1>3
    <2>3. \A i \in 1..Len(backlog') : place'[backlog'[i]] = "backlog"
        BY <1>3, <1>6, <2>1, <2>2
    <2>4. \A i, j \in 1..Len(backlog') : backlog'[i] = backlog'[j] => i = j
        <3> SUFFICES ASSUME NEW i \in 1..Len(backlog'), NEW j \in 1..Len(backlog'),
                            backlog'[i] = backlog'[j]
                     PROVE  i = j
            OBVIOUS
        <3>1. i + 1 = j + 1
            BY <1>3, <2>1
        <3> QED BY <3>1
    <2>5. \A u \in Threads : client'[u] # NoClient => place'[client'[u]] \notin {"away", "backlog"}
        <3>1. \A u \in Threads : client[u] # NoClient =>
                    client[u] \in Clients /\ place[client[u]] \notin {"away", "backlog"}
            BY DEF IInv, ClientInv, TypeOK
        <3> QED BY <1>5, <1>6, <3>1
    <2>6. \A d \in Clients : place'[d] \in {"away", "backlog"} => got'[d] = 0
        BY <1>2, <1>6 DEF IInv, ClientInv
    <2>7. \A u \in Threads : pc'[u] \in {"spawn", "raise", "name", "open", "header"} =>
                got'[client'[u]] = 0
        BY <1>2, <1>4, <1>6 DEF IInv, ClientInv
    <2>8. ~IsServer' => /\ \A u \in Threads : client'[u] \in {program', NoClient}
                        /\ \A d \in Clients : place'[d] = "backlog" => d = program'
        BY <1>2, <1>4, <1>6 DEF IInv, ClientInv, IsServer
    <2> QED BY <2>3, <2>4, <2>5, <2>6, <2>7, <2>8 DEF ClientInv
<1>11. Named' = Named
    BY <1>2, <1>6 DEF Named
<1>12. NameInv'
    BY <1>2, <1>6, <1>11, NamesStay DEF Named
<1>13. FileInv'
    <2>1. \A u \in Threads : pc[u] \in {"finish", "done"} => client[u] \in Clients
        BY DEF IInv, TypeOK, ThreadInv
    <2> QED BY <1>2, <1>5, <1>6, <2>1 DEF IInv, FileInv
<1> QED BY <1>7, <1>8, <1>9, <1>10, <1>12, <1>13 DEF IInv

\* A thread creates the one after it, in the next slot.
LEMMA SpawnKeeps ==
    ASSUME IInv, NEW t \in Threads, Spawn(t)
    PROVE  IInv'
<1> PICK n : n = threads + 1
    OBVIOUS
<1>1. /\ Running /\ pc[t] = "spawn" /\ count < Slots /\ threads < MaxThreads
      /\ threads' = n /\ slot' = [slot EXCEPT ![n] = count]
      /\ pc' = [pc EXCEPT ![t] = "raise", ![n] = "accept"]
      /\ spawned' = [spawned EXCEPT ![t] = n]
      /\ info' = [info EXCEPT ![count].thread = NoThread]
      /\ UNCHANGED <<main, joining, program, status, count, created, base, fileIndex, backlog,
                     listening, arrived, handler, client, name, files, place, sent, got>>
    BY DEF Spawn, NewThread, At, mainVars, roundVars, signalVars, clientVars
<1>2. /\ main \in {"watch", "join"} /\ t \in 1..threads /\ First \in 1..threads /\ t >= First
      /\ slot[t] = t - First /\ threads \in Nat /\ First \in Nat /\ threads <= MaxThreads
    BY <1>1, InRound
<1>3. n \in Threads /\ n # t /\ n \in Nat /\ n > threads /\ \A u \in 1..threads : u \in Threads /\ u # n
    BY <1>1, <1>2, LimitsArePositive DEF Threads
<1>4. \A u \in Threads : pc[u] # "raise"
    BY <1>1 DEF IInv, ThreadInv, Opening
<1>5. count = threads - First + 1 /\ count \in 1..(Slots - 1) /\ count \in 0..(Slots - 1)
      /\ Slots \in Nat
    <2>1. count = threads - First + 1
        BY <1>2, <1>4 DEF IInv, RoundInv
    <2> QED BY <1>1, <1>2, <2>1, LimitsArePositive
<1>6. /\ pc'[t] = "raise" /\ pc'[n] = "accept"
      /\ \A u \in Threads : u # t /\ u # n => pc'[u] = pc[u]
    BY <1>1, <1>3 DEF IInv, TypeOK
<1>7. /\ slot'[n] = count /\ \A u \in Threads : u # n => slot'[u] = slot[u]
      /\ spawned'[t] = n /\ \A u \in Threads : u # t => spawned'[u] = spawned[u]
    BY <1>1, <1>3 DEF IInv, TypeOK
<1>8. /\ info' \in [0..(Slots - 1) -> [thread : Threads \cup {NoThread}, requests : BOOLEAN]]
      /\ \A i \in 0..(Slots - 1) : /\ info'[i].requests = info[i].requests
                                   /\ i # count => info'[i].thread = info[i].thread
    <2>1. info \in [0..(Slots - 1) -> [thread : Threads \cup {NoThread}, requests : BOOLEAN]]
        BY DEF IInv, TypeOK
    <2> QED BY <1>1, <1>5, <2>1
<1>9. TypeOK'
    <2>1. slot' \in [Threads -> 0..(Slots - 1)]
        <3>1. slot \in [Threads -> 0..(Slots - 1)]
            BY DEF IInv, TypeOK
        <3> QED BY <1>1, <1>5, <3>1
    <2>2. spawned' \in [Threads -> Threads \cup {NoThread}]
        BY <1>1, <1>3 DEF IInv, TypeOK
    <2>3. threads' \in 0..MaxThreads
        BY <1>1, <1>2, LimitsArePositive
    <2>4. pc' \in [Threads -> {"none", "listen", "accept", "spawn", "raise", "name", "open",
                               "header", "read", "finish", "done", "failed"}]
        BY <1>1 DEF IInv, TypeOK
    <2>5. info' \in [0..(Slots - 1) -> [thread : Threads \cup {NoThread}, requests : BOOLEAN]]
        BY <1>8
    <2>6. UNCHANGED <<main, joining, program, status, count, created, base, fileIndex, backlog,
                      listening, arrived, handler, client, name, files, place, sent, got>>
        BY <1>1
    <2> QED BY <2>1, <2>2, <2>3, <2>4, <2>5, <2>6 DEF IInv, TypeOK
<1>10. pc[n] = "none" /\ client[n] = NoClient
    BY <1>2, <1>3 DEF IInv, ThreadInv
<1>11. ThreadInv'
    <2>1. Opening' \subseteq Opening
        BY <1>1, <1>6 DEF Opening
    <2>2. \A u \in Threads : pc'[u] = "none" <=> u > threads'
        <3>1. \A u \in Threads : u # n => (u > threads' <=> u > threads)
            BY <1>1, <1>2, LimitsArePositive DEF Threads
        <3>2. \A u \in Threads : pc[u] = "none" <=> u > threads
            BY DEF IInv, ThreadInv
        <3>3. n > threads /\ ~(n > threads') /\ pc'[n] # "none"
            BY <1>1, <1>3, <1>6
        <3>4. pc[t] # "none" /\ pc'[t] # "none"
            BY <1>1, <1>6
        <3> QED BY <1>3, <1>6, <3>1, <3>2, <3>3, <3>4
    <2>3. \A u \in Threads : client'[u] = NoClient <=> pc'[u] \in {"none", "listen", "accept"}
        BY <1>1, <1>6, <1>10 DEF IInv, ThreadInv
    <2> QED BY <2>1, <2>2, <2>3 DEF IInv, ThreadInv
<1>12. First' = First
    BY <1>5, <1>8 DEF First
<1>13. RoundInv'
    <2>1. First' \in 1..threads'
        BY <1>1, <1>2, <1>12
    <2>2. \A u \in 1..threads' : u < First' => pc'[u] = "done"
        <3> SUFFICES ASSUME NEW u \in 1..threads', u < First' PROVE pc'[u] = "done"
            OBVIOUS
        <3>1. u \in 1..threads /\ u < First
            BY <1>1, <1>2, <1>12
        <3>2. pc[u] = "done"
            BY <1>2, <3>1 DEF IInv, RoundInv
        <3> QED BY <1>1, <1>3, <1>6, <3>1, <3>2
    <2>3. \A u \in 1..threads' : u >= First' => slot'[u] = u - First'
        <3> SUFFICES ASSUME NEW u \in 1..threads', u >= First' PROVE slot'[u] = u - First
            BY <1>12
        <3>1. CASE u = n
            BY <1>2, <1>5, <1>7, <3>1
        <3>2. CASE u # n
            <4>1. u \in 1..threads
                BY <1>1, <1>2, <3>2
            <4> QED BY <1>2, <1>3, <1>7, <1>12, <3>2, <4>1 DEF IInv, RoundInv
        <3> QED BY <3>1, <3>2
    <2>4. \A u \in Threads : pc'[u] = "raise" =>
                spawned'[u] = threads' /\ count' = threads' - First' /\ pc'[threads'] = "accept"
        <3>1. \A u \in Threads : pc'[u] = "raise" => u = t
            BY <1>4, <1>6
        <3>2. count' = threads' - First'
            BY <1>1, <1>2, <1>5, <1>12
        <3> QED BY <1>1, <1>6, <1>7, <3>1, <3>2
    <2>5. ~ \A u \in Threads : pc'[u] # "raise"
        BY <1>6
    <2>6. \A i \in 0..(count' - 1) : info'[i].thread = First' + i
        <3> SUFFICES ASSUME NEW i \in 0..(count - 1) PROVE info'[i].thread = First + i
            BY <1>1, <1>12
        <3>1. i \in 0..(Slots - 1) /\ i # count
            BY <1>5
        <3> QED BY <1>2, <1>8, <3>1 DEF IInv, RoundInv
    <2>7. joining' <= count'
        BY <1>1, <1>2 DEF IInv, RoundInv
    <2>8. \A i \in 0..(joining' - 1) : pc'[First' + i] = "done"
        <3> SUFFICES ASSUME NEW i \in 0..(joining - 1) PROVE pc'[First + i] = "done"
            BY <1>1, <1>12
        <3>1. pc[First + i] = "done"
            BY <1>2 DEF IInv, RoundInv
        <3>2. joining <= count /\ joining \in Nat
            BY <1>2 DEF IInv, RoundInv, TypeOK
        <3>3. First + i \in 1..threads
            BY <1>2, <1>5, <3>2
        <3> QED BY <1>1, <1>3, <1>6, <3>1, <3>3
    <2>9. \A i \in 0..(Slots - 1) : info'[i].requests =>
                First' + i <= threads' /\ pc'[First' + i] \in {"finish", "done"}
        <3> SUFFICES ASSUME NEW i \in 0..(Slots - 1), info[i].requests
                     PROVE  First + i <= threads' /\ pc'[First + i] \in {"finish", "done"}
            BY <1>1, <1>8, <1>12
        <3>1. First + i <= threads /\ pc[First + i] \in {"finish", "done"}
            BY <1>2 DEF IInv, RoundInv
        <3>2. First + i \in 1..threads
            BY <1>2, <3>1
        <3>3. First + i <= threads' /\ First + i # t
            BY <1>1, <1>2, <3>1
        <3> QED BY <1>3, <1>6, <3>1, <3>2, <3>3
    <2> QED BY <2>1, <2>2, <2>3, <2>4, <2>5, <2>6, <2>7, <2>8, <2>9 DEF RoundInv
<1>14. JoinsAll'
    BY <1>1, <1>2 DEF JoinsAll
<1>15. ClientInv' /\ FileInv'
    <2>1. \A u \in Threads :
            /\ pc'[u] \in {"spawn", "raise", "name", "open", "header"} =>
                    pc[u] \in {"spawn", "raise", "name", "open", "header"}
            /\ pc'[u] \in {"header", "read", "finish", "done"} => pc'[u] = pc[u]
        BY <1>1, <1>6
    <2>2. ClientInv'
        BY <1>1, <2>1 DEF IInv, ClientInv, Running, IsServer
    <2>3. FileInv'
        BY <1>1, <2>1, FilesStay
    <2> QED BY <2>2, <2>3
<1>16. Named' = Named
    BY <1>1, <1>6, <1>10 DEF Named
<1>17. NameInv'
    BY <1>1, <1>6, <1>16, NamesStay DEF Named
<1> QED BY <1>9, <1>11, <1>13, <1>14, <1>15, <1>17 DEF IInv

\* count catches up with the thread that has been created.
LEMMA RaiseKeeps ==
    ASSUME IInv, NEW t \in Threads, Raise(t)
    PROVE  IInv'
<1>1. /\ Running /\ pc[t] = "raise" /\ count' = count + 1
      /\ info' = [info EXCEPT ![slot[spawned[t]]].thread = spawned[t]]
      /\ pc' = [pc EXCEPT ![t] = "name"]
      /\ UNCHANGED <<main, joining, program, status, created, base, fileIndex, backlog, listening,
                     arrived, handler, threads, slot, client, spawned, name, files, place, sent, got>>
    BY DEF Raise, At, Goto, mainVars, signalVars, clientVars
<1>2. /\ main \in {"watch", "join"} /\ t \in 1..threads /\ First \in 1..threads /\ t >= First
      /\ slot[t] = t - First /\ threads \in Nat /\ First \in Nat /\ threads <= MaxThreads
    BY <1>1, InRound
<1>3. spawned[t] = threads /\ count = threads - First /\ pc[threads] = "accept"
    BY <1>1, <1>2 DEF IInv, RoundInv
<1>4. \A u \in 1..threads : u \in Threads
    BY <1>2, LimitsArePositive DEF Threads
<1>5. threads \in 1..threads /\ threads \in Threads /\ threads > First /\ threads >= First
    <2>1. t # threads
        BY <1>1, <1>3
    <2> QED BY <1>2, <1>4, <2>1
<1>6. slot[threads] = count
    BY <1>2, <1>3, <1>5 DEF IInv, RoundInv
<1>7. count \in 1..(Slots - 1) /\ count \in 0..(Slots - 1) /\ Slots \in Nat
    <2>1. slot[threads] \in 0..(Slots - 1)
        BY <1>5 DEF IInv, TypeOK
    <2> QED BY <1>2, <1>3, <1>5, <1>6, <2>1, LimitsArePositive
<1>8. pc'[t] = "name" /\ \A u \in Threads : u # t => pc'[u] = pc[u]
    BY <1>1 DEF IInv, TypeOK
<1>9. /\ info' \in [0..(Slots - 1) -> [thread : Threads \cup {NoThread}, requests : BOOLEAN]]
      /\ info'[count].thread = threads
      /\ \A i \in 0..(Slots - 1) : /\ info'[i].requests = info[i].requests
                                   /\ i # count => info'[i].thread = info[i].thread
    <2>1. info \in [0..(Slots - 1) -> [thread : Threads \cup {NoThread}, requests : BOOLEAN]]
        BY DEF IInv, TypeOK
    <2>2. info' = [info EXCEPT ![count].thread = threads]
        BY <1>1, <1>3, <1>6
    <2> QED BY <1>5, <1>7, <2>1, <2>2
<1>10. First' = First
    BY <1>7, <1>9 DEF First
<1>11. \A u \in Threads : pc'[u] # "raise"
    BY <1>1, <1>8 DEF IInv, ThreadInv, Opening
<1>12. TypeOK'
    <2>1. count' \in 0..Slots
        BY <1>1, <1>7
    <2>2. info' \in [0..(Slots - 1) -> [thread : Threads \cup {NoThread}, requests : BOOLEAN]]
        BY <1>9
    <2> QED BY <1>1, <2>1, <2>2 DEF IInv, TypeOK
<1>13. ThreadInv'
    <2>1. "name" \in Places \ {"none"} /\ t \in Opening
        BY <1>1 DEF Places, Opening
    <2> QED BY <1>1, <2>1, ThreadMoves
<1>14. RoundInv'
    <2>1. First' \in 1..threads' /\ count' = threads' - First' + 1
        BY <1>1, <1>2, <1>3, <1>10
    <2>2. \A u \in 1..threads' : u < First' => pc'[u] = "done"
        BY <1>1, <1>2, <1>4, <1>8, <1>10 DEF IInv, RoundInv
    <2>3. \A u \in 1..threads' : u >= First' => slot'[u] = u - First'
        BY <1>1, <1>2, <1>10 DEF IInv, RoundInv
    <2>4. \A i \in 0..(count' - 1) : info'[i].thread = First' + i
        <3> SUFFICES ASSUME NEW i \in 0..(count' - 1) PROVE info'[i].thread = First + i
            BY <1>10
        <3>1. CASE i = count
            BY <1>2, <1>3, <1>9, <3>1
        <3>2. CASE i # count
            <4>1. i \in 0..(count - 1) /\ i \in 0..(Slots - 1)
                BY <1>1, <1>7, <3>2
            <4> QED BY <1>2, <1>9, <3>2, <4>1 DEF IInv, RoundInv
        <3> QED BY <3>1, <3>2
    <2>5. joining' <= count'
        <3>1. joining <= count /\ joining \in Nat
            BY <1>2 DEF IInv, RoundInv, TypeOK
        <3> QED BY <1>1, <1>7, <3>1
    <2>6. \A i \in 0..(joining' - 1) : pc'[First' + i] = "done"
        <3> SUFFICES ASSUME NEW i \in 0..(joining - 1) PROVE pc'[First + i] = "done"
            BY <1>1, <1>10
        <3>1. pc[First + i] = "done"
            BY <1>2 DEF IInv, RoundInv
        <3>2. joining <= count /\ joining \in Nat
            BY <1>2 DEF IInv, RoundInv, TypeOK
        <3>3. First + i \in 1..threads
            BY <1>2, <1>3, <3>2
        <3> QED BY <1>1, <1>4, <1>8, <3>1, <3>3
    <2>7. \A i \in 0..(Slots - 1) : info'[i].requests =>
                First' + i <= threads' /\ pc'[First' + i] \in {"finish", "done"}
        <3> SUFFICES ASSUME NEW i \in 0..(Slots - 1), info[i].requests
                     PROVE  First + i <= threads' /\ pc'[First + i] \in {"finish", "done"}
            BY <1>9, <1>10
        <3>1. First + i <= threads /\ pc[First + i] \in {"finish", "done"}
            BY <1>2 DEF IInv, RoundInv
        <3>2. First + i \in 1..threads
            BY <1>2, <3>1
        <3> QED BY <1>1, <1>4, <1>8, <3>1, <3>2
    <2> QED BY <1>11, <2>1, <2>2, <2>3, <2>4, <2>5, <2>6, <2>7 DEF RoundInv
<1>15. JoinsAll'
    BY <1>1, <1>2 DEF JoinsAll
<1>16. ClientInv'
    <2>1. \A u \in Threads : pc'[u] \in {"spawn", "raise", "name", "open", "header"} =>
                pc[u] \in {"spawn", "raise", "name", "open", "header"}
        BY <1>1, <1>8
    <2> QED BY <1>1, <2>1 DEF IInv, ClientInv, Running, IsServer
<1>17. FileInv' /\ NameInv'
    <2>1. Named' = Named
        BY <1>1, <1>8 DEF Named
    <2> QED BY <1>1, <1>8, <2>1, FilesStay, NamesStay DEF Named
<1> QED BY <1>12, <1>13, <1>14, <1>15, <1>16, <1>17 DEF IInv

\* The name that a thread chooses is nobody else's.
LEMMA ChooseNameKeeps ==
    ASSUME IInv, NEW t \in Threads, ChooseName(t)
    PROVE  IInv'
<1>1. PICK i \in Nat : /\ name' = [name EXCEPT ![t] = <<base, i>>]
                       /\ \/ created /\ i = fileIndex /\ fileIndex' = fileIndex + 1
                          \/ ~created /\ i = 0 /\ fileIndex' = fileIndex
    BY DEF ChooseName, NextName, IInv, TypeOK
<1>2. /\ Running /\ pc[t] = "name" /\ pc' = [pc EXCEPT ![t] = "open"]
      /\ UNCHANGED <<main, joining, program, status, info, count, created, base, backlog, listening,
                     arrived, handler, threads, slot, client, spawned, files, place, sent, got>>
    BY DEF ChooseName, At, Goto, mainVars, roundVars, signalVars, clientVars
<1>3. "open" \in Places \ {"none", "raise"} /\ t \in Opening
    BY <1>2 DEF Places, Opening
<1>4. /\ pc'[t] = "open" /\ \A u \in Threads : u # t => pc'[u] = pc[u]
      /\ name'[t] = <<base, i>> /\ \A u \in Threads : u # t => name'[u] = name[u]
    BY <1>1, <1>2 DEF IInv, TypeOK
<1>5. base \in Nat /\ fileIndex \in Nat /\ fileIndex' \in Nat /\ fileIndex <= fileIndex'
    BY <1>1 DEF IInv, TypeOK
<1>6. TypeOK'
    <2>1. name' \in [Threads -> Nat \X Nat]
        BY <1>1, <1>5 DEF IInv, TypeOK
    <2>2. pc' \in [Threads -> {"none", "listen", "accept", "spawn", "raise", "name", "open",
                               "header", "read", "finish", "done", "failed"}]
        BY <1>2 DEF IInv, TypeOK
    <2> QED BY <1>2, <1>5, <2>1, <2>2 DEF IInv, TypeOK
<1>7. RoundInv' /\ JoinsAll' /\ ThreadInv'
    BY <1>2, <1>3, RoundMoves, ThreadMoves
<1>8. ClientInv'
    <2>1. \A u \in Threads : pc'[u] \in {"spawn", "raise", "name", "open", "header"} =>
                pc[u] \in {"spawn", "raise", "name", "open", "header"}
        BY <1>2, <1>4
    <2> QED BY <1>2, <2>1 DEF IInv, ClientInv, Running, IsServer
<1>9. FileInv'
    <2> SUFFICES ASSUME NEW u \in Threads, pc'[u] \in {"header", "read", "finish", "done"}
                 PROVE  FileInv!(u)'
        BY DEF FileInv
    <2>1. u # t /\ pc'[u] = pc[u] /\ name'[u] = name[u]
        BY <1>4
    <2> QED BY <1>2, <2>1 DEF IInv, FileInv
<1>10. Named' = Named \cup {t} /\ t \notin Named /\ \A u \in Named : u \in Threads /\ u # t
    BY <1>2, <1>4 DEF Named
<1>11. \A u \in Named : pc[u] # "open"
    <2> SUFFICES ASSUME NEW u \in Named, pc[u] = "open" PROVE FALSE
        OBVIOUS
    <2>1. u \in Opening
        BY <1>10 DEF Opening
    <2> QED BY <1>3, <1>10, <2>1 DEF IInv, ThreadInv
<1>12. main # "start"
    BY <1>2, InRound
<1>13. ASSUME IsServer PROVE NameInv'
    <2>1. base < fileIndex
        BY <1>12, <1>13 DEF IInv, NameInv
    <2>2. \A u \in Named : name[u][1] < fileIndex /\ name[u][2] < fileIndex
        BY <1>13 DEF IInv, NameInv
    <2>3. ~created => \A u \in Named : name[u][1] # base
        BY <1>11, <1>12, <1>13 DEF IInv, NameInv
    <2>4. \A u \in Named : name[u][1] \in Nat /\ name[u][2] \in Nat
        BY <1>10 DEF IInv, TypeOK
    <2>5. \A u \in Named : name[u] # <<base, i>>
        <3>1. CASE created
            BY <1>1, <1>5, <2>2, <2>4, <3>1
        <3>2. CASE ~created
            BY <2>3, <3>2
        <3> QED BY <3>1, <3>2
    <2>6. base < fileIndex' /\ i < fileIndex'
        BY <1>1, <1>5, <2>1
    <2>7. \A u \in Named' : name'[u][1] < fileIndex' /\ name'[u][2] < fileIndex'
        BY <1>4, <1>5, <1>10, <2>2, <2>4, <2>6
    <2>8. ~created' => \A u \in Named' : name'[u][1] = base' => pc'[u] = "open"
        BY <1>2, <1>4, <1>10, <2>3
    <2>9. \A u, v \in Named : name[u] = name[v] => u = v
        BY DEF IInv, NameInv
    <2>10. \A u, v \in Named' : name'[u] = name'[v] => u = v
        BY <1>4, <1>10, <2>5, <2>9
    <2> QED BY <1>2, <2>6, <2>7, <2>8, <2>10 DEF NameInv
<1>14. ASSUME ~IsServer PROVE NameInv'
    <2>1. \A u \in Named' : u \in Threads /\ client[u] # NoClient
        <3>1. \A u \in Named' : u \in Threads /\ pc[u] \notin {"none", "listen", "accept"}
            BY <1>2, <1>10 DEF Named
        <3> QED BY <3>1 DEF IInv, ThreadInv
    <2>2. \A u \in Named' : client[u] = program
        BY <1>14, <2>1 DEF IInv, ClientInv
    <2>3. \A u, v \in Named' : u = v
        <3>1. \A u, v \in Threads : client[u] = client[v] => u = v \/ client[u] = NoClient
            BY DEF IInv, TypeOK
        <3> QED BY <2>1, <2>2, <3>1
    <2> QED BY <1>2, <1>14, <2>3 DEF NameInv, IsServer
<1> QED BY <1>6, <1>7, <1>8, <1>9, <1>13, <1>14 DEF IInv

\* A thread opens its file, which is empty then.
LEMMA OpenKeeps ==
    ASSUME IInv, NEW t \in Threads, Open(t)
    PROVE  IInv'
<1>1. /\ Running /\ pc[t] = "open" /\ pc' = [pc EXCEPT ![t] = "header"]
      /\ files' = With(files, name[t], <<>>) /\ created' = TRUE
      /\ UNCHANGED <<main, joining, program, status, info, count, base, fileIndex, backlog, listening,
                     arrived, handler, threads, slot, client, spawned, name, place, sent, got>>
    BY DEF Open, At, Goto, mainVars, signalVars, clientVars
<1>2. "header" \in Places \ {"none", "raise"}
    BY DEF Places
<1>3. /\ pc'[t] = "header" /\ \A u \in Threads : u # t => pc'[u] = pc[u]
      /\ name[t] \in Nat \X Nat
    BY <1>1 DEF IInv, TypeOK
<1>4. TypeOK'
    <2>1. DOMAIN files' \subseteq Nat \X Nat
        BY <1>1, <1>3 DEF IInv, TypeOK, With
    <2>2. pc' \in [Threads -> {"none", "listen", "accept", "spawn", "raise", "name", "open",
                               "header", "read", "finish", "done", "failed"}]
        BY <1>1 DEF IInv, TypeOK
    <2> QED BY <1>1, <2>1, <2>2 DEF IInv, TypeOK
<1>5. RoundInv' /\ JoinsAll' /\ ThreadInv'
    BY <1>1, <1>2, RoundMoves, ThreadMoves
<1>6. ClientInv'
    <2>1. \A u \in Threads : pc'[u] \in {"spawn", "raise", "name", "open", "header"} =>
                pc[u] \in {"spawn", "raise", "name", "open", "header"}
        BY <1>1, <1>3
    <2> QED BY <1>1, <2>1 DEF IInv, ClientInv, Running, IsServer
<1>7. Named' = Named /\ t \in Named
    BY <1>1, <1>3 DEF Named
<1>8. NameInv'
    BY <1>1, <1>7 DEF IInv, NameInv, IsServer
<1>9. FileInv'
    <2> SUFFICES ASSUME NEW u \in Threads, pc'[u] \in {"header", "read", "finish", "done"}
                 PROVE  FileInv!(u)'
        BY DEF FileInv
    <2>1. CASE u = t
        <3>1. pc'[u] = "header" /\ got'[client'[u]] = 0
            BY <1>1, <1>3, <2>1 DEF IInv, ClientInv
        <3>2. name'[u] \in DOMAIN files' /\ files'[name'[u]] = <<>>
            BY <1>1, <2>1 DEF With
        <3>3. <<>> = [j \in 1..0 |-> <<client'[u], j>>]
            OBVIOUS
        <3> QED BY <3>1, <3>2, <3>3
    <2>2. CASE u # t
        <3>1. pc'[u] = pc[u] /\ u \in Named
            BY <1>3, <2>2 DEF Named
        <3>2. name[u] # name[t]
            BY <1>7, <2>2, <3>1 DEF IInv, NameInv
        <3>3. /\ name[u] \in DOMAIN files => name[u] \in DOMAIN files'
              /\ name[u] \in DOMAIN files => files'[name[u]] = files[name[u]]
            BY <1>1, <3>2 DEF With
        <3> QED BY <1>1, <3>1, <3>3 DEF IInv, FileInv
    <2> QED BY <2>1, <2>2
<1> QED BY <1>4, <1>5, <1>6, <1>8, <1>9 DEF IInv

\* Whoever has a file that is open reads a client's packets into it, and nobody else does.
LEMMA OwnFile ==
    ASSUME IInv, NEW t \in Threads, pc[t] \in {"header", "read", "finish"}
    PROVE  /\ client[t] \in Clients /\ name[t] \in DOMAIN files
           /\ got[client[t]] \in Nat /\ got[client[t]] \in 0..MaxPackets
           /\ files[name[t]] = [i \in 1..got[client[t]] |-> <<client[t], i>>]
           /\ \A u \in Threads : u # t /\ pc[u] \in {"header", "read", "finish", "done"} =>
                name[u] # name[t] /\ client[u] # client[t] /\ client[u] \in Clients
<1>1. client[t] \in Clients
    BY DEF IInv, TypeOK, ThreadInv
<1>2. name[t] \in DOMAIN files
    BY DEF IInv, FileInv
<1>3. files[name[t]] = [i \in 1..got[client[t]] |-> <<client[t], i>>]
    BY DEF IInv, FileInv
<1>4. got[client[t]] \in Nat /\ got[client[t]] \in 0..MaxPackets
    BY <1>1, LimitsArePositive DEF IInv, TypeOK
<1>5. ASSUME NEW u \in Threads, u # t, pc[u] \in {"header", "read", "finish", "done"}
      PROVE  name[u] # name[t] /\ client[u] # client[t] /\ client[u] \in Clients
    <2>1. u \in Named /\ t \in Named
        BY <1>5 DEF Named
    <2>2. name[u] # name[t]
        BY <1>5, <2>1 DEF IInv, NameInv
    <2>3. client[u] # NoClient /\ client[u] \in Clients
        BY <1>5 DEF IInv, TypeOK, ThreadInv
    <2>4. client[u] # client[t]
        BY <1>5, <2>3 DEF IInv, TypeOK
    <2> QED BY <2>2, <2>3, <2>4
<1> QED BY <1>1, <1>2, <1>3, <1>4, <1>5

\* The loop over the packets is left early only after a signal.
LEMMA LoopGoesOn ==
    ASSUME IInv, Running, NEW t \in Threads, pc[t] \in {"header", "read"}, Loop(t)
    PROVE  \/ pc' = [pc EXCEPT ![t] = "read"]
           \/ arrived /\ pc' = [pc EXCEPT ![t] = "finish"]
<1>1. /\ main \in {"watch", "join"} /\ First \in Nat /\ t \in 1..threads /\ t >= First
      /\ slot[t] = t - First /\ threads \in Nat
    BY InRound
<1>2. slot[t] \in 0..(Slots - 1)
    BY DEF IInv, TypeOK
<1>3. First + slot[t] = t
    BY <1>1
<1>4. ~info[slot[t]].requests
    <2> SUFFICES ASSUME info[slot[t]].requests PROVE FALSE
        OBVIOUS
    <2>1. pc[First + slot[t]] \in {"finish", "done"}
        BY <1>1, <1>2 DEF IInv, RoundInv
    <2> QED BY <1>3, <2>1
<1> QED BY <1>4 DEF Loop, Goto

\* The next packet, or the header, is read and written.
LEMMA CopyKeeps ==
    ASSUME IInv, Running, NEW t \in Threads, pc[t] \in {"header", "read"}, Copy(t), Loop(t),
           UNCHANGED <<main, joining, program, status, info, count, created, base, fileIndex,
                       listening, backlog, arrived, threads, slot, client, spawned, name, place,
                       sent>>,
           handler' \in BOOLEAN
    PROVE  IInv'
<1> PICK c : c = client[t]
    OBVIOUS
<1> PICK k : k = got[c]
    OBVIOUS
<1>1. /\ c \in Clients /\ k \in Nat /\ k \in 0..MaxPackets /\ name[t] \in DOMAIN files
      /\ files[name[t]] = [i \in 1..k |-> <<c, i>>]
      /\ \A u \in Threads : u # t /\ pc[u] \in {"header", "read", "finish", "done"} =>
            name[u] # name[t] /\ client[u] # c /\ client[u] \in Clients
    BY OwnFile
<1>2. /\ k < sent[c] /\ got' = [got EXCEPT ![c] = k + 1]
      /\ files' = [files EXCEPT ![name[t]] = With(@, k + 1, <<c, k + 1>>)]
    BY DEF Copy, Put
<1>3. PICK where \in {"read", "finish"} :
        pc' = [pc EXCEPT ![t] = where] /\ (where = "finish" => arrived)
    BY LoopGoesOn
<1>4. where \in Places \ {"none", "raise"}
    BY DEF Places
<1>5. pc'[t] = where /\ \A u \in Threads : u # t => pc'[u] = pc[u]
    BY <1>3 DEF IInv, TypeOK
<1>6. got'[c] = k + 1 /\ \A d \in Clients : d # c => got'[d] = got[d]
    BY <1>1, <1>2 DEF IInv, TypeOK
<1>7. TypeOK'
    <2>1. got' \in [Clients -> 0..MaxPackets]
        <3>1. k + 1 \in 0..MaxPackets
            <4>1. sent[c] \in 0..MaxPackets
                BY <1>1 DEF IInv, TypeOK
            <4> QED BY <1>1, <1>2, <4>1, LimitsArePositive
        <3>2. got \in [Clients -> 0..MaxPackets]
            BY DEF IInv, TypeOK
        <3> QED BY <1>2, <3>1, <3>2
    <2>2. DOMAIN files' \subseteq Nat \X Nat
        BY <1>2 DEF IInv, TypeOK
    <2>3. pc' \in [Threads -> {"none", "listen", "accept", "spawn", "raise", "name", "open",
                               "header", "read", "finish", "done", "failed"}]
        BY <1>3 DEF IInv, TypeOK
    <2> QED BY <2>1, <2>2, <2>3 DEF IInv, TypeOK
<1>8. RoundInv' /\ JoinsAll'
    BY <1>3, <1>4, RoundMoves
<1>9. ThreadInv'
    BY <1>3, <1>4, ThreadMoves
<1>10. ClientInv'
    <2>1. \A u \in Threads : pc'[u] \in {"spawn", "raise", "name", "open", "header"} =>
                /\ pc[u] \in {"spawn", "raise", "name", "open", "header"}
                /\ u # t /\ client[u] # c /\ client[u] \in Clients
        <3> SUFFICES ASSUME NEW u \in Threads,
                            pc'[u] \in {"spawn", "raise", "name", "open", "header"}
                     PROVE  /\ pc[u] \in {"spawn", "raise", "name", "open", "header"}
                            /\ u # t /\ client[u] # c /\ client[u] \in Clients
            OBVIOUS
        <3>1. u # t /\ pc[u] = pc'[u]
            BY <1>5
        <3>2. client[u] # NoClient /\ client[u] \in Clients
            BY <3>1 DEF IInv, ThreadInv, TypeOK
        <3>3. client[u] # c
            BY <3>1, <3>2 DEF IInv, TypeOK
        <3> QED BY <3>1, <3>2, <3>3
    <2>2. \A u \in Threads : pc'[u] \in {"spawn", "raise", "name", "open", "header"} =>
                got'[client'[u]] = 0
        BY <1>6, <2>1 DEF IInv, ClientInv
    <2>3. place[c] \notin {"away", "backlog"}
        <3>1. client[t] # NoClient
            BY <1>1, NobodyIsNone
        <3> QED BY <3>1 DEF IInv, ClientInv
    <2>4. \A d \in Clients : place'[d] \in {"away", "backlog"} => got'[d] = 0
        BY <1>6, <2>3 DEF IInv, ClientInv
    <2> QED BY <2>2, <2>4 DEF IInv, ClientInv, Running, IsServer
<1>11. NameInv'
    <2>1. Named' = Named \cup {t}
        BY <1>5 DEF Named
    <2>2. t \in Named
        BY DEF Named
    <2>3. Named' = Named /\ pc[t] # "open"
        BY <2>1, <2>2
    <2> QED BY <1>5, <2>3, NamesStay DEF Named
<1>12. FileInv'
    <2> SUFFICES ASSUME NEW u \in Threads, pc'[u] \in {"header", "read", "finish", "done"}
                 PROVE  FileInv!(u)'
        BY DEF FileInv
    <2>1. CASE u = t
        <3>1. /\ name[t] \in DOMAIN files'
              /\ files'[name[t]] = With([i \in 1..k |-> <<c, i>>], k + 1, <<c, k + 1>>)
            BY <1>1, <1>2
        <3>2. files'[name[t]] = [i \in 1..(k + 1) |-> <<c, i>>]
            <4>1. k \in Nat
                BY <1>1
            <4> QED BY ONLY <3>1, <4>1, PacketWritten, Zenon
        <3> QED BY <1>3, <1>5, <1>6, <2>1, <3>1, <3>2
    <2>2. CASE u # t
        <3>1. pc'[u] = pc[u]
            BY <1>5, <2>2
        <3>2. name[u] # name[t] /\ client[u] # c /\ client[u] \in Clients
            BY <1>1, <2>2, <3>1
        <3>3. got'[client[u]] = got[client[u]]
            BY <1>6, <3>2
        <3>4. /\ DOMAIN files' = DOMAIN files
              /\ name[u] \in DOMAIN files => files'[name[u]] = files[name[u]]
            BY <1>2, <3>2
        <3> QED BY <3>1, <3>3, <3>4 DEF IInv, FileInv
    <2> QED BY <2>1, <2>2
<1> QED BY <1>7, <1>8, <1>9, <1>10, <1>11, <1>12 DEF IInv

\* What is read of the client goes to the file of its thread.
LEMMA HeaderKeeps ==
    ASSUME IInv, NEW t \in Threads, Header(t) \/ Packet(t)
    PROVE  IInv'
<1>1. handler' \in BOOLEAN
    BY DEF Header, Packet, signalVars, IInv, TypeOK
<1> QED BY <1>1, CopyKeeps DEF Header, Packet, At, mainVars, roundVars, signalVars

\* A client whose header is wrong has no more said of it.
LEMMA HeaderWrongKeeps ==
    ASSUME IInv, NEW t \in Threads, HeaderWrong(t)
    PROVE  IInv'
<1>1. /\ Running /\ pc[t] = "header" /\ pc' = [pc EXCEPT ![t] = "failed"]
      /\ UNCHANGED <<main, joining, program, status, info, count, created, base, fileIndex, backlog,
                     listening, arrived, handler, threads, slot, client, spawned, name, files,
                     place, sent, got>>
    BY DEF HeaderWrong, At, Goto, mainVars, roundVars, signalVars, clientVars
<1>2. "failed" \in Places \ {"none", "raise"}
    BY DEF Places
<1>3. pc'[t] = "failed" /\ \A u \in Threads : u # t => pc'[u] = pc[u]
    BY <1>1 DEF IInv, TypeOK
<1>4. TypeOK'
    BY <1>1 DEF IInv, TypeOK
<1>5. RoundInv' /\ JoinsAll' /\ ThreadInv'
    BY <1>1, <1>2, RoundMoves, ThreadMoves
<1>6. ClientInv'
    <2>1. \A u \in Threads : pc'[u] \in {"spawn", "raise", "name", "open", "header"} =>
                pc[u] \in {"spawn", "raise", "name", "open", "header"}
        BY <1>1, <1>3
    <2> QED BY <1>1, <2>1 DEF IInv, ClientInv, Running, IsServer
<1>7. FileInv' /\ NameInv'
    <2>1. Named' = Named
        BY <1>1, <1>3 DEF Named
    <2> QED BY <1>1, <1>3, <2>1, FilesStay, NamesStay DEF Named
<1> QED BY <1>4, <1>5, <1>6, <1>7 DEF IInv

\* All packets have been read when the client has left.
LEMMA PacketsEndKeeps ==
    ASSUME IInv, NEW t \in Threads, PacketsEnd(t)
    PROVE  IInv'
<1>1. /\ Running /\ pc[t] = "read" /\ pc' = [pc EXCEPT ![t] = "finish"]
      /\ got[client[t]] = sent[client[t]] /\ place[client[t]] \in {"marked", "killed"}
      /\ info' = [info EXCEPT ![slot[t]].requests = @ \/ place[client[t]] = "marked"]
      /\ UNCHANGED <<main, joining, program, status, count, created, base, fileIndex, backlog,
                     listening, arrived, handler, threads, slot, client, spawned, name, files,
                     place, sent, got>>
    BY DEF PacketsEnd, At, Goto, mainVars, signalVars, clientVars
<1>2. "finish" \in Places \ {"none", "raise"}
    BY DEF Places
<1>3. pc'[t] = "finish" /\ \A u \in Threads : u # t => pc'[u] = pc[u]
    BY <1>1 DEF IInv, TypeOK
<1>4. /\ info' \in [0..(Slots - 1) -> [thread : Threads \cup {NoThread}, requests : BOOLEAN]]
      /\ \A i \in 0..(Slots - 1) :
            /\ info'[i].thread = info[i].thread
            /\ info'[i].requests => info[i].requests \/ i = slot[t]
    <2>1. info \in [0..(Slots - 1) -> [thread : Threads \cup {NoThread}, requests : BOOLEAN]]
        BY DEF IInv, TypeOK
    <2>2. slot[t] \in 0..(Slots - 1)
        BY DEF IInv, TypeOK
    <2>3. info[slot[t]].requests \in BOOLEAN
        BY <2>1, <2>2
    <2>4. PICK b \in BOOLEAN : info' = [info EXCEPT ![slot[t]].requests = b]
        BY <1>1, <2>3
    <2> QED BY <2>1, <2>2, <2>4
<1>5. TypeOK'
    <2>1. pc' \in [Threads -> {"none", "listen", "accept", "spawn", "raise", "name", "open",
                               "header", "read", "finish", "done", "failed"}]
        BY <1>1 DEF IInv, TypeOK
    <2>2. info' \in [0..(Slots - 1) -> [thread : Threads \cup {NoThread}, requests : BOOLEAN]]
        BY <1>4
    <2>3. UNCHANGED <<main, joining, program, status, count, created, base, fileIndex, backlog,
                      listening, arrived, handler, threads, slot, client, spawned, name, files,
                      place, sent, got>>
        BY <1>1
    <2> QED BY <2>1, <2>2, <2>3 DEF IInv, TypeOK
<1>6. RoundInv' /\ JoinsAll' /\ ThreadInv'
    BY <1>1, <1>2, <1>4, RoundMoves, ThreadMoves
<1>7. ClientInv'
    <2>1. \A u \in Threads : pc'[u] \in {"spawn", "raise", "name", "open", "header"} =>
                pc[u] \in {"spawn", "raise", "name", "open", "header"}
        BY <1>1, <1>3
    <2> QED BY <1>1, <2>1 DEF IInv, ClientInv, Running, IsServer
<1>8. NameInv'
    <2>1. Named' = Named
        BY <1>1, <1>3 DEF Named
    <2> QED BY <1>1, <1>3, <2>1, NamesStay DEF Named
<1>9. FileInv'
    <2> SUFFICES ASSUME NEW u \in Threads, pc'[u] \in {"header", "read", "finish", "done"}
                 PROVE  FileInv!(u)'
        BY DEF FileInv
    <2>1. CASE u = t
        BY <1>1, <1>3, <2>1 DEF IInv, FileInv
    <2>2. CASE u # t
        BY <1>1, <1>3, <2>2 DEF IInv, FileInv
    <2> QED BY <2>1, <2>2
<1> QED BY <1>5, <1>6, <1>7, <1>8, <1>9 DEF IInv

\* The tables close the file, behind all of the packets.
LEMMA FinishKeeps ==
    ASSUME IInv, NEW t \in Threads, Finish(t)
    PROVE  IInv'
<1> PICK c : c = client[t]
    OBVIOUS
<1> PICK k : k = got[c]
    OBVIOUS
<1>1. /\ Running /\ pc[t] = "finish" /\ pc' = [pc EXCEPT ![t] = "done"] /\ handler' = FALSE
      /\ files' = [files EXCEPT ![name[t]] = With(@, k + 1, <<c, 0>>)]
      /\ UNCHANGED <<main, joining, program, status, info, count, created, base, fileIndex, backlog,
                     listening, arrived, threads, slot, client, spawned, name, place, sent, got>>
    BY DEF Finish, Put, At, Goto, mainVars, roundVars, clientVars
<1>2. /\ c \in Clients /\ k \in Nat /\ name[t] \in DOMAIN files
      /\ files[name[t]] = [i \in 1..k |-> <<c, i>>]
      /\ \A u \in Threads : u # t /\ pc[u] \in {"header", "read", "finish", "done"} =>
            name[u] # name[t] /\ client[u] # c /\ client[u] \in Clients
    BY <1>1, OwnFile
<1>3. "done" \in Places \ {"none", "raise"}
    BY DEF Places
<1>4. pc'[t] = "done" /\ \A u \in Threads : u # t => pc'[u] = pc[u]
    BY <1>1 DEF IInv, TypeOK
<1>5. TypeOK'
    <2>1. DOMAIN files' \subseteq Nat \X Nat
        BY <1>1 DEF IInv, TypeOK
    <2>2. pc' \in [Threads -> {"none", "listen", "accept", "spawn", "raise", "name", "open",
                               "header", "read", "finish", "done", "failed"}]
        BY <1>1 DEF IInv, TypeOK
    <2> QED BY <1>1, <2>1, <2>2 DEF IInv, TypeOK
<1>6. RoundInv' /\ JoinsAll' /\ ThreadInv'
    BY <1>1, <1>3, RoundMoves, ThreadMoves
<1>7. ClientInv'
    <2>1. \A u \in Threads : pc'[u] \in {"spawn", "raise", "name", "open", "header"} =>
                pc[u] \in {"spawn", "raise", "name", "open", "header"}
        BY <1>1, <1>4
    <2> QED BY <1>1, <2>1 DEF IInv, ClientInv, Running, IsServer
<1>8. NameInv'
    <2>1. Named' = Named
        BY <1>1, <1>4 DEF Named
    <2> QED BY <1>1, <1>4, <2>1, NamesStay DEF Named
<1>9. FileInv'
    <2> SUFFICES ASSUME NEW u \in Threads, pc'[u] \in {"header", "read", "finish", "done"}
                 PROVE  FileInv!(u)'
        BY DEF FileInv
    <2>1. CASE u = t
        <3>1. /\ name[t] \in DOMAIN files'
              /\ files'[name[t]] = With([i \in 1..k |-> <<c, i>>], k + 1, <<c, 0>>)
            BY <1>1, <1>2
        <3>2. files'[name[t]] = [i \in 1..(k + 1) |-> <<c, IF i <= k THEN i ELSE 0>>]
            <4>1. k \in Nat
                BY <1>2
            <4> QED BY ONLY <3>1, <4>1, TablesWritten, Zenon
        <3>3. arrived \/ (got[c] = sent[c] /\ place[c] # "open")
            BY <1>1 DEF IInv, FileInv
        <3> QED BY <1>1, <1>4, <2>1, <3>1, <3>2, <3>3
    <2>2. CASE u # t
        <3>1. pc'[u] = pc[u]
            BY <1>4, <2>2
        <3>2. name[u] # name[t]
            BY <1>2, <2>2, <3>1
        <3>3. /\ DOMAIN files' = DOMAIN files
              /\ name[u] \in DOMAIN files => files'[name[u]] = files[name[u]]
            BY <1>1, <3>2
        <3> QED BY <1>1, <3>1, <3>3 DEF IInv, FileInv
    <2> QED BY <2>1, <2>2
<1> QED BY <1>5, <1>6, <1>7, <1>8, <1>9 DEF IInv

------------------------------------------------------------------------------
(* main.                                                                   *)

\* A round begins with a thread in the first slot.
LEMMA StartRoundKeeps ==
    ASSUME IInv, StartRound
    PROVE  IInv'
<1> PICK n : n = threads + 1
    OBVIOUS
<1>1. /\ Running /\ main = "start" /\ threads < MaxThreads /\ threads' = n
      /\ slot' = [slot EXCEPT ![n] = 0] /\ pc' = [pc EXCEPT ![n] = "listen"]
      /\ info' = [i \in 0..(Slots - 1) |->
                    [thread |-> IF i = 0 THEN n ELSE NoThread, requests |-> FALSE]]
      /\ count' = 1 /\ created' = FALSE /\ joining' = 0 /\ main' \in {"watch", "join"}
      /\ UNCHANGED <<program, status, listening, backlog, arrived, handler, client, spawned, name,
                     files, place, sent, got>>
    BY DEF StartRound, NewThread, signalVars, clientVars
<1>2. /\ base' \in Nat /\ fileIndex' \in Nat /\ base \in Nat /\ fileIndex \in Nat
      /\ IsServer => base' = fileIndex /\ fileIndex' = fileIndex + 1
    BY DEF StartRound, IInv, TypeOK
<1>3. threads \in Nat /\ n \in Threads /\ n \in Nat /\ Slots \in Nat /\ Slots > 0 /\ MaxThreads \in Nat
    BY <1>1, LimitsArePositive DEF IInv, TypeOK, Threads
<1>4. pc[n] = "none" /\ client[n] = NoClient
    BY <1>3 DEF IInv, ThreadInv
<1>5. /\ pc'[n] = "listen" /\ \A u \in Threads : u # n => pc'[u] = pc[u]
      /\ slot'[n] = 0
    BY <1>1, <1>3 DEF IInv, TypeOK
<1>6. \A u \in Threads : u # n => pc'[u] \in {"none", "done"}
    <2>1. \A u \in Threads : pc[u] = "none" \/ u \in 1..threads
        BY <1>3 DEF IInv, ThreadInv, Threads
    <2>2. \A u \in 1..threads : pc[u] = "done"
        BY <1>1 DEF IInv, JoinsAll
    <2> QED BY <1>5, <2>1, <2>2
<1>7. info' \in [0..(Slots - 1) -> [thread : Threads \cup {NoThread}, requests : BOOLEAN]]
    BY <1>1, <1>3
<1>8. /\ 0 \in 0..(Slots - 1) /\ info'[0].thread = n
      /\ \A i \in 0..(Slots - 1) : info'[i].requests = FALSE
    BY <1>1, <1>3
<1>9. First' = n
    BY <1>8 DEF First
<1>10. TypeOK'
    <2>1. slot' \in [Threads -> 0..(Slots - 1)]
        <3>1. slot \in [Threads -> 0..(Slots - 1)]
            BY DEF IInv, TypeOK
        <3> QED BY <1>1, <1>8, <3>1
    <2>2. pc' \in [Threads -> {"none", "listen", "accept", "spawn", "raise", "name", "open",
                               "header", "read", "finish", "done", "failed"}]
        BY <1>1 DEF IInv, TypeOK
    <2>3. threads' \in 0..MaxThreads /\ count' \in 0..Slots /\ joining' \in 0..Slots
        BY <1>1, <1>3
    <2> QED BY <1>1, <1>2, <1>7, <2>1, <2>2, <2>3 DEF IInv, TypeOK
<1>11. ThreadInv'
    <2>1. Opening' = {}
        BY <1>5, <1>6 DEF Opening
    <2>2. \A u \in Threads : pc'[u] = "none" <=> u > threads'
        <3>1. \A u \in Threads : u # n => (u > threads' <=> u > threads)
            BY <1>1, <1>3 DEF Threads
        <3>2. \A u \in Threads : pc[u] = "none" <=> u > threads
            BY DEF IInv, ThreadInv
        <3>3. ~(n > threads') /\ pc'[n] # "none"
            BY <1>1, <1>3, <1>5
        <3> QED BY <1>3, <1>5, <3>1, <3>2, <3>3
    <2>3. \A u \in Threads : client'[u] = NoClient <=> pc'[u] \in {"none", "listen", "accept"}
        BY <1>1, <1>4, <1>5 DEF IInv, ThreadInv
    <2> QED BY <2>1, <2>2, <2>3 DEF ThreadInv
<1>12. RoundInv'
    <2>1. First' \in 1..threads' /\ count' = threads' - First' + 1 /\ joining' <= count'
        BY <1>1, <1>3, <1>9
    <2>2. \A u \in 1..threads' : u < First' => pc'[u] = "done"
        <3> SUFFICES ASSUME NEW u \in 1..threads', u < First' PROVE pc'[u] = "done"
            OBVIOUS
        <3>1. u \in 1..threads /\ u \in Threads /\ u # n
            BY <1>1, <1>3, <1>9 DEF Threads
        <3>2. pc[u] = "done"
            BY <1>1, <3>1 DEF IInv, JoinsAll
        <3> QED BY <1>5, <3>1, <3>2
    <2>3. \A u \in 1..threads' : u >= First' => slot'[u] = u - First'
        <3> SUFFICES ASSUME NEW u \in 1..threads', u >= First' PROVE slot'[u] = u - n
            BY <1>9
        <3>1. u = n
            BY <1>1, <1>3, <1>9
        <3> QED BY <1>3, <1>5, <3>1
    <2>4. \A u \in Threads : pc'[u] # "raise"
        BY <1>5, <1>6
    <2>5. \A i \in 0..(count' - 1) : info'[i].thread = First' + i
        <3> SUFFICES ASSUME NEW i \in 0..(count' - 1) PROVE info'[i].thread = n + i
            BY <1>9
        <3>1. i = 0
            BY <1>1
        <3> QED BY <1>3, <1>8, <3>1
    <2>6. \A i \in 0..(joining' - 1) : pc'[First' + i] = "done"
        BY <1>1
    <2> QED BY <1>8, <2>1, <2>2, <2>3, <2>4, <2>5, <2>6 DEF RoundInv
<1>13. JoinsAll'
    BY <1>1 DEF JoinsAll
<1>14. ClientInv'
    <2>1. \A u \in Threads : pc'[u] \notin {"spawn", "raise", "name", "open", "header"}
        BY <1>5, <1>6
    <2>2. Running' => Running
        BY <1>1
    <2> QED BY <1>1, <2>1, <2>2 DEF IInv, ClientInv, IsServer
<1>15. Named' = Named /\ \A u \in Named : u \in Threads /\ pc'[u] = "done"
    <2>1. \A u \in Threads : u \in Named => u # n
        BY <1>4 DEF Named
    <2>2. n \notin Named'
        BY <1>5 DEF Named
    <2>3. \A u \in Threads : u \in Named <=> u \in Named'
        BY <1>5, <2>1, <2>2 DEF Named
    <2> QED BY <1>6, <2>1, <2>3 DEF Named
<1>16. NameInv'
    <2>1. ASSUME IsServer
          PROVE  /\ base' < fileIndex'
                 /\ \A u \in Named : name[u][1] < fileIndex' /\ name[u][2] < fileIndex'
                 /\ \A u \in Named : name[u][1] # base'
        <3>1. \A u \in Named : name[u][1] < fileIndex /\ name[u][2] < fileIndex
            BY <2>1 DEF IInv, NameInv
        <3>2. \A u \in Named : name[u][1] \in Nat /\ name[u][2] \in Nat
            BY <1>15 DEF IInv, TypeOK
        <3> QED BY <1>2, <2>1, <3>1, <3>2
    <2> QED BY <1>1, <1>15, <2>1 DEF IInv, NameInv, IsServer
<1>17. FileInv'
    <2>1. \A u \in Threads : pc'[u] \in {"header", "read", "finish", "done"} => pc'[u] = pc[u]
        BY <1>5
    <2> QED BY <1>1, <2>1, FilesStay
<1> QED BY <1>10, <1>11, <1>12, <1>13, <1>14, <1>16, <1>17 DEF IInv

\* main stops watching the program and begins to join.
LEMMA WatchedKeeps ==
    ASSUME IInv, Watched
    PROVE  IInv'
<1>1. /\ Running /\ main = "watch" /\ main' = "join"
      /\ UNCHANGED <<joining, program, status, info, count, created, base, fileIndex, listening,
                     backlog, arrived, handler, threads, pc, slot, client, spawned, name, files,
                     place, sent, got>>
    BY DEF Watched, roundVars, signalVars, threadVars, clientVars
<1>2. TypeOK'
    BY <1>1 DEF IInv, TypeOK
<1>3. ThreadInv' /\ JoinsAll'
    BY <1>1 DEF IInv, ThreadInv, JoinsAll, Opening
<1>4. RoundInv'
    BY <1>1 DEF IInv, RoundInv, First
<1>5. ClientInv'
    BY <1>1 DEF IInv, ClientInv, Running, IsServer
<1>6. FileInv'
    BY <1>1, FilesStay
<1>7. NameInv'
    BY <1>1 DEF IInv, NameInv, IsServer, Named
<1> QED BY <1>2, <1>3, <1>4, <1>5, <1>6, <1>7 DEF IInv

\* main joins a thread that has ended.
LEMMA JoinKeeps ==
    ASSUME IInv, Join
    PROVE  IInv'
<1>1. /\ Running /\ main = "join" /\ joining < count
      /\ Joined # NoThread => pc[Joined] \in {"done", "failed"}
      /\ \/ status' = "crashed" /\ joining' = joining
         \/ status' = status /\ joining' = joining + 1 /\ Joined # NoThread /\ pc[Joined] # "failed"
      /\ UNCHANGED <<main, program, info, count, created, base, fileIndex, listening,
                     backlog, arrived, handler, threads, pc, slot, client, spawned, name, files,
                     place, sent, got>>
    BY DEF Join, roundVars, signalVars, threadVars, clientVars
<1>2. joining \in Nat /\ count \in Nat /\ count <= Slots /\ Slots \in Nat
    BY LimitsArePositive DEF IInv, TypeOK
<1>3. joining' \in 0..Slots /\ joining' <= count /\ joining' \in Nat
    BY <1>1, <1>2
<1>4. TypeOK'
    BY <1>1, <1>3 DEF IInv, TypeOK
<1>5. ThreadInv' /\ JoinsAll'
    BY <1>1 DEF IInv, ThreadInv, JoinsAll, Opening
<1>6. \A i \in 0..(joining' - 1) : pc[First + i] = "done"
    <2>1. \A i \in 0..(joining - 1) : pc[First + i] = "done"
        BY <1>1 DEF IInv, RoundInv
    <2>2. joining \in 0..(count - 1) /\ joining < Slots
        BY <1>1, <1>2
    <2>3. info[joining].thread = First + joining
        BY <1>1, <2>2 DEF IInv, RoundInv
    <2>4. joining' = joining + 1 => pc[First + joining] = "done"
        BY <1>1, <1>2, <2>2, <2>3 DEF Joined
    <2>5. joining' = joining \/ joining' = joining + 1
        BY <1>1
    <2> SUFFICES ASSUME NEW i \in 0..(joining' - 1) PROVE pc[First + i] = "done"
        OBVIOUS
    <2>6. CASE i = joining
        BY <1>2, <2>4, <2>5, <2>6
    <2>7. CASE i # joining
        <3>1. i \in 0..(joining - 1)
            BY <1>2, <2>5, <2>7
        <3> QED BY <2>1, <3>1
    <2> QED BY <2>6, <2>7
<1>7. RoundInv'
    BY <1>1, <1>3, <1>6 DEF IInv, RoundInv, First
<1>8. ClientInv'
    <2>1. Running' => Running
        BY <1>1
    <2> QED BY <1>1, <2>1 DEF IInv, ClientInv, IsServer
<1>9. FileInv' /\ NameInv'
    BY <1>1, FilesStay, NamesStay DEF Named
<1> QED BY <1>4, <1>5, <1>7, <1>8, <1>9 DEF IInv

\* When main has joined as many threads as count says, there are no others.
LEMMA AllJoined ==
    ASSUME IInv, Running, main = "join", joining >= count
    PROVE  \A t \in 1..threads : pc[t] = "done"
<1>1. /\ First \in 1..threads /\ First \in Nat /\ threads \in Nat
      /\ joining <= count /\ joining \in Nat /\ count \in Nat
    BY LimitsArePositive DEF IInv, RoundInv, TypeOK
<1>2. joining = count
    BY <1>1
<1>3. \A i \in 0..(count - 1) : pc[First + i] = "done"
    BY <1>2 DEF IInv, RoundInv
<1>4. \A t \in Threads : pc[t] # "raise"
    <2> SUFFICES ASSUME NEW t \in Threads, pc[t] = "raise" PROVE FALSE
        OBVIOUS
    <2>1. t \in 1..threads /\ t >= First
        BY InRound
    <2>2. count = threads - First /\ pc[threads] = "accept"
        BY DEF IInv, RoundInv
    <2>3. t # threads
        BY <2>2
    <2>4. t - First \in 0..(count - 1) /\ First + (t - First) = t
        BY <1>1, <2>1, <2>2, <2>3
    <2> QED BY <1>3, <2>4
<1>5. count = threads - First + 1
    BY <1>4 DEF IInv, RoundInv
<1> SUFFICES ASSUME NEW t \in 1..threads PROVE pc[t] = "done"
    OBVIOUS
<1>6. CASE t < First
    BY <1>6 DEF IInv, RoundInv
<1>7. CASE ~(t < First)
    <2>1. t - First \in 0..(count - 1) /\ First + (t - First) = t
        BY <1>1, <1>5, <1>7
    <2> QED BY <1>3, <2>1
<1> QED BY <1>6, <1>7

\* When all slots are joined no thread of the round is left.
LEMMA EndRoundKeeps ==
    ASSUME IInv, EndRound
    PROVE  IInv'
<1>1. /\ Running /\ main = "join" /\ joining >= count
      /\ listening' = FALSE /\ backlog' = <<>> /\ main' \in {"start", "exited"}
      /\ ~IsServer => main' = "exited"
      /\ place' = [c \in Clients |-> IF place[c] = "backlog" THEN "refused" ELSE place[c]]
      /\ UNCHANGED <<program, joining, status, info, count, created, base, fileIndex, arrived,
                     handler, threads, pc, slot, client, spawned, name, files, sent, got>>
    BY DEF EndRound, roundVars, signalVars, threadVars
<1>2. \A t \in 1..threads : pc[t] = "done"
    BY <1>1, AllJoined
<1>3. TypeOK'
    <2>1. backlog' \in Seq(Clients)
        BY <1>1, EmptySeq
    <2>2. place' \in [Clients -> {"away", "backlog", "open", "marked", "killed", "refused"}]
        BY <1>1 DEF IInv, TypeOK
    <2> QED BY <1>1, <2>1, <2>2 DEF IInv, TypeOK
<1>4. ThreadInv' /\ JoinsAll' /\ RoundInv'
    BY <1>1, <1>2 DEF IInv, ThreadInv, JoinsAll, RoundInv, Opening
<1>5. ClientInv'
    <2>1. Len(backlog') = 0
        BY <1>1, EmptySeq
    <2>2. \A c \in Clients : place'[c] # "backlog" /\ (place'[c] = "away" => place[c] = "away")
        BY <1>1
    <2>3. \A t \in Threads : client[t] # NoClient => place'[client[t]] \notin {"away", "backlog"}
        <3>1. \A t \in Threads : client[t] # NoClient =>
                    client[t] \in Clients /\ place[client[t]] # "away"
            BY DEF IInv, ClientInv, TypeOK
        <3> QED BY <2>2, <3>1
    <2> QED BY <1>1, <2>1, <2>2, <2>3 DEF IInv, ClientInv, IsServer
<1>6. FileInv'
    <2>1. \A c \in Clients : place'[c] = "open" => place[c] = "open"
        BY <1>1
    <2> QED BY <1>1, <2>1, FilesStay
<1>7. NameInv'
    <2>1. main' # "start" => ~IsServer
        BY DEF EndRound
    <2> QED BY <1>1, <2>1 DEF IInv, NameInv, IsServer, Named
<1> QED BY <1>3, <1>4, <1>5, <1>6, <1>7 DEF IInv

\* A signal and the end of the program leave the threads where they are.
LEMMA SignalKeeps ==
    ASSUME IInv, Signal
    PROVE  IInv'
<1>1. /\ Running /\ status' \in {"running", "killed"} /\ arrived' \in BOOLEAN
      /\ arrived => arrived'
      /\ UNCHANGED <<main, joining, program, info, count, created, base, fileIndex, listening,
                     backlog, handler, threads, pc, slot, client, spawned, name, files, place,
                     sent, got>>
    BY DEF Signal, Running, mainVars, roundVars, threadVars, clientVars, IInv, TypeOK
<1>2. TypeOK'
    BY <1>1 DEF IInv, TypeOK
<1>3. ThreadInv' /\ RoundInv' /\ JoinsAll' /\ NameInv'
    BY <1>1, ThreadsStay, NamesStay DEF Named
<1>4. ClientInv'
    BY <1>1 DEF IInv, ClientInv, Running, IsServer
<1>5. FileInv'
    BY <1>1, FilesStay
<1> QED BY <1>2, <1>3, <1>4, <1>5 DEF IInv

------------------------------------------------------------------------------
(* The theorems.                                                           *)

\* Before the first round there are no threads, names or files.
LEMMA InitIInv == Init => IInv
<1> SUFFICES ASSUME Init PROVE IInv
    OBVIOUS
<1>1. threads = 0 /\ \A t \in Threads : pc[t] = "none" /\ client[t] = NoClient /\ t > 0
    BY LimitsArePositive DEF Init, Threads
<1>2. TypeOK
    <2>1. backlog \in Seq(Clients)
        BY EmptySeq DEF Init
    <2>2. /\ count \in 0..Slots /\ joining \in 0..Slots /\ threads \in 0..MaxThreads
          /\ 0 \in 0..(Slots - 1) /\ 0 \in 0..MaxPackets /\ base \in Nat /\ fileIndex \in Nat
        BY LimitsArePositive DEF Init
    <2>3. DOMAIN files = {}
        BY DEF Init
    <2>4. info \in [0..(Slots - 1) -> [thread : Threads \cup {NoThread}, requests : BOOLEAN]]
        BY DEF Init
    <2>5. /\ slot \in [Threads -> 0..(Slots - 1)]
          /\ pc \in [Threads -> {"none", "listen", "accept", "spawn", "raise", "name", "open",
                                 "header", "read", "finish", "done", "failed"}]
          /\ client \in [Threads -> Clients \cup {NoClient}]
          /\ spawned \in [Threads -> Threads \cup {NoThread}]
          /\ name \in [Threads -> Nat \X Nat]
        BY <2>2 DEF Init
    <2>6. /\ place \in [Clients -> {"away", "backlog", "open", "marked", "killed", "refused"}]
          /\ sent \in [Clients -> 0..MaxPackets] /\ got \in [Clients -> 0..MaxPackets]
        BY <2>2 DEF Init
    <2> QED BY <1>1, <2>1, <2>2, <2>3, <2>4, <2>5, <2>6 DEF Init, TypeOK
<1>3. ThreadInv /\ RoundInv /\ JoinsAll
    BY <1>1 DEF Init, ThreadInv, RoundInv, JoinsAll, Opening
<1>4. Len(backlog) = 0
    BY EmptySeq DEF Init
<1>5. ClientInv
    BY <1>1, <1>4 DEF Init, ClientInv
<1>6. NameInv /\ FileInv
    <2>1. Named = {}
        BY <1>1 DEF Named
    <2> QED BY <1>1, <2>1 DEF Init, NameInv, FileInv
<1> QED BY <1>2, <1>3, <1>5, <1>6 DEF IInv

\* Every step keeps the invariant.
LEMMA NextIInv == ASSUME OneAtATime, ~Children, IInv, [Next]_vars PROVE IInv'
<1>1. CASE UNCHANGED vars
    <2>1. UNCHANGED <<main, joining, program, status, info, count, created, base, fileIndex,
                      listening, backlog, arrived, handler, threads, pc, slot, client, spawned,
                      name, files, place, sent, got>>
        BY <1>1 DEF vars, mainVars, roundVars, signalVars, threadVars, clientVars
    <2>2. TypeOK'
        BY <2>1 DEF IInv, TypeOK
    <2>3. ThreadInv' /\ RoundInv' /\ JoinsAll' /\ NameInv' /\ FileInv'
        BY <2>1, ThreadsStay, NamesStay, FilesStay DEF Named
    <2>4. ClientInv'
        BY <2>1 DEF IInv, ClientInv, Running, IsServer
    <2> QED BY <2>2, <2>3, <2>4 DEF IInv
<1>2. ASSUME NEW t \in Threads, ThreadStep(t)
      PROVE  IInv'
    BY <1>2, ListenKeeps, AcceptKeeps, SpawnKeeps, SpawnNoneKeeps, RaiseKeeps, ChooseNameKeeps,
       OpenKeeps, HeaderKeeps, HeaderWrongKeeps, PacketsEndKeeps, FinishKeeps DEF ThreadStep
<1>3. CASE MainStep
    BY <1>3, StartRoundKeeps, WatchedKeeps, JoinKeeps, EndRoundKeeps DEF MainStep
<1>4. ASSUME NEW c \in Clients, Connect(c) \/ Refused(c) \/ ClientStep(c) \/ Leave(c, "killed")
      PROVE  IInv'
    BY <1>4, ConnectKeeps, RefusedKeeps, SendKeeps, LeaveKeeps, LoseKeeps DEF ClientStep
<1>5. CASE Signal
    BY <1>5, SignalKeeps
<1> QED BY <1>1, <1>2, <1>3, <1>4, <1>5 DEF Next

\* The inductive invariant holds, as long as no client is accepted while another one's file
\* is being opened and only the program that vktrace was given connects.
THEOREM Invariance ==
    ASSUME OneAtATime, ~Children
    PROVE  Spec => []IInv
<1>1. Init => IInv
    BY InitIInv
<1>2. IInv /\ [Next]_vars => IInv'
    BY NextIInv
<1> QED BY <1>1, <1>2, PTL DEF Spec

\* The types, and that no client is recorded twice.
THEOREM TypeCorrect ==
    ASSUME OneAtATime, ~Children
    PROVE  Spec => []TypeOK
<1>1. IInv => TypeOK
    BY DEF IInv
<1> QED BY <1>1, Invariance, PTL

\* No thread uses procInfo when main deletes it: main has joined every recording thread,
\* in every round, although count is raised only after a thread has been created.
THEOREM AllAreJoined ==
    ASSUME OneAtATime, ~Children
    PROVE  Spec => []JoinsAll
<1>1. IInv => JoinsAll
    BY DEF IInv
<1> QED BY <1>1, Invariance, PTL

\* Every trace file that is finished holds the packets of its client and of no other.
THEOREM TracesAreComplete ==
    ASSUME OneAtATime, ~Children
    PROVE  Spec => []TraceComplete
<1>1. IInv => TraceComplete
    BY DEF IInv, FileInv, TraceComplete
<1> QED BY <1>1, Invariance, PTL
================================================================================
