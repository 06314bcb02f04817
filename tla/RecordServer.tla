------------------------------ MODULE RecordServer ------------------------------
(***************************************************************************)
(* The trace server: main, the recording threads that accept one client    *)
(* each and write its trace file, and the clients, which are the processes *)
(* with the tracing layer in them (vktrace_trace/vktrace.cpp,              *)
(* vktrace_process.cpp and vktrace_open_trace_file), on Linux.             *)
(***************************************************************************)
EXTENDS Integers, Sequences

CONSTANTS
    Clients,    \* the processes that connect
    Programs,   \* what vktrace may be started with: vktrace -p one of the clients, or
    NoProgram,  \*   NoProgram, as a server
    Children,   \* the program is not the only one to connect, but its children do, too
    Slots,      \* 32: maxCaptureThreadsNumber
    Room,       \* what the buffers of one connection hold, in packets
    OneAtATime, \* a client is accepted only when the one before it has its trace file
    Early,      \* a client may end before it has sent the header of its trace
    MaySignal,  \* vktrace may get SIGINT, SIGTERM or SIGHUP, once
    MaxThreads, \* the recording threads of all rounds: one more than there are clients
    MaxPackets, \* bound on what one client sends, the header included
    NoThread,   \* VKTRACE_NULL_THREAD
    NoClient    \* a thread that has accepted nobody

ASSUME LimitsArePositive ==
    /\ Slots \in Nat \ {0} /\ Room \in Nat \ {0}
    /\ MaxThreads \in Nat \ {0} /\ MaxPackets \in Nat \ {0}
ASSUME ChoicesAreFlags == {Children, OneAtATime, Early, MaySignal} \subseteq BOOLEAN
ASSUME ProgramsAreClients == Programs \subseteq Clients \cup {NoProgram} /\ NoProgram \notin Clients
ASSUME NobodyIsNone == NoClient \notin Clients /\ NoThread \notin 1..MaxThreads

Threads == 1..MaxThreads

VARIABLES
    program,    \* g_settings.program
    main,       \* where main is: start, watch, join, exited
    joining,    \* main: the i of its loop of joins
    status,     \* of the process vktrace: running, crashed, or killed by a signal
    threads,    \* the recording threads created so far, in all rounds
    info,       \* pCaptureThreads: recordingThread and serverRequestsTermination
    count,      \* currentCaptureThreadsCount
    created,    \* traceFileCriticalSectionCreated
    base,       \* traceFilename: its index, 0 for the name given with -o
    fileIndex,  \* s_fileIndex
    listening,  \* the listen socket is open
    backlog,    \* the clients that wait to be accepted
    arrived,    \* terminationSignalArrived
    handler,    \* the signals go to terminationSignalHandler
    pc,         \* where each recording thread is
    slot,       \* its index in pCaptureThreads
    client,     \* the client it has accepted
    spawned,    \* the thread it has created
    name,       \* the name of its trace file
    files,      \* the trace files: what is where, in packets
    place,      \* where each client is
    sent,       \* what it has sent, its header included
    got         \* what has been read of that

mainVars == <<program, main, joining>>
roundVars == <<info, count, created, base>>
threadVars == <<threads, pc, slot, client, spawned, name>>
signalVars == <<arrived, handler>>
clientVars == <<place, sent, got>>
vars == <<mainVars, status, roundVars, fileIndex, listening, backlog, signalVars,
          threadVars, files, clientVars>>

Init ==
    /\ program \in Programs
    /\ main = "start" /\ joining = 0 /\ status = "running"
    /\ info = [i \in 0..(Slots - 1) |-> [thread |-> NoThread, requests |-> FALSE]]
    /\ count = 0 /\ created = FALSE /\ base = 0 /\ fileIndex = 0
    /\ listening = FALSE /\ backlog = <<>>
    /\ arrived = FALSE /\ handler = FALSE
    /\ threads = 0
    /\ pc = [t \in Threads |-> "none"]
    /\ slot = [t \in Threads |-> 0]
    /\ client = [t \in Threads |-> NoClient]
    /\ spawned = [t \in Threads |-> NoThread]
    /\ name = [t \in Threads |-> <<0, 0>>]
    /\ files = <<>>
    /\ place = [c \in Clients |-> "away"]
    /\ sent = [c \in Clients |-> 0]
    /\ got = [c \in Clients |-> 0]

Running == status = "running" /\ main # "exited"
IsServer == program = NoProgram

-----------------------------------------------------------------------------
(* The clients. *)

(* A socket that is connected when the listen queue has it. *)
Connect(c) ==
    /\ place[c] = "away" /\ listening /\ Running
    /\ IsServer \/ c = program \/ Children
    /\ place' = [place EXCEPT ![c] = "backlog"]
    /\ backlog' = Append(backlog, c)
    /\ UNCHANGED <<mainVars, status, roundVars, fileIndex, listening, signalVars, threadVars,
                   files, sent, got>>

(* All attempts to connect have failed: the application runs without a trace, or crashes. *)
Refused(c) ==
    /\ place[c] = "away" /\ ~(listening /\ Running)
    /\ c = program => main # "start"
    /\ place' = [place EXCEPT ![c] = "refused"]
    /\ UNCHANGED <<mainVars, status, roundVars, fileIndex, listening, backlog, signalVars,
                   threadVars, files, sent, got>>

(* The header of the trace first, then packets; a full socket blocks. *)
Send(c) ==
    /\ place[c] = "open" /\ Running
    /\ sent[c] < MaxPackets /\ sent[c] - got[c] < Room
    /\ sent' = [sent EXCEPT ![c] = @ + 1]
    /\ UNCHANGED <<mainVars, status, roundVars, fileIndex, listening, backlog, signalVars,
                   threadVars, files, place, got>>

(* _Unload sends MARKER_TERMINATE_PROCESS; a killed process does not. *)
Leave(c, how) ==
    /\ place[c] = "open" /\ Running
    /\ sent[c] > 0 \/ Early
    /\ how = "marked" => sent[c] - got[c] < Room
    /\ place' = [place EXCEPT ![c] = how]
    /\ UNCHANGED <<mainVars, status, roundVars, fileIndex, listening, backlog, signalVars,
                   threadVars, files, sent, got>>

(* The connection is gone with the process vktrace: a client that reads or writes exits. *)
Lose(c) ==
    /\ ~Running /\ place[c] \in {"backlog", "open"}
    /\ place' = [place EXCEPT ![c] = "refused"]
    /\ UNCHANGED <<mainVars, status, roundVars, fileIndex, listening, backlog, signalVars,
                   threadVars, files, sent, got>>

-----------------------------------------------------------------------------
(* The recording threads: Process_RunRecordTraceThread. *)

At(t, where) == Running /\ pc[t] = where
Goto(t, where) == pc' = [pc EXCEPT ![t] = where]

(* The first thread of a round opens the listen socket. *)
Listen(t) ==
    /\ At(t, "listen")
    /\ listening' = TRUE
    /\ Goto(t, "accept")
    /\ UNCHANGED <<mainVars, status, roundVars, fileIndex, backlog, signalVars,
                   threads, slot, client, spawned, name, files, clientVars>>

Opening == {t \in Threads : pc[t] \in {"spawn", "raise", "name", "open"}}

(* accept, and the handshake. *)
Accept(t) ==
    /\ At(t, "accept") /\ backlog # <<>>
    /\ OneAtATime => Opening = {}
    /\ client' = [client EXCEPT ![t] = Head(backlog)]
    /\ place' = [place EXCEPT ![Head(backlog)] = "open"]
    /\ backlog' = Tail(backlog)
    /\ Goto(t, "spawn")
    /\ UNCHANGED <<mainVars, status, roundVars, fileIndex, listening, signalVars,
                   threads, slot, spawned, name, files, sent, got>>

(* A recording thread for slot i. *)
NewThread(i) ==
    /\ threads < MaxThreads
    /\ threads' = threads + 1
    /\ slot' = [slot EXCEPT ![threads + 1] = i]

(* Mutant of Spawn: the limit is taken for the last index. *)
SpawnPastLimit(t) ==
    /\ At(t, "spawn") /\ count <= Slots
    /\ NewThread(count)
    /\ pc' = [pc EXCEPT ![t] = "raise", ![threads + 1] = "accept"]
    /\ spawned' = [spawned EXCEPT ![t] = threads + 1]
    /\ info' = [info EXCEPT ![count].thread = NoThread]
    /\ UNCHANGED <<mainVars, status, count, created, base, fileIndex, listening, backlog,
                   signalVars, client, name, files, clientVars>>

(* CreateAdditionalRecordTraceThread: the slot that count says, prepared, and the thread. *)
Spawn(t) ==
    /\ At(t, "spawn") /\ count < Slots
    /\ NewThread(count)
    /\ pc' = [pc EXCEPT ![t] = "raise", ![threads + 1] = "accept"]
    /\ spawned' = [spawned EXCEPT ![t] = threads + 1]
    /\ info' = [info EXCEPT ![count].thread = NoThread]
    /\ UNCHANGED <<mainVars, status, count, created, base, fileIndex, listening, backlog,
                   signalVars, client, name, files, clientVars>>

(* The limit is reached: nobody accepts any more clients. *)
SpawnNone(t) ==
    /\ At(t, "spawn") /\ count >= Slots
    /\ Goto(t, "name")
    /\ UNCHANGED <<mainVars, status, roundVars, fileIndex, listening, backlog, signalVars,
                   threads, slot, client, spawned, name, files, clientVars>>

(* Mutant of Raise: the count is not raised. *)
RaiseNot(t) ==
    /\ At(t, "raise")
    /\ info' = [info EXCEPT ![slot[spawned[t]]].thread = spawned[t]]
    /\ Goto(t, "name")
    /\ UNCHANGED <<mainVars, status, count, created, base, fileIndex, listening, backlog,
                   signalVars, threads, slot, client, spawned, name, files, clientVars>>

(* The rest of it, when pthread_create has returned. *)
Raise(t) ==
    /\ At(t, "raise")
    /\ info' = [info EXCEPT ![slot[spawned[t]]].thread = spawned[t]]
    /\ count' = count + 1
    /\ Goto(t, "name")
    /\ UNCHANGED <<mainVars, status, created, base, fileIndex, listening, backlog, signalVars,
                   threads, slot, client, spawned, name, files, clientVars>>

(* Mutant of NextName: the name is never numbered. *)
NextNameGiven == <<base, 0>>

(* find_available_filename: the name given is not numbered when s_fileIndex is 0. *)
NextName == <<base, fileIndex>>

(* vktrace_open_trace_file: the name. *)
ChooseName(t) ==
    /\ At(t, "name")
    /\ IF created
       THEN name' = [name EXCEPT ![t] = NextName] /\ fileIndex' = fileIndex + 1
       ELSE name' = [name EXCEPT ![t] = <<base, 0>>] /\ UNCHANGED fileIndex
    /\ Goto(t, "open")
    /\ UNCHANGED <<mainVars, status, roundVars, listening, backlog, signalVars,
                   threads, slot, client, spawned, files, clientVars>>

(* f, with v at k. *)
With(f, k, v) == [x \in DOMAIN f \cup {k} |-> IF x = k THEN v ELSE f[x]]

(* vktrace_open_trace_file: fopen, which empties the file, and the critical section. *)
Open(t) ==
    /\ At(t, "open")
    /\ files' = With(files, name[t], <<>>)
    /\ created' = TRUE
    /\ Goto(t, "header")
    /\ UNCHANGED <<mainVars, status, info, count, base, fileIndex, listening, backlog,
                   signalVars, threads, slot, client, spawned, name, clientVars>>

(* fwrite where this thread is in its file. *)
Put(t, at, what) == files' = [files EXCEPT ![name[t]] = With(@, at, <<client[t], what>>)]

(* What comes next of the client's packets is read and written. *)
Copy(t) ==
    LET c == client[t] IN
    /\ got[c] < sent[c]
    /\ got' = [got EXCEPT ![c] = @ + 1]
    /\ Put(t, got[c] + 1, got[c] + 1)

(* The test of the loop that reads packets. *)
Loop(t) == Goto(t, IF arrived \/ info[slot[t]].requests THEN "finish" ELSE "read")

(* The header of the trace; from here on signals are caught. *)
Header(t) ==
    /\ At(t, "header")
    /\ Copy(t)
    /\ handler' = TRUE
    /\ Loop(t)
    /\ UNCHANGED <<mainVars, status, roundVars, fileIndex, listening, backlog, arrived,
                   threads, slot, client, spawned, name, place, sent>>

(* What came is no header: the thread returns 1. *)
HeaderWrong(t) ==
    /\ At(t, "header")
    /\ place[client[t]] \in {"marked", "killed"} /\ sent[client[t]] = 0
    /\ Goto(t, "failed")
    /\ UNCHANGED <<mainVars, status, roundVars, fileIndex, listening, backlog, signalVars,
                   threads, slot, client, spawned, name, files, clientVars>>

Packet(t) ==
    /\ At(t, "read")
    /\ Copy(t)
    /\ Loop(t)
    /\ UNCHANGED <<mainVars, status, roundVars, fileIndex, listening, backlog, signalVars,
                   threads, slot, client, spawned, name, place, sent>>

(* Mutant of PacketsEnd: a connection that is closed is read for ever. *)
PacketsEndMarked(t) ==
    LET c == client[t] IN
    /\ At(t, "read")
    /\ got[c] = sent[c] /\ place[c] = "marked"
    /\ info' = [info EXCEPT ![slot[t]].requests = TRUE]
    /\ Goto(t, "finish")
    /\ UNCHANGED <<mainVars, status, count, created, base, fileIndex, listening, backlog,
                   signalVars, threads, slot, client, spawned, name, files, clientVars>>

(* The marker, or a connection that is closed. *)
PacketsEnd(t) ==
    LET c == client[t] IN
    /\ At(t, "read")
    /\ got[c] = sent[c] /\ place[c] \in {"marked", "killed"}
    /\ info' = [info EXCEPT ![slot[t]].requests = @ \/ place[c] = "marked"]
    /\ Goto(t, "finish")
    /\ UNCHANGED <<mainVars, status, count, created, base, fileIndex, listening, backlog,
                   signalVars, threads, slot, client, spawned, name, files, clientVars>>

(* The tables at the end of the file; the signals are no longer caught. *)
Finish(t) ==
    /\ At(t, "finish")
    /\ Put(t, got[client[t]] + 1, 0)
    /\ handler' = FALSE
    /\ Goto(t, "done")
    /\ UNCHANGED <<mainVars, status, roundVars, fileIndex, listening, backlog, arrived,
                   threads, slot, client, spawned, name, clientVars>>

-----------------------------------------------------------------------------
(* main. *)

(* A round: procInfo, in a server with the next name, and the first recording thread. *)
StartRound ==
    /\ Running /\ main = "start"
    /\ IF IsServer
       THEN base' = fileIndex /\ fileIndex' = fileIndex + 1
       ELSE UNCHANGED <<base, fileIndex>>
    /\ NewThread(0)
    /\ pc' = [pc EXCEPT ![threads + 1] = "listen"]
    /\ info' = [i \in 0..(Slots - 1) |->
                [thread |-> IF i = 0 THEN threads + 1 ELSE NoThread, requests |-> FALSE]]
    /\ count' = 1 /\ created' = FALSE
    /\ joining' = 0
    /\ main' = IF IsServer THEN "join" ELSE "watch"
    /\ UNCHANGED <<program, status, listening, backlog, signalVars, client, spawned, name, files, clientVars>>

(* The watchdog thread has seen the end of the program, and main has joined it. *)
Watched ==
    /\ Running /\ main = "watch"
    /\ place[program] \in {"marked", "killed", "refused"}
    /\ main' = "join"
    /\ UNCHANGED <<program, joining, status, roundVars, fileIndex, listening, backlog, signalVars,
                   threadVars, files, clientVars>>

(* When two threads have used one slot, count is past the slots that have a thread. *)
Joined == IF joining < Slots THEN info[joining].thread ELSE NoThread

(* vktrace_linux_sync_wait_for_thread; what a thread returns is taken for an address, so
   that one that has failed, like one that is not there, makes main crash. *)
Join ==
    /\ Running /\ main = "join" /\ joining < count
    /\ Joined # NoThread => pc[Joined] \in {"done", "failed"}
    /\ IF Joined = NoThread \/ pc[Joined] = "failed"
       THEN status' = "crashed" /\ UNCHANGED joining
       ELSE joining' = joining + 1 /\ UNCHANGED status
    /\ UNCHANGED <<program, main, roundVars, fileIndex, listening, backlog, signalVars, threadVars,
                   files, clientVars>>

(* The listen socket is closed, with the clients that wait, and procInfo deleted. *)
EndRound ==
    /\ Running /\ main = "join" /\ joining >= count
    /\ listening' = FALSE
    /\ backlog' = <<>>
    /\ place' = [c \in Clients |-> IF place[c] = "backlog" THEN "refused" ELSE place[c]]
    /\ main' = IF IsServer THEN "start" ELSE "exited"
    /\ UNCHANGED <<program, joining, status, roundVars, fileIndex, signalVars, threadVars, files,
                   sent, got>>

(* SIGINT, SIGTERM or SIGHUP. *)
Signal ==
    /\ MaySignal /\ Running /\ ~arrived
    /\ IF handler
       THEN arrived' = TRUE /\ UNCHANGED status
       ELSE status' = "killed" /\ UNCHANGED arrived
    /\ UNCHANGED <<mainVars, roundVars, fileIndex, listening, backlog, handler, threadVars,
                   files, clientVars>>

-----------------------------------------------------------------------------
(* What a client does by itself, and what the system does to it when vktrace has ended. *)
ClientStep(c) == Send(c) \/ Leave(c, "marked") \/ Lose(c)

ThreadStep(t) ==
    \/ Listen(t) \/ Accept(t)
    \/ Spawn(t) \/ SpawnNone(t) \/ Raise(t)
    \/ ChooseName(t) \/ Open(t)
    \/ Header(t) \/ HeaderWrong(t) \/ Packet(t) \/ PacketsEnd(t) \/ Finish(t)

MainStep == StartRound \/ Watched \/ Join \/ EndRound

Next ==
    \/ \E t \in Threads : ThreadStep(t)
    \/ MainStep
    \/ \E c \in Clients :
        \/ Connect(c) \/ Refused(c) \/ ClientStep(c)
        \/ Leave(c, "killed")
    \/ Signal

Spec == Init /\ [][Next]_vars

(* The threads of vktrace run, and every application that is recorded ends some time, when
   it can write its marker; the system closes the connections of a process that has ended. *)
Fairness ==
    /\ \A t \in Threads : WF_vars(ThreadStep(t))
    /\ WF_vars(MainStep)
    /\ \A c \in Clients : WF_vars(ClientStep(c))

FairSpec == Spec /\ Fairness
=============================================================================
