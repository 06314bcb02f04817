---------------------------- MODULE RecordServerProps ----------------------------
(* Properties of the trace server. *)
EXTENDS RecordServer

(* The types of the variables; a client is recorded by one thread only. *)
TypeOK ==
    /\ program \in Programs
    /\ main \in {"start", "watch", "join", "exited"} /\ joining \in 0..Slots
    /\ status \in {"running", "crashed", "killed"}
    /\ threads \in 0..MaxThreads
    /\ info \in [0..(Slots - 1) -> [thread : Threads \cup {NoThread}, requests : BOOLEAN]]
    /\ count \in 0..Slots /\ created \in BOOLEAN
    /\ base \in Nat /\ fileIndex \in Nat
    /\ listening \in BOOLEAN /\ backlog \in Seq(Clients)
    /\ arrived \in BOOLEAN /\ handler \in BOOLEAN
    /\ pc \in [Threads -> {"none", "listen", "accept", "spawn", "raise", "name", "open",
                           "header", "read", "finish", "done", "failed"}]
    /\ slot \in [Threads -> 0..(Slots - 1)]
    /\ client \in [Threads -> Clients \cup {NoClient}]
    /\ spawned \in [Threads -> Threads \cup {NoThread}]
    /\ name \in [Threads -> Nat \X Nat]
    /\ DOMAIN files \subseteq Nat \X Nat
    /\ place \in [Clients -> {"away", "backlog", "open", "marked", "killed", "refused"}]
    /\ sent \in [Clients -> 0..MaxPackets] /\ got \in [Clients -> 0..MaxPackets]
    /\ \A t, u \in Threads : client[t] = client[u] => t = u \/ client[t] = NoClient

(* A trace whose thread has ended is whole: the header of its client's trace, its packets
   in order, nothing of another client, and the tables; without a signal, everything that
   the client sent.  Process_RunRecordTraceThread and vktrace_open_trace_file; a file may
   be opened, and so emptied, for another client while or after it is written. *)
TraceComplete ==
    \A t \in Threads : pc[t] = "done" =>
        LET c == client[t] IN
        /\ files[name[t]] = [i \in 1..(got[c] + 1) |-> <<c, IF i <= got[c] THEN i ELSE 0>>]
        /\ arrived \/ got[c] = sent[c]

(* When main deletes procInfo, and closes the listen socket, no recording thread uses
   them any more, though main reads the count of the threads and the threads themselves
   while the recording threads write them. *)
JoinsAll ==
    main \in {"start", "exited"} => \A t \in 1..threads : pc[t] = "done"

(* A client that waits for its connection to be accepted is not left waiting: a recording
   thread accepts it, or the end of the round, or of vktrace, closes its connection. *)
ClientsServed ==
    \A c \in Clients : place[c] = "backlog" ~> place[c] # "backlog"

(* vktrace -p ends when the program has ended. *)
Ends == ~IsServer /\ main = "join" ~> main = "exited" \/ status # "running"
================================================================================
