----------------------------- MODULE MessageStream -----------------------------
(***************************************************************************)
(* The connection between the tracing layer and a recording thread of the  *)
(* trace server, after the handshake: both sockets do not block            *)
(* (vktrace_common/vktrace_interconnect.c, vktrace_filelike.c, and         *)
(* vktrace_read_trace_packet in vktrace_trace_packet_utils.c).             *)
(*                                                                         *)
(* A packet is a number of units, the first of them its size.  The socket  *)
(* takes and gives any number of units at a time.                          *)
(***************************************************************************)
EXTENDS Integers, Sequences, FiniteSets

CONSTANTS
    Senders,    \* the threads of the application
    Sizes,      \* the sizes that packets have, in units
    SizeUnits,  \* the units of a packet that are its size
    Room,       \* the units that the buffers of the sockets hold
    GiveUp,     \* 200: the calls of recv after which a closed connection is given up
    Wrap,       \* 2^32: an unsigned int counts the calls of recv
    MayBeCut,   \* the application may be killed while it sends a packet
    MaxPackets, \* bound on the packets written by one thread
    NoSender,   \* nobody holds gSendLock
    NoPacket    \* a thread that sends nothing

ASSUME PacketsHaveHeaders ==
    SizeUnits \in Nat \ {0} /\ Sizes \subseteq Nat /\ \A n \in Sizes : n > SizeUnits
ASSUME LimitsArePositive == Room \in Nat \ {0} /\ GiveUp \in Nat \ {0} /\ MaxPackets \in Nat
ASSUME CounterHoldsLimit == Wrap \in Nat /\ Wrap > GiveUp
ASSUME CutIsAFlag == MayBeCut \in BOOLEAN
ASSUME NobodyIsNoSender == NoSender \notin Senders

Packets == [by : Senders, number : 1..MaxPackets, size : Sizes]
Units == [packet : Packets, unit : Nat]

VARIABLES
    sending,    \* the packet that each thread is sending
    holder,     \* the thread that holds gSendLock
    bytesSent,  \* ReallySend: how much of its packet each thread has put into the socket
    written,    \* the packets that each thread has written (history)
    put,        \* the packets that are in the socket to the end, in order (history)
    wire,       \* the units in the buffers of the sockets
    up,         \* the process of the application runs
    phase,      \* what is read: the size of a packet, its rest, or nothing any more
    buffer,     \* pHeader: the units of the packet read so far
    totalDataRead, \* Recv: the units that this call has read
    attempts,   \* Recv: its calls of recv
    got         \* the packets read, in order (history)

sendVars == <<sending, holder, bytesSent, written, put, up>>
recvVars == <<phase, buffer, totalDataRead, attempts, got>>
vars == <<sendVars, wire, recvVars>>

Init ==
    /\ sending = [s \in Senders |-> NoPacket]
    /\ holder = NoSender
    /\ bytesSent = [s \in Senders |-> 0]
    /\ written = [s \in Senders |-> 0]
    /\ put = <<>>
    /\ wire = <<>>
    /\ up = TRUE
    /\ phase = "size"
    /\ buffer = <<>>
    /\ totalDataRead = 0
    /\ attempts = 0
    /\ got = <<>>

-----------------------------------------------------------------------------
(* The application. *)

Unit(p, k) == [packet |-> p, unit |-> k]

(* A thread calls vktrace_write_trace_packet. *)
Write(s) ==
    /\ up /\ sending[s] = NoPacket
    /\ written[s] < MaxPackets
    /\ written' = [written EXCEPT ![s] = @ + 1]
    /\ \E size \in Sizes :
        sending' = [sending EXCEPT ![s] = [by |-> s, number |-> written'[s], size |-> size]]
    /\ UNCHANGED <<holder, bytesSent, put, wire, up, recvVars>>

(* ReallySend takes gSendLock. *)
TakeLock(s) ==
    /\ up /\ sending[s] # NoPacket
    /\ holder = NoSender
    /\ holder' = s
    /\ UNCHANGED <<sending, bytesSent, written, put, wire, up, recvVars>>

(* send takes as much as fits; with a full socket (WSAEWOULDBLOCK) it is called again. *)
SendSome(s, n) ==
    /\ up /\ holder = s /\ sending[s] # NoPacket
    /\ n \in 1..(sending[s].size - bytesSent[s])
    /\ Len(wire) + n <= Room
    /\ wire' = wire \o [i \in 1..n |-> Unit(sending[s], bytesSent[s] + i)]
    /\ UNCHANGED <<written, up, recvVars>>

(* With the last unit ReallySend returns. *)
SendLast(s, n) ==
    /\ bytesSent[s] + n = sending[s].size
    /\ bytesSent' = [bytesSent EXCEPT ![s] = 0]
    /\ put' = Append(put, sending[s])
    /\ sending' = [sending EXCEPT ![s] = NoPacket]
    /\ holder' = NoSender

(* Mutant of Send: gSendLock is held for one call of send only. *)
SendPieces(s) ==
    \E n \in 1..Room :
        /\ SendSome(s, n)
        /\ \/ SendLast(s, n)
           \/ /\ bytesSent[s] + n < sending[s].size
              /\ bytesSent' = [bytesSent EXCEPT ![s] = @ + n]
              /\ holder' = NoSender
              /\ UNCHANGED <<sending, put>>

Send(s) ==
    \E n \in 1..Room :
        /\ SendSome(s, n)
        /\ \/ SendLast(s, n)
           \/ /\ bytesSent[s] + n < sending[s].size
              /\ bytesSent' = [bytesSent EXCEPT ![s] = @ + n]
              /\ UNCHANGED <<sending, holder, put>>

(* The process ends: by itself when its threads have sent everything, or killed. *)
Exit ==
    /\ up
    /\ MayBeCut \/ \A s \in Senders : sending[s] = NoPacket
    /\ up' = FALSE
    /\ UNCHANGED <<sending, holder, bytesSent, written, put, wire, recvVars>>

-----------------------------------------------------------------------------
(* The recording thread: BlockingRecv and Recv for the size, then for the rest. *)

Wanted == IF phase = "size" THEN SizeUnits ELSE buffer[1].packet.size - SizeUnits
Counted == (attempts + 1) % Wrap

(* What vktrace_read_trace_packet makes of the units: the packet, if they are its units. *)
Read(units) ==
    LET p == units[1].packet
    IN  IF units = [k \in 1..p.size |-> Unit(p, k)] THEN p ELSE NoPacket

(* recv has data: any part of what is there, up to what is wanted. *)
RecvData ==
    /\ phase # "end" /\ wire # <<>>
    /\ \E n \in 1..(Wanted - totalDataRead) :
        /\ n <= Len(wire)
        /\ wire' = SubSeq(wire, n + 1, Len(wire))
        /\ buffer' = buffer \o SubSeq(wire, 1, n)
        /\ totalDataRead' = totalDataRead + n
    /\ totalDataRead' < Wanted
    /\ attempts' = Counted
    /\ UNCHANGED <<sendVars, phase, got>>

(* recv has the last of the data wanted: Recv returns TRUE. *)
RecvLast ==
    /\ phase # "end"
    /\ LET n == Wanted - totalDataRead IN
        /\ n <= Len(wire)
        /\ wire' = SubSeq(wire, n + 1, Len(wire))
        /\ IF phase = "size"
           THEN /\ phase' = "rest"
                /\ buffer' = buffer \o SubSeq(wire, 1, n)
                /\ UNCHANGED got
           ELSE /\ phase' = "size"
                /\ buffer' = <<>>
                /\ got' = Append(got, Read(buffer \o SubSeq(wire, 1, n)))
    /\ totalDataRead' = 0
    /\ attempts' = 0
    /\ UNCHANGED sendVars

(* Mutant of RecvAgain: Recv returns in the middle of its data, too. *)
RecvForgets ==
    /\ phase # "end" /\ wire = <<>> /\ up
    /\ buffer' = IF phase = "size" THEN <<>> ELSE SubSeq(buffer, 1, SizeUnits)
    /\ totalDataRead' = 0
    /\ attempts' = 0
    /\ UNCHANGED <<sendVars, wire, phase, got>>

(* EAGAIN: before the first unit Recv returns FALSE and BlockingRecv calls it again;
   in the middle Recv goes on itself. *)
RecvAgain ==
    /\ phase # "end" /\ wire = <<>> /\ up
    /\ attempts' = IF totalDataRead = 0 THEN 0 ELSE Counted
    /\ UNCHANGED <<sendVars, wire, phase, buffer, totalDataRead, got>>

(* recv returns 0: the peer has shut down.  WSAECONNRESET at the GiveUp-th call exactly:
   when that call had data or found none, only after the counter has wrapped. *)
RecvClosed ==
    /\ phase # "end" /\ wire = <<>> /\ ~up
    /\ attempts' = Counted
    /\ phase' = IF Counted = GiveUp THEN "end" ELSE phase
    /\ UNCHANGED <<sendVars, wire, buffer, totalDataRead, got>>

-----------------------------------------------------------------------------
SenderStep(s) == TakeLock(s) \/ Send(s)
RecvStep == RecvData \/ RecvLast \/ RecvAgain \/ RecvClosed

Next ==
    \/ \E s \in Senders : Write(s) \/ SenderStep(s)
    \/ Exit
    \/ RecvStep

Spec == Init /\ [][Next]_vars

(* The threads of both processes run; the recording thread polls. *)
Fairness == WF_vars(RecvStep) /\ \A s \in Senders : WF_vars(SenderStep(s))

FairSpec == Spec /\ Fairness
===============================================================================
