--------------------------- MODULE MessageStreamProps ---------------------------
(* Properties of the connection between the tracing layer and a recording thread. *)
EXTENDS MessageStream

(* The types of the variables; nobody but the holder of gSendLock has a packet half sent. *)
TypeOK ==
    /\ sending \in [Senders -> Packets \cup {NoPacket}]
    /\ holder \in Senders \cup {NoSender}
    /\ bytesSent \in [Senders -> Nat]
    /\ written \in [Senders -> 0..MaxPackets]
    /\ put \in Seq(Packets) /\ got \in Seq(Packets)
    /\ wire \in Seq(Units) /\ buffer \in Seq(Units) /\ Len(wire) <= Room
    /\ up \in BOOLEAN
    /\ phase \in {"size", "rest", "end"}
    /\ totalDataRead \in Nat
    /\ attempts \in 0..(Wrap - 1)
    /\ \A s \in Senders : bytesSent[s] > 0 => holder = s

(* The packets of the threads of the application, which share one socket that takes and
   gives any part of a packet, are read whole, once and in the order in which their
   sending ended, and when the process is gone, even killed within a packet, the reader
   gets all that were sent to the end, and then is told so: vktrace_MessageStream_ReallySend,
   vktrace_MessageStream_Recv and vktrace_MessageStream_BlockingRecv implement a queue. *)
Queue == INSTANCE MessageQueue WITH
    closed <- ~up, ended <- (phase = "end")

QueueKept == Queue!FairSpec

================================================================================
