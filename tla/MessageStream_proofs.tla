------------------------ MODULE MessageStream_proofs ------------------------
(***************************************************************************)
(* Proofs about the connection between the tracing layer and a recording   *)
(* thread: for all threads, sizes of packets and of the sockets, however   *)
(* the sockets cut the packets, and whenever the process ends, a recording *)
(* thread sees a queue of packets.                                         *)
(***************************************************************************)
EXTENDS MessageStreamProps, TLAPS, SequenceTheorems

\* What the recording thread has not yet made a packet of.
Stream == buffer \o wire

\* The packets that are in it whole.
Waiting == Len(put) - Len(got)

\* What the holder of gSendLock has added to them of the next packet.
Half == IF holder = NoSender THEN 0 ELSE bytesSent[holder]

\* start[k] units of the stream come before the k-th of these packets.
Starts(start) ==
    /\ start[1] = 0
    /\ \A i, k \in 1..(Waiting + 1) : i <= k => start[i] <= start[k]
    /\ \A k \in 1..Waiting :
        /\ start[k + 1] = start[k] + put[Len(got) + k].size
        /\ \A j \in 1..put[Len(got) + k].size :
                Stream[start[k] + j] = Unit(put[Len(got) + k], j)
    /\ Len(Stream) = start[Waiting + 1] + Half
    /\ \A j \in 1..Half : Stream[start[Waiting + 1] + j] = Unit(sending[holder], j)

\* The stream is the packets that have been sent and not yet read, one after the other,
\* and what has been sent of the next.
StreamInv == \E start \in [1..(Waiting + 1) -> 0..Len(Stream)] : Starts(start)

\* A thread that holds gSendLock has something left to send.
SendInv ==
    /\ holder # NoSender => sending[holder] # NoPacket
    /\ \A s \in Senders : sending[s] # NoPacket => bytesSent[s] < sending[s].size

\* The recording thread has part of a packet, and at the end none is left.
RecvInv ==
    /\ phase = "size" => Len(buffer) = totalDataRead /\ totalDataRead < SizeUnits
    /\ phase = "rest" =>
        /\ Len(buffer) = SizeUnits + totalDataRead
        /\ totalDataRead < buffer[1].packet.size - SizeUnits
    /\ phase = "end" => ~up /\ got = put

\* What has been read is how what has been sent begins.
OrderInv ==
    /\ Len(got) <= Len(put)
    /\ \A i \in 1..Len(got) : got[i] = put[i]

\* The inductive invariant.
IInv == TypeOK /\ SendInv /\ RecvInv /\ OrderInv /\ StreamInv

-----------------------------------------------------------------------------
(* Sequences and types.                                                    *)

\* A sequence cut in two.
LEMMA Cut ==
    ASSUME NEW S, NEW s \in Seq(S), NEW n \in 0..Len(s)
    PROVE  /\ SubSeq(s, 1, n) \in Seq(S) /\ Len(SubSeq(s, 1, n)) = n
           /\ \A i \in 1..n : SubSeq(s, 1, n)[i] = s[i]
           /\ SubSeq(s, n + 1, Len(s)) \in Seq(S)
           /\ Len(SubSeq(s, n + 1, Len(s))) = Len(s) - n
           /\ \A i \in 1..(Len(s) - n) : SubSeq(s, n + 1, Len(s))[i] = s[n + i]
<1>1. Len(s) \in Nat /\ n \in Nat
    BY LenProperties
<1>2. \A i \in 1..Len(s) : s[i] \in S
    BY ElementOfSeq
<1>3. \A i \in 1..n : s[i] \in S
    BY <1>1, <1>2
<1>4. \A i \in (n + 1)..Len(s) : s[i] \in S
    BY <1>1, <1>2
<1>5. /\ SubSeq(s, 1, n) \in Seq(S)
      /\ Len(SubSeq(s, 1, n)) = IF 1 <= n THEN n - 1 + 1 ELSE 0
      /\ \A i \in 1..(n - 1 + 1) : SubSeq(s, 1, n)[i] = s[1 + i - 1]
    BY <1>1, <1>3, SubSeqProperties
<1>6. /\ SubSeq(s, n + 1, Len(s)) \in Seq(S)
      /\ Len(SubSeq(s, n + 1, Len(s))) = IF n + 1 <= Len(s) THEN Len(s) - (n + 1) + 1 ELSE 0
      /\ \A i \in 1..(Len(s) - (n + 1) + 1) :
                SubSeq(s, n + 1, Len(s))[i] = s[n + 1 + i - 1]
    BY <1>1, <1>4, SubSeqProperties
<1> QED BY <1>1, <1>5, <1>6

\* What is taken from the sockets and put behind what was read stays in between.
LEMMA Moved ==
    ASSUME wire \in Seq(Units), buffer \in Seq(Units), NEW n \in 0..Len(wire)
    PROVE  LET a == SubSeq(wire, 1, n)
               b == SubSeq(wire, n + 1, Len(wire))
           IN  /\ buffer \o a \in Seq(Units)
               /\ Len(buffer \o a) = Len(buffer) + n
               /\ \A i \in 1..(Len(buffer) + n) : (buffer \o a)[i] = (buffer \o wire)[i]
               /\ (buffer \o a) \o b = buffer \o wire
<1> DEFINE a == SubSeq(wire, 1, n)
           b == SubSeq(wire, n + 1, Len(wire))
<1> HIDE DEF a, b
<1>a. a = SubSeq(wire, 1, n)
    BY DEF a
<1>b. b = SubSeq(wire, n + 1, Len(wire))
    BY DEF b
<1>1. /\ a \in Seq(Units) /\ Len(a) = n /\ b \in Seq(Units) /\ Len(b) = Len(wire) - n
      /\ \A i \in 1..n : a[i] = wire[i]
      /\ \A i \in 1..(Len(wire) - n) : b[i] = wire[n + i]
    BY Cut, <1>a, <1>b
<1>2. /\ buffer \o a \in Seq(Units) /\ Len(buffer \o a) = Len(buffer) + n
      /\ \A i \in 1..(Len(buffer) + n) : (buffer \o a)[i] = IF i <= Len(buffer) THEN buffer[i] ELSE a[i - Len(buffer)]
    BY <1>1, ConcatProperties
<1>3. /\ buffer \o wire \in Seq(Units) /\ Len(buffer \o wire) = Len(buffer) + Len(wire)
      /\ \A i \in 1..(Len(buffer) + Len(wire)) :
            (buffer \o wire)[i] = IF i <= Len(buffer) THEN buffer[i] ELSE wire[i - Len(buffer)]
    BY ConcatProperties
<1>4. /\ (buffer \o a) \o b \in Seq(Units) /\ Len((buffer \o a) \o b) = Len(buffer \o a) + Len(b)
      /\ \A i \in 1..(Len(buffer \o a) + Len(b)) :
            ((buffer \o a) \o b)[i] = IF i <= Len(buffer \o a) THEN (buffer \o a)[i] ELSE b[i - Len(buffer \o a)]
    <2> DEFINE c == buffer \o a
    <2>1. c \in Seq(Units)
        BY <1>2
    <2> HIDE DEF c
    <2>2. /\ c \o b \in Seq(Units) /\ Len(c \o b) = Len(c) + Len(b)
          /\ \A i \in 1..(Len(c) + Len(b)) :
                (c \o b)[i] = IF i <= Len(c) THEN c[i] ELSE b[i - Len(c)]
        BY <1>1, <2>1, ConcatProperties
    <2> QED BY <2>2 DEF c
<1>5. Len(buffer) \in Nat /\ Len(wire) \in Nat /\ n \in 0..Len(wire)
    BY LenProperties
<1>6. \A i \in 1..(Len(buffer) + n) : (buffer \o a)[i] = (buffer \o wire)[i]
    BY <1>1, <1>2, <1>3, <1>5
<1>7. Len((buffer \o a) \o b) = Len(buffer \o wire)
    BY <1>1, <1>2, <1>3, <1>4, <1>5
<1>8. ASSUME NEW i \in 1..Len((buffer \o a) \o b)
      PROVE  ((buffer \o a) \o b)[i] = (buffer \o wire)[i]
    <2>1. i \in 1..(Len(buffer) + Len(wire))
        BY <1>3, <1>7
    <2>2. CASE i <= Len(buffer) + n
        BY <2>1, <2>2, <1>1, <1>2, <1>4, <1>5, <1>6
    <2>3. CASE i > Len(buffer) + n
        <3>1. ((buffer \o a) \o b)[i] = b[i - (Len(buffer) + n)]
            BY <2>1, <2>3, <1>1, <1>2, <1>4, <1>5
        <3>2. b[i - (Len(buffer) + n)] = wire[n + (i - (Len(buffer) + n))]
            <4>1. i - (Len(buffer) + n) \in 1..(Len(wire) - n)
                BY <2>1, <2>3, <1>5
            <4> QED BY <4>1, <1>1
        <3>3. n + (i - (Len(buffer) + n)) = i - Len(buffer)
            BY <1>5, <2>1
        <3>4. (buffer \o wire)[i] = wire[i - Len(buffer)]
            BY <2>1, <2>3, <1>3, <1>5
        <3> QED BY <3>1, <3>2, <3>3, <3>4
    <2> QED BY <2>1, <2>2, <2>3, <1>5
<1>9. (buffer \o a) \o b = buffer \o wire
    BY <1>3, <1>4, <1>7, <1>8, SeqEqual
<1> QED BY <1>a, <1>b, <1>2, <1>6, <1>9

\* A packet that ends in the stream lies in it.
LEMMA Within ==
    ASSUME NEW at \in Nat, NEW size \in Nat, NEW len \in Nat, at + size \in 0..len
    PROVE  \A j \in 1..size : at + j \in 1..len
OBVIOUS

\* Packets have units.
LEMMA PacketType ==
    ASSUME NEW p \in Packets
    PROVE  p.size \in Nat /\ p.size > SizeUnits /\ SizeUnits \in Nat \ {0}
BY PacketsHaveHeaders DEF Packets

\* The types of the sequences.
LEMMA StreamType ==
    ASSUME TypeOK, OrderInv
    PROVE  /\ Stream \in Seq(Units)
           /\ Len(Stream) = Len(buffer) + Len(wire)
           /\ Len(Stream) \in Nat /\ Len(buffer) \in Nat /\ Len(wire) \in Nat
           /\ Len(put) \in Nat /\ Len(got) \in Nat
           /\ Waiting \in Nat /\ Len(put) = Len(got) + Waiting
           /\ \A k \in 1..Waiting : put[Len(got) + k] \in Packets
           /\ \A i \in 1..Len(buffer) : Stream[i] = buffer[i]
<1>1. /\ buffer \in Seq(Units) /\ wire \in Seq(Units)
      /\ put \in Seq(Packets) /\ got \in Seq(Packets)
    BY DEF TypeOK
<1>2. /\ Len(buffer) \in Nat /\ Len(wire) \in Nat
      /\ Len(put) \in Nat /\ Len(got) \in Nat
    BY <1>1, LenProperties
<1>3. /\ Stream \in Seq(Units) /\ Len(Stream) = Len(buffer) + Len(wire)
      /\ \A i \in 1..(Len(buffer) + Len(wire)) :
            Stream[i] = IF i <= Len(buffer) THEN buffer[i] ELSE wire[i - Len(buffer)]
    BY <1>1, ConcatProperties DEF Stream
<1>4. Waiting \in Nat /\ Len(put) = Len(got) + Waiting
    BY <1>2 DEF Waiting, OrderInv
<1>5. \A k \in 1..Waiting : Len(got) + k \in 1..Len(put)
    BY <1>2, <1>4
<1>6. \A k \in 1..Waiting : put[Len(got) + k] \in Packets
    BY <1>1, <1>5, ElementOfSeq
<1> QED BY <1>2, <1>3, <1>4, <1>6

\* The units that are sent of a packet.
LEMMA HalfType ==
    ASSUME TypeOK, SendInv
    PROVE  /\ Half \in Nat
           /\ \A s \in Senders : holder = s => Half = bytesSent[s]
           /\ \A s \in Senders : holder # s => bytesSent[s] = 0
           /\ Half > 0 => /\ holder \in Senders /\ sending[holder] \in Packets
                          /\ Half < sending[holder].size
BY NobodyIsNoSender DEF Half, TypeOK, SendInv

-----------------------------------------------------------------------------
(* What is in the stream.                                                  *)

\* The invariant of the stream depends on what follows what, not on where it is.
LEMMA StreamStays ==
    ASSUME StreamInv, Stream' = Stream, UNCHANGED <<put, got>>, Half' = Half,
           Half > 0 => sending'[holder'] = sending[holder],
           Half \in Nat
    PROVE  StreamInv'
<1> PICK start \in [1..(Waiting + 1) -> 0..Len(Stream)] : Starts(start)
    BY DEF StreamInv
<1>1. Waiting' = Waiting /\ put' = put /\ got' = got
    BY DEF Waiting
<1>2. \A j \in 1..Half : sending'[holder'] = sending[holder]
    OBVIOUS
<1>3. Starts(start)'
    BY <1>1, <1>2 DEF Starts
<1>4. start \in [1..(Waiting' + 1) -> 0..Len(Stream')]
    BY <1>1
<1> QED BY <1>3, <1>4 DEF StreamInv

\* The first packet of the stream is the next one to read, if one is waiting.
LEMMA FirstPacket ==
    ASSUME TypeOK, OrderInv, StreamInv, Waiting > 0
    PROVE  /\ Len(got) + 1 \in 1..Len(put)
           /\ put[Len(got) + 1] \in Packets
           /\ Len(Stream) >= put[Len(got) + 1].size
           /\ \A j \in 1..put[Len(got) + 1].size : Stream[j] = Unit(put[Len(got) + 1], j)
<1> PICK start \in [1..(Waiting + 1) -> 0..Len(Stream)] : Starts(start)
    BY DEF StreamInv
<1> DEFINE p == put[Len(got) + 1]
<1>1. Waiting \in Nat /\ 1 \in 1..Waiting /\ 2 \in 1..(Waiting + 1)
    BY StreamType
<1>2. p \in Packets /\ p.size \in Nat
    BY <1>1, StreamType, PacketType
<1>3. /\ start[1 + 1] = start[1] + p.size /\ start[1] = 0
      /\ \A j \in 1..p.size : Stream[start[1] + j] = Unit(p, j)
    BY <1>1 DEF Starts
<1>4. start[2] = p.size
    BY <1>2, <1>3
<1>5. start[2] \in 0..Len(Stream)
    BY <1>1
<1>6. \A j \in 1..p.size : Stream[j] = Unit(p, j)
    BY <1>2, <1>3
<1>7. Len(Stream) >= p.size
    BY <1>2, <1>4, <1>5, StreamType
<1>8. Len(got) + 1 \in 1..Len(put)
    BY <1>1, StreamType
<1> QED BY <1>2, <1>6, <1>7, <1>8

\* Without a packet that waits, the stream is what is sent of one.
LEMMA NothingWaits ==
    ASSUME TypeOK, OrderInv, SendInv, StreamInv, Waiting = 0
    PROVE  /\ Len(Stream) = Half
           /\ \A j \in 1..Half : Stream[j] = Unit(sending[holder], j)
<1> PICK start \in [1..(Waiting + 1) -> 0..Len(Stream)] : Starts(start)
    BY DEF StreamInv
<1>1. Half \in Nat
    BY HalfType
<1>2. /\ start[1] = 0 /\ Len(Stream) = start[1] + Half
      /\ \A j \in 1..Half : Stream[start[1] + j] = Unit(sending[holder], j)
    BY DEF Starts
<1> QED BY <1>1, <1>2

\* The recording thread has begun with a packet that comes whole, or has been begun.
LEMMA BufferPacket ==
    ASSUME TypeOK, OrderInv, SendInv, StreamInv, Len(Stream) > 0
    PROVE  LET p == Stream[1].packet
           IN  /\ p \in Packets
               /\ Len(Stream) >= p.size =>
                    /\ Waiting > 0 /\ p = put[Len(got) + 1]
                    /\ \A j \in 1..p.size : Stream[j] = Unit(p, j)
               /\ Waiting > 0 => Len(Stream) >= p.size
<1> DEFINE p == Stream[1].packet
<1>1. Waiting \in Nat /\ Half \in Nat /\ Len(Stream) \in Nat
    BY StreamType, HalfType
<1>2. CASE Waiting > 0
    <2> DEFINE q == put[Len(got) + 1]
    <2>1. q \in Packets /\ Len(Stream) >= q.size
          /\ \A j \in 1..q.size : Stream[j] = Unit(q, j)
        BY <1>2, FirstPacket
    <2>2. 1 \in 1..q.size
        BY <2>1, PacketType
    <2>3. p = q
        <3>1. Stream[1] = Unit(q, 1)
            BY <2>1, <2>2
        <3> QED BY <3>1 DEF Unit
    <2> QED BY <1>2, <2>1, <2>3
<1>3. CASE Waiting = 0
    <2>1. /\ Len(Stream) = Half
          /\ \A j \in 1..Half : Stream[j] = Unit(sending[holder], j)
        BY <1>3, NothingWaits
    <2>2. 1 \in 1..Half /\ sending[holder] \in Packets /\ Half < sending[holder].size
        BY <1>1, <2>1, HalfType
    <2>3. p = sending[holder]
        BY <2>1, <2>2 DEF Unit
    <2>4. ~(Len(Stream) >= p.size)
        BY <1>1, <2>1, <2>2, <2>3, PacketType
    <2> QED BY <1>3, <2>2, <2>3, <2>4
<1> QED BY <1>1, <1>2, <1>3

-----------------------------------------------------------------------------
(* The steps of the application.                                           *)

\* A thread that begins to write changes nothing that anybody else sees.
LEMMA WriteKeeps ==
    ASSUME IInv, NEW s \in Senders, Write(s)
    PROVE  IInv'
<1>1. PICK size \in Sizes :
        sending' = [sending EXCEPT ![s] = [by |-> s, number |-> written'[s], size |-> size]]
    BY DEF Write
<1>2. /\ sending[s] = NoPacket /\ written[s] \in 0..MaxPackets /\ written[s] < MaxPackets
      /\ written' = [written EXCEPT ![s] = @ + 1]
      /\ UNCHANGED <<holder, bytesSent, put, wire, up, recvVars>>
    BY DEF IInv, TypeOK, Write
<1>3. written'[s] \in 1..MaxPackets /\ written' \in [Senders -> 0..MaxPackets]
    BY <1>2, LimitsArePositive DEF IInv, TypeOK
<1>4. [by |-> s, number |-> written'[s], size |-> size] \in Packets
    BY <1>3 DEF Packets
<1>5. sending' \in [Senders -> Packets \cup {NoPacket}]
    BY <1>1, <1>4 DEF IInv, TypeOK
<1>6. TypeOK'
    BY <1>2, <1>3, <1>5 DEF IInv, TypeOK, recvVars
<1>7. holder # s
    BY <1>2, NobodyIsNoSender DEF IInv, SendInv
<1>8. SendInv'
    <2>1. bytesSent[s] = 0
        BY <1>7, HalfType DEF IInv
    <2>2. size \in Nat /\ size > 0
        BY PacketsHaveHeaders
    <2>3. ASSUME NEW u \in Senders, sending'[u] # NoPacket
          PROVE  bytesSent'[u] < sending'[u].size
        <3>1. CASE u = s
            BY <3>1, <2>1, <2>2, <1>1, <1>2 DEF IInv, TypeOK
        <3>2. CASE u # s
            BY <3>2, <2>3, <1>1, <1>2 DEF IInv, TypeOK, SendInv
        <3> QED BY <3>1, <3>2
    <2>4. holder' # NoSender => sending'[holder'] # NoPacket
        BY <1>1, <1>2, <1>7 DEF IInv, TypeOK, SendInv
    <2> QED BY <2>3, <2>4 DEF SendInv
<1>9. RecvInv' /\ OrderInv'
    BY <1>2 DEF IInv, RecvInv, OrderInv, recvVars
<1>10. StreamInv'
    <2>1. Stream' = Stream /\ Half' = Half /\ Half \in Nat
        BY <1>2, HalfType DEF IInv, Stream, Half, recvVars
    <2>2. Half > 0 => sending'[holder'] = sending[holder]
        BY <1>1, <1>2, <1>7, HalfType DEF IInv, TypeOK
    <2> QED BY <1>2, <2>1, <2>2, StreamStays DEF IInv, recvVars
<1> QED BY <1>6, <1>8, <1>9, <1>10 DEF IInv

\* A thread that gets gSendLock has sent nothing yet.
LEMMA TakeLockKeeps ==
    ASSUME IInv, NEW s \in Senders, TakeLock(s)
    PROVE  IInv'
<1>1. /\ holder = NoSender /\ holder' = s /\ sending[s] # NoPacket
      /\ UNCHANGED <<sending, bytesSent, written, put, wire, up, recvVars>>
    BY DEF TakeLock
<1>2. \A u \in Senders : bytesSent[u] = 0
    BY <1>1, HalfType, NobodyIsNoSender DEF IInv
<1>3. TypeOK'
    BY <1>1, <1>2 DEF IInv, TypeOK, recvVars
<1>4. SendInv' /\ RecvInv' /\ OrderInv'
    BY <1>1 DEF IInv, SendInv, RecvInv, OrderInv, recvVars
<1>5. StreamInv'
    <2>1. Half = 0 /\ Half' = 0
        BY <1>1, <1>2, NobodyIsNoSender DEF Half
    <2>2. Stream' = Stream
        BY <1>1 DEF Stream, recvVars
    <2> QED BY <1>1, <2>1, <2>2, StreamStays DEF IInv, recvVars
<1> QED BY <1>3, <1>4, <1>5 DEF IInv

\* The end of the process leaves what is in the sockets.
LEMMA ExitKeeps ==
    ASSUME IInv, Exit
    PROVE  IInv'
<1>1. up' = FALSE /\ up /\ UNCHANGED <<sending, holder, bytesSent, written, put, wire, recvVars>>
    BY DEF Exit
<1>2. TypeOK' /\ SendInv' /\ RecvInv' /\ OrderInv'
    BY <1>1 DEF IInv, TypeOK, SendInv, RecvInv, OrderInv, recvVars
<1>3. StreamInv'
    <2>1. Half' = Half /\ Stream' = Stream /\ sending'[holder'] = sending[holder] /\ Half \in Nat
        BY <1>1, HalfType DEF IInv, Half, Stream, recvVars
    <2> QED BY <1>1, <2>1, StreamStays DEF IInv, recvVars
<1> QED BY <1>2, <1>3 DEF IInv

\* send puts the next units of the packet behind what is in the stream.
LEMMA SendAppends ==
    ASSUME IInv, NEW s \in Senders, NEW n \in 1..Room, SendSome(s, n)
    PROVE  LET p == sending[s]
               b == bytesSent[s]
           IN  /\ p \in Packets /\ b \in Nat /\ b < p.size /\ n \in 1..(p.size - b)
               /\ holder = s /\ Half = b
               /\ wire' \in Seq(Units) /\ Len(wire') <= Room
               /\ UNCHANGED <<written, up, recvVars>>
               /\ Len(Stream') = Len(Stream) + n
               /\ \A i \in 1..Len(Stream) : Stream'[i] = Stream[i]
               /\ \A i \in 1..n : Stream'[Len(Stream) + i] = Unit(p, b + i)
<1> DEFINE p == sending[s]
           b == bytesSent[s]
           chunk == [i \in 1..n |-> Unit(p, b + i)]
<1>1. /\ holder = s /\ p # NoPacket /\ n \in 1..(p.size - b)
      /\ Len(wire) + n <= Room /\ wire' = wire \o chunk
      /\ UNCHANGED <<written, up, recvVars>>
    BY DEF SendSome
<1>2. p \in Packets /\ b \in Nat /\ b < p.size /\ Half = b
    BY <1>1, HalfType DEF IInv, TypeOK, SendInv
<1>3. p.size \in Nat /\ n \in Nat \ {0}
    BY <1>2, PacketType
<1>4. \A i \in 1..n : b + i \in Nat
    BY <1>2, <1>3
<1>5. chunk \in [1..n -> Units]
    BY <1>2, <1>4 DEF Unit, Units
<1>6. chunk \in Seq(Units) /\ Len(chunk) = n
    BY <1>3, <1>5
<1>7. \A i \in 1..n : chunk[i] = Unit(p, b + i)
    OBVIOUS
<1> HIDE DEF p, b, chunk
<1>8. wire \in Seq(Units) /\ buffer \in Seq(Units)
    BY DEF IInv, TypeOK
<1>9. wire' \in Seq(Units) /\ Len(wire') = Len(wire) + n
    BY <1>1, <1>6, <1>8, ConcatProperties
<1>10. Stream' = Stream \o chunk
    <2>1. Stream' = buffer \o (wire \o chunk)
        BY <1>1 DEF Stream, recvVars
    <2>2. (buffer \o wire) \o chunk = buffer \o (wire \o chunk)
        BY ONLY <1>6, <1>8, ConcatAssociative
    <2> QED BY <2>1, <2>2 DEF Stream
<1>11. Stream \in Seq(Units) /\ Len(Stream) \in Nat
    BY StreamType DEF IInv
<1>12. /\ Len(Stream') = Len(Stream) + n
       /\ \A i \in 1..(Len(Stream) + n) :
            Stream'[i] = IF i <= Len(Stream) THEN Stream[i] ELSE chunk[i - Len(Stream)]
    <2> DEFINE before == Stream
    <2>1. before \in Seq(Units)
        BY <1>11
    <2> HIDE DEF before
    <2>2. /\ Len(before \o chunk) = Len(before) + n
          /\ \A i \in 1..(Len(before) + n) :
                (before \o chunk)[i] = IF i <= Len(before) THEN before[i] ELSE chunk[i - Len(before)]
        BY <1>6, <2>1, ConcatProperties
    <2> QED BY <1>10, <2>2 DEF before
<1>13. \A i \in 1..Len(Stream) : Stream'[i] = Stream[i]
    BY <1>3, <1>11, <1>12
<1>14. ASSUME NEW i \in 1..n
       PROVE  Stream'[Len(Stream) + i] = Unit(p, b + i)
    <2>1. Len(Stream) + i \in 1..(Len(Stream) + n) /\ ~(Len(Stream) + i <= Len(Stream))
        BY <1>3, <1>11
    <2>2. Len(Stream) + i - Len(Stream) = i
        BY <1>3, <1>11
    <2>3. Stream'[Len(Stream) + i] = chunk[Len(Stream) + i - Len(Stream)]
        BY <1>12, <2>1
    <2> QED BY <1>7, <2>2, <2>3
<1> QED BY <1>1, <1>2, <1>9, <1>12, <1>13, <1>14 DEF p, b

\* With part of a packet in the stream, gSendLock is kept.
LEMMA SendPartKeeps ==
    ASSUME IInv, NEW s \in Senders, NEW n \in 1..Room, SendSome(s, n),
           bytesSent[s] + n < sending[s].size,
           bytesSent' = [bytesSent EXCEPT ![s] = @ + n],
           UNCHANGED <<sending, holder, put>>
    PROVE  IInv'
<1> DEFINE p == sending[s]
           b == bytesSent[s]
<1>1. /\ p \in Packets /\ b \in Nat /\ b < p.size /\ n \in 1..(p.size - b)
      /\ holder = s /\ Half = b
      /\ wire' \in Seq(Units) /\ Len(wire') <= Room
      /\ UNCHANGED <<written, up, recvVars>>
      /\ Len(Stream') = Len(Stream) + n
      /\ \A i \in 1..Len(Stream) : Stream'[i] = Stream[i]
      /\ \A i \in 1..n : Stream'[Len(Stream) + i] = Unit(p, b + i)
    BY SendAppends
<1> HIDE DEF p, b
<1>2. p.size \in Nat /\ n \in Nat \ {0} /\ p = sending[s] /\ b = bytesSent[s] /\ s # NoSender
    BY <1>1, PacketType, NobodyIsNoSender DEF p, b
<1>3. bytesSent' \in [Senders -> Nat] /\ bytesSent'[s] = b + n
      /\ \A u \in Senders : u # s => bytesSent'[u] = bytesSent[u]
    <2>1. bytesSent \in [Senders -> Nat] /\ bytesSent' = [bytesSent EXCEPT ![s] = b + n]
        BY <1>2 DEF IInv, TypeOK
    <2>2. b + n \in Nat
        BY <1>1, <1>2
    <2> QED BY <2>1, <2>2
<1>4. TypeOK'
    BY <1>1, <1>2, <1>3 DEF IInv, TypeOK, recvVars
<1>5. SendInv'
    BY <1>1, <1>2, <1>3 DEF IInv, SendInv
<1>6. RecvInv' /\ OrderInv'
    BY <1>1 DEF IInv, RecvInv, OrderInv, recvVars
<1>7. Half' = b + n
    BY <1>1, <1>2, <1>3 DEF Half
<1>8. StreamInv'
    <2> PICK start \in [1..(Waiting + 1) -> 0..Len(Stream)] : Starts(start)
        BY DEF StreamInv, IInv
    <2>1. Waiting' = Waiting /\ Waiting \in Nat /\ Len(Stream) \in Nat
        BY <1>1, StreamType DEF IInv, Waiting, recvVars
    <2>2. start \in [1..(Waiting' + 1) -> 0..Len(Stream')]
        <3>1. Len(Stream') = Len(Stream) + n /\ n \in Nat
            BY <1>1, <1>2
        <3>2. 0..Len(Stream) \subseteq 0..Len(Stream')
            BY <2>1, <3>1
        <3> QED BY <2>1, <3>2
    <2>3. ASSUME NEW k \in 1..Waiting
          PROVE  /\ start[k + 1] = start[k] + put[Len(got) + k].size
                 /\ \A j \in 1..put[Len(got) + k].size :
                        Stream'[start[k] + j] = Unit(put[Len(got) + k], j)
        <3> DEFINE size == put[Len(got) + k].size
        <3>1. size \in Nat
            BY StreamType, PacketType DEF IInv
        <3>2. /\ start[k + 1] = start[k] + size
              /\ \A j \in 1..size : Stream[start[k] + j] = Unit(put[Len(got) + k], j)
            BY DEF Starts
        <3> HIDE DEF size
        <3>3. k \in 1..(Waiting + 1) /\ k + 1 \in 1..(Waiting + 1)
            BY <2>1
        <3>4. start[k] \in 0..Len(Stream) /\ start[k + 1] \in 0..Len(Stream)
            BY <3>3
        <3>5. \A j \in 1..size : start[k] + j \in 1..Len(Stream)
            BY <2>1, <3>1, <3>2, <3>4
        <3> QED BY <1>1, <3>2, <3>5 DEF size
    <2> DEFINE last == start[Waiting + 1]
    <2>4. last \in Nat /\ Len(Stream) = last + b
          /\ \A j \in 1..b : Stream[last + j] = Unit(p, j)
        BY <2>1, <1>1 DEF Starts, p
    <2>5. \A i, k \in 1..(Waiting + 1) : i <= k => start[i] <= start[k]
        BY DEF Starts
    <2>6. start[1] = 0
        BY DEF Starts
    <2> HIDE DEF last
    <2>7. ASSUME NEW j \in 1..(b + n)
          PROVE  Stream'[last + j] = Unit(p, j)
        <3>1. CASE j <= b
            <4>1. last + j \in 1..Len(Stream) /\ j \in 1..b
                BY <3>1, <2>4, <1>1, <1>2
            <4> QED BY <4>1, <2>4, <1>1
        <3>2. CASE j > b
            <4>1. b \in Nat /\ n \in Nat /\ last \in Nat /\ Len(Stream) = last + b /\ j \in 1..(b + n)
                BY <2>4, <1>1, <1>2
            <4>2. j - b \in 1..n
                BY <3>2, <4>1
            <4>3. last + j = Len(Stream) + (j - b) /\ b + (j - b) = j
                BY <4>1
            <4>4. Stream'[Len(Stream) + (j - b)] = Unit(p, b + (j - b))
                BY <4>2, <1>1
            <4> QED BY <4>3, <4>4
        <3> QED BY <3>1, <3>2, <1>1, <1>2
    <2>8. Len(Stream') = last + (b + n)
        BY <1>1, <1>2, <2>4
    <2>9. put' = put /\ got' = got /\ sending'[holder'] = p
        BY <1>1, <1>2 DEF recvVars
    <2>10. Starts(start)'
        BY <1>7, <2>1, <2>3, <2>5, <2>6, <2>7, <2>8, <2>9 DEF Starts, last
    <2> QED BY <2>2, <2>10 DEF StreamInv
<1> QED BY <1>4, <1>5, <1>6, <1>8 DEF IInv

\* With its last unit a packet waits in the stream.
LEMMA SendLastKeeps ==
    ASSUME IInv, NEW s \in Senders, NEW n \in 1..Room, SendSome(s, n), SendLast(s, n)
    PROVE  IInv'
<1> DEFINE p == sending[s]
           b == bytesSent[s]
<1>1. /\ p \in Packets /\ b \in Nat /\ b < p.size /\ n \in 1..(p.size - b)
      /\ holder = s /\ Half = b
      /\ wire' \in Seq(Units) /\ Len(wire') <= Room
      /\ UNCHANGED <<written, up, recvVars>>
      /\ Len(Stream') = Len(Stream) + n
      /\ \A i \in 1..Len(Stream) : Stream'[i] = Stream[i]
      /\ \A i \in 1..n : Stream'[Len(Stream) + i] = Unit(p, b + i)
    BY SendAppends
<1>2. /\ b + n = p.size
      /\ bytesSent' = [bytesSent EXCEPT ![s] = 0]
      /\ put' = Append(put, p)
      /\ sending' = [sending EXCEPT ![s] = NoPacket]
      /\ holder' = NoSender
    BY DEF SendLast
<1>3. p.size \in Nat /\ n \in Nat \ {0} /\ p = sending[s] /\ b = bytesSent[s] /\ s # NoSender
    BY <1>1, PacketType, NobodyIsNoSender DEF p, b
<1> HIDE DEF p, b
<1>4. /\ put \in Seq(Packets) /\ put' \in Seq(Packets)
      /\ Len(put') = Len(put) + 1 /\ put'[Len(put) + 1] = p
      /\ \A i \in 1..Len(put) : put'[i] = put[i]
    BY <1>1, <1>2, AppendProperties DEF IInv, TypeOK
<1>5. /\ bytesSent' \in [Senders -> Nat] /\ sending' \in [Senders -> Packets \cup {NoPacket}]
      /\ \A u \in Senders : bytesSent'[u] = 0
    BY <1>1, <1>2, HalfType DEF IInv, TypeOK
<1>6. TypeOK'
    <2>1. /\ sending' \in [Senders -> Packets \cup {NoPacket}] /\ holder' = NoSender
          /\ bytesSent' \in [Senders -> Nat] /\ put' \in Seq(Packets)
          /\ wire' \in Seq(Units) /\ Len(wire') <= Room
          /\ \A u \in Senders : bytesSent'[u] = 0
          /\ UNCHANGED <<written, up, phase, buffer, totalDataRead, attempts, got>>
        BY <1>1, <1>2, <1>4, <1>5 DEF recvVars
    <2> QED BY <2>1 DEF IInv, TypeOK
<1>7. SendInv'
    BY <1>1, <1>2, <1>3, <1>5 DEF IInv, TypeOK, SendInv
<1>8. RecvInv'
    BY <1>1 DEF IInv, RecvInv, SendSome, recvVars
<1>9. OrderInv'
    <2>1. Len(put) \in Nat /\ Len(got) \in Nat
        BY StreamType DEF IInv
    <2>2. got' = got
        BY <1>1 DEF recvVars
    <2>3. ASSUME NEW i \in 1..Len(got) PROVE got[i] = put'[i]
        BY <2>1, <1>4 DEF IInv, OrderInv
    <2> QED BY <1>4, <2>1, <2>2, <2>3 DEF IInv, OrderInv
<1>10. StreamInv'
    <2> PICK start \in [1..(Waiting + 1) -> 0..Len(Stream)] : Starts(start)
        BY DEF StreamInv, IInv
    <2> DEFINE last == start[Waiting + 1]
    <2>1. /\ Waiting' = Waiting + 1 /\ Waiting \in Nat /\ Len(Stream) \in Nat
          /\ Len(put) = Len(got) + Waiting /\ got' = got
          /\ Len(got) \in Nat
        BY <1>1, <1>4, StreamType DEF IInv, Waiting, recvVars
    <2>2. /\ last \in Nat /\ Len(Stream) = last + b
          /\ \A j \in 1..b : Stream[last + j] = Unit(p, j)
        <3>1. start[Waiting + 1] \in 0..Len(Stream)
            BY <2>1
        <3>2. /\ Len(Stream) = start[Waiting + 1] + Half
              /\ \A j \in 1..Half : Stream[start[Waiting + 1] + j] = Unit(sending[holder], j)
            BY DEF Starts
        <3>3. sending[holder] = p /\ Half = b
            BY <1>1, <1>3
        <3>4. Len(Stream) = start[Waiting + 1] + b
            BY <3>2, <3>3
        <3>5. \A j \in 1..b : Stream[start[Waiting + 1] + j] = Unit(p, j)
            BY <3>2, <3>3
        <3> QED BY <3>1, <3>4, <3>5
    <2>3. /\ start[1] = 0
          /\ \A i, k \in 1..(Waiting + 1) : i <= k => start[i] <= start[k]
          /\ \A k \in 1..(Waiting + 1) : start[k] \in 0..Len(Stream)
        BY DEF Starts
    <2>4. /\ \A k \in 1..(Waiting + 1) : start[k] <= last
          /\ last \in 0..Len(Stream)
        BY <2>1, <2>3
    <2>5. Len(Stream') = last + p.size
        <3>1. Len(Stream') = Len(Stream) + n /\ Len(Stream) = last + b /\ b + n = p.size
            BY <1>1, <1>2, <2>2
        <3>2. last \in Nat /\ b \in Nat /\ n \in Nat
            BY <1>1, <1>3, <2>2
        <3> HIDE DEF last
        <3> QED BY <3>1, <3>2
    <2> HIDE DEF last
    <2> PICK next : next = [k \in 1..(Waiting + 1 + 1) |->
                                IF k <= Waiting + 1 THEN start[k] ELSE last + p.size]
        OBVIOUS
    <2>6. \A k \in 1..(Waiting + 1) : next[k] = start[k]
        BY <2>1
    <2>7. next[Waiting + 1 + 1] = last + p.size
        BY <2>1
    <2>8. next \in [1..(Waiting' + 1) -> 0..Len(Stream')]
        <3>1. ASSUME NEW k \in 1..(Waiting + 1 + 1)
              PROVE  (IF k <= Waiting + 1 THEN start[k] ELSE last + p.size) \in 0..Len(Stream')
            <4>1. CASE k <= Waiting + 1
                <5>1. k \in 1..(Waiting + 1)
                    BY <4>1, <2>1
                <5>2. start[k] \in 0..Len(Stream)
                    BY <5>1, <2>3
                <5>3. Len(Stream') = Len(Stream) + n /\ n \in Nat
                    BY <1>1, <1>3
                <5> QED BY <4>1, <5>2, <5>3, <2>1
            <4>2. CASE ~(k <= Waiting + 1)
                BY <4>2, <2>2, <2>5, <1>3
            <4> QED BY <4>1, <4>2
        <3> QED BY <2>1, <3>1
    <2>9. next[1] = 0
        BY <2>1, <2>3, <2>6
    <2>10. ASSUME NEW i \in 1..(Waiting' + 1), NEW k \in 1..(Waiting' + 1), i <= k
           PROVE  next[i] <= next[k]
        <3>1. CASE k <= Waiting + 1
            <4>1. i \in 1..(Waiting + 1) /\ k \in 1..(Waiting + 1)
                BY <2>10, <3>1, <2>1
            <4> QED BY <2>10, <4>1, <2>3, <2>6
        <3>2. CASE k > Waiting + 1
            <4>1. k = Waiting + 1 + 1
                BY <3>2, <2>1
            <4>2. CASE i = k
                BY <4>1, <4>2, <2>7, <2>2, <1>3
            <4>3. CASE i # k
                <5>1. i \in 1..(Waiting + 1)
                    BY <4>1, <4>3, <2>1, <2>10
                <5>2. next[i] <= last /\ next[i] \in Nat
                    BY <5>1, <2>3, <2>4, <2>6
                <5> QED BY <5>2, <4>1, <2>7, <2>2, <1>3
            <4> QED BY <4>2, <4>3
        <3> QED BY <3>1, <3>2, <2>1
    <2>11. ASSUME NEW k \in 1..Waiting'
           PROVE  /\ next[k + 1] = next[k] + put'[Len(got') + k].size
                  /\ \A j \in 1..put'[Len(got') + k].size :
                        Stream'[next[k] + j] = Unit(put'[Len(got') + k], j)
        <3>1. CASE k <= Waiting
            <4> DEFINE q == put[Len(got) + k]
            <4>1. k \in 1..Waiting /\ k \in 1..(Waiting + 1) /\ k + 1 \in 1..(Waiting + 1)
                BY <3>1, <2>1
            <4>2. q \in Packets /\ q.size \in Nat
                BY <4>1, StreamType, PacketType DEF IInv
            <4>3. Len(got) + k \in 1..Len(put)
                BY <4>1, <2>1
            <4>4. put'[Len(got') + k] = q
                BY <4>3, <1>4, <2>1
            <4>5. /\ start[k + 1] = start[k] + q.size
                  /\ \A j \in 1..q.size : Stream[start[k] + j] = Unit(q, j)
                BY <4>1 DEF Starts
            <4> HIDE DEF q
            <4>6. start[k] \in 0..Len(Stream) /\ start[k + 1] \in 0..Len(Stream)
                BY <4>1, <2>3
            <4>7. \A j \in 1..q.size : start[k] + j \in 1..Len(Stream)
                <5>1. start[k + 1] = start[k] + q.size /\ Len(Stream) \in Nat
                    BY <2>1, <4>5
                <5> QED BY <4>2, <5>1, <4>6, Within
            <4>8. \A j \in 1..q.size : Stream'[start[k] + j] = Unit(q, j)
                BY <1>1, <4>5, <4>7
            <4>9. next[k] = start[k] /\ next[k + 1] = start[k + 1]
                BY <2>6, <4>1
            <4> QED BY <4>4, <4>5, <4>8, <4>9
        <3>2. CASE k > Waiting
            <4>1. k = Waiting + 1 /\ Len(got') + k = Len(put) + 1
                BY <3>2, <2>1
            <4>2. put'[Len(got') + k] = p
                BY <4>1, <1>4
            <4>3. next[k] = last /\ next[k + 1] = last + p.size
                BY <4>1, <2>1, <2>6, <2>7 DEF last
            <4>4. ASSUME NEW j \in 1..p.size
                  PROVE  Stream'[last + j] = Unit(p, j)
                <5>1. b \in Nat /\ n \in Nat /\ last \in Nat /\ Len(Stream) = last + b /\ j \in 1..(b + n)
                    BY <2>2, <1>1, <1>2, <1>3
                <5>2. CASE j <= b
                    <6>1. last + j \in 1..Len(Stream) /\ j \in 1..b
                        BY <5>1, <5>2
                    <6> QED BY <6>1, <2>2, <1>1
                <5>3. CASE j > b
                    <6>1. j - b \in 1..n
                        BY <5>1, <5>3
                    <6>2. last + j = Len(Stream) + (j - b) /\ b + (j - b) = j
                        BY <5>1
                    <6>3. Stream'[Len(Stream) + (j - b)] = Unit(p, b + (j - b))
                        BY <6>1, <1>1
                    <6> QED BY <6>2, <6>3
                <5> QED BY <5>1, <5>2, <5>3
            <4> QED BY <4>2, <4>3, <4>4
        <3>3. k <= Waiting \/ k > Waiting
            BY <2>1
        <3> QED BY <3>1, <3>2, <3>3
    <2>12. Half' = 0
        BY <1>2 DEF Half
    <2>13. Len(Stream') = next[Waiting' + 1] + Half'
        BY <2>1, <2>2, <2>5, <2>7, <2>12, <1>3
    <2>14. \A j \in 1..Half' : Stream'[next[Waiting' + 1] + j] = Unit(sending'[holder'], j)
        BY <2>12
    <2>15. Starts(next)'
        BY <2>9, <2>10, <2>11, <2>13, <2>14 DEF Starts
    <2> QED BY <2>8, <2>15 DEF StreamInv
<1> QED BY <1>6, <1>7, <1>8, <1>9, <1>10 DEF IInv

\* Sending.
LEMMA SendKeeps ==
    ASSUME IInv, NEW s \in Senders, Send(s)
    PROVE  IInv'
<1> PICK n \in 1..Room :
        /\ SendSome(s, n)
        /\ \/ SendLast(s, n)
           \/ /\ bytesSent[s] + n < sending[s].size
              /\ bytesSent' = [bytesSent EXCEPT ![s] = @ + n]
              /\ UNCHANGED <<sending, holder, put>>
    BY DEF Send
<1> QED BY SendLastKeeps, SendPartKeeps

-----------------------------------------------------------------------------
(* The steps of the recording thread.                                      *)

\* The counter of the calls of recv is an unsigned int.
LEMMA CountedType ==
    ASSUME attempts \in 0..(Wrap - 1)
    PROVE  Counted \in 0..(Wrap - 1) /\ 0 \in 0..(Wrap - 1)
BY CounterHoldsLimit, LimitsArePositive DEF Counted

\* Units that recv takes from the socket come next in the buffer.
LEMMA RecvTakes ==
    ASSUME IInv, NEW n \in 0..Len(wire)
    PROVE  /\ SubSeq(wire, n + 1, Len(wire)) \in Seq(Units)
           /\ Len(SubSeq(wire, n + 1, Len(wire))) = Len(wire) - n
           /\ Len(SubSeq(wire, n + 1, Len(wire))) <= Room
           /\ \A i \in 1..(Len(wire) - n) : SubSeq(wire, n + 1, Len(wire))[i] = wire[n + i]
           /\ buffer \o SubSeq(wire, 1, n) \in Seq(Units)
           /\ Len(buffer \o SubSeq(wire, 1, n)) = Len(buffer) + n
           /\ \A i \in 1..(Len(buffer) + n) : (buffer \o SubSeq(wire, 1, n))[i] = Stream[i]
           /\ (buffer \o SubSeq(wire, 1, n)) \o SubSeq(wire, n + 1, Len(wire)) = Stream
           /\ n \in Nat /\ Len(wire) \in Nat /\ Len(buffer) \in Nat
           /\ n <= Len(wire) /\ Len(wire) <= Room
<1>1. wire \in Seq(Units) /\ buffer \in Seq(Units) /\ Len(wire) <= Room
    BY DEF IInv, TypeOK
<1>2. Len(wire) \in Nat /\ Len(buffer) \in Nat /\ n \in Nat /\ n <= Len(wire)
    BY <1>1, LenProperties
<1>3. /\ SubSeq(wire, n + 1, Len(wire)) \in Seq(Units)
      /\ Len(SubSeq(wire, n + 1, Len(wire))) = Len(wire) - n
      /\ \A i \in 1..(Len(wire) - n) : SubSeq(wire, n + 1, Len(wire))[i] = wire[n + i]
    BY <1>1, Cut
<1>4. Len(wire) - n <= Room
    BY <1>1, <1>2, LimitsArePositive
<1>5. /\ buffer \o SubSeq(wire, 1, n) \in Seq(Units)
      /\ Len(buffer \o SubSeq(wire, 1, n)) = Len(buffer) + n
      /\ \A i \in 1..(Len(buffer) + n) :
            (buffer \o SubSeq(wire, 1, n))[i] = (buffer \o wire)[i]
      /\ (buffer \o SubSeq(wire, 1, n)) \o SubSeq(wire, n + 1, Len(wire)) = buffer \o wire
    BY <1>1, Moved, Zenon
<1>6. /\ Len(SubSeq(wire, n + 1, Len(wire))) <= Room
      /\ n \in Nat /\ Len(wire) \in Nat /\ Len(buffer) \in Nat
      /\ n <= Len(wire) /\ Len(wire) <= Room
    BY <1>1, <1>2, <1>3, <1>4
<1>7. /\ \A i \in 1..(Len(buffer) + n) : (buffer \o SubSeq(wire, 1, n))[i] = Stream[i]
      /\ (buffer \o SubSeq(wire, 1, n)) \o SubSeq(wire, n + 1, Len(wire)) = Stream
    BY <1>5 DEF Stream
<1> QED BY <1>3, <1>5, <1>6, <1>7

\* Part of what is wanted.
LEMMA RecvDataKeeps ==
    ASSUME IInv, RecvData
    PROVE  IInv'
<1>1. PICK n \in 1..(Wanted - totalDataRead) :
        /\ n <= Len(wire)
        /\ wire' = SubSeq(wire, n + 1, Len(wire))
        /\ buffer' = buffer \o SubSeq(wire, 1, n)
        /\ totalDataRead' = totalDataRead + n
    BY DEF RecvData
<1>2. /\ phase # "end" /\ totalDataRead' < Wanted /\ attempts' = Counted
      /\ UNCHANGED <<sendVars, phase, got>>
    BY DEF RecvData
<1>3. UNCHANGED <<sending, holder, bytesSent, written, put, up>>
    BY <1>2 DEF sendVars
<1>4. Len(wire) \in Nat
    BY StreamType DEF IInv
<1>5. n \in 0..Len(wire) /\ n > 0
    BY <1>1, <1>4
<1>6. /\ wire' \in Seq(Units) /\ Len(wire') <= Room
      /\ buffer' \in Seq(Units) /\ Len(buffer') = Len(buffer) + n
      /\ \A i \in 1..(Len(buffer) + n) : buffer'[i] = Stream[i]
      /\ buffer' \o wire' = Stream
      /\ n \in Nat /\ Len(buffer) \in Nat
    BY <1>1, <1>5, RecvTakes
<1>7. TypeOK'
    <2>1. totalDataRead' \in Nat /\ attempts' \in 0..(Wrap - 1)
        <3>1. totalDataRead \in Nat /\ attempts \in 0..(Wrap - 1)
            BY DEF IInv, TypeOK
        <3>2. totalDataRead' = totalDataRead + n /\ attempts' = Counted /\ n \in Nat
            BY <1>1, <1>2, <1>6
        <3>3. Counted \in 0..(Wrap - 1)
            BY <3>1, CountedType
        <3> QED BY <3>1, <3>2, <3>3
    <2>2. wire' \in Seq(Units) /\ Len(wire') <= Room /\ buffer' \in Seq(Units)
        BY <1>6
    <2> QED BY <1>2, <1>3, <2>1, <2>2 DEF IInv, TypeOK
<1>8. SendInv' /\ OrderInv'
    BY <1>2, <1>3 DEF IInv, SendInv, OrderInv
<1>9. RecvInv'
    <2>1. CASE phase = "size"
        <3>1. Len(buffer) = totalDataRead /\ Wanted = SizeUnits
            BY <2>1 DEF IInv, RecvInv, Wanted
        <3> QED BY <2>1, <3>1, <1>1, <1>2, <1>6 DEF RecvInv
    <2>2. CASE phase = "rest"
        <3>1. Len(buffer) = SizeUnits + totalDataRead /\ Wanted = buffer[1].packet.size - SizeUnits
            BY <2>2 DEF IInv, RecvInv, Wanted
        <3>2. totalDataRead \in Nat /\ SizeUnits \in Nat \ {0}
            BY PacketsHaveHeaders DEF IInv, TypeOK
        <3>3. 1 \in 1..Len(buffer) /\ 1 \in 1..(Len(buffer) + n)
            BY <3>1, <3>2, <1>6
        <3>4. buffer'[1] = buffer[1]
            BY <3>3, <1>6, StreamType DEF IInv
        <3>5. Len(buffer') = SizeUnits + totalDataRead'
            BY <3>1, <3>2, <1>1, <1>6
        <3> QED BY <2>2, <3>1, <3>4, <3>5, <1>2 DEF RecvInv
    <2> QED BY <1>2, <2>1, <2>2 DEF IInv, TypeOK
<1>10. StreamInv'
    <2>1. Stream' = Stream /\ Half' = Half /\ Half \in Nat /\ sending'[holder'] = sending[holder]
        BY <1>3, <1>6, HalfType DEF IInv, Stream, Half
    <2> QED BY <1>2, <1>3, <2>1, StreamStays DEF IInv
<1> QED BY <1>7, <1>8, <1>9, <1>10 DEF IInv

\* The last of the size of a packet.
LEMMA RecvSizeKeeps ==
    ASSUME IInv, RecvLast, phase = "size"
    PROVE  IInv'
<1> DEFINE n == Wanted - totalDataRead
<1>1. /\ n <= Len(wire)
      /\ wire' = SubSeq(wire, n + 1, Len(wire))
      /\ phase' = "rest" /\ buffer' = buffer \o SubSeq(wire, 1, n)
      /\ totalDataRead' = 0 /\ attempts' = 0
      /\ UNCHANGED got /\ UNCHANGED sendVars
    BY DEF RecvLast
<1>2. UNCHANGED <<sending, holder, bytesSent, written, put, up>>
    BY <1>1 DEF sendVars
<1>3. /\ Wanted = SizeUnits /\ Len(buffer) = totalDataRead /\ totalDataRead < SizeUnits
      /\ SizeUnits \in Nat \ {0} /\ totalDataRead \in Nat
    BY PacketsHaveHeaders DEF IInv, TypeOK, RecvInv, Wanted
<1>4. Len(wire) \in Nat
    BY StreamType DEF IInv
<1>5. n \in 0..Len(wire) /\ Len(buffer) + n = SizeUnits
    BY <1>1, <1>3, <1>4
<1> HIDE DEF n
<1>6. /\ wire' \in Seq(Units) /\ Len(wire') <= Room
      /\ buffer' \in Seq(Units) /\ Len(buffer') = SizeUnits
      /\ \A i \in 1..SizeUnits : buffer'[i] = Stream[i]
      /\ buffer' \o wire' = Stream
    BY <1>1, <1>5, RecvTakes
<1>7. TypeOK'
    BY <1>1, <1>2, <1>6, CountedType DEF IInv, TypeOK
<1>8. SendInv' /\ OrderInv'
    BY <1>1, <1>2 DEF IInv, SendInv, OrderInv
<1>9. RecvInv'
    <2>1. Len(Stream) >= SizeUnits /\ Len(Stream) > 0
        BY <1>1, <1>3, <1>4, <1>5, StreamType DEF IInv
    <2>2. Stream[1].packet \in Packets
        BY <2>1, BufferPacket DEF IInv
    <2>3. buffer'[1].packet \in Packets
        BY <2>2, <1>3, <1>6
    <2>4. buffer'[1].packet.size \in Nat /\ buffer'[1].packet.size > SizeUnits
        BY <2>3, PacketType
    <2>5. Len(buffer') = SizeUnits + totalDataRead'
        BY <1>1, <1>3, <1>6
    <2>6. totalDataRead' < buffer'[1].packet.size - SizeUnits
        <3> DEFINE size == buffer'[1].packet.size
        <3>1. size \in Nat /\ size > SizeUnits
            BY <2>4
        <3> HIDE DEF size
        <3>2. 0 < size - SizeUnits /\ totalDataRead' = 0
            BY <3>1, <1>1, <1>3
        <3> QED BY <3>2 DEF size
    <2> QED BY <1>1, <2>5, <2>6 DEF RecvInv
<1>10. StreamInv'
    <2>1. Stream' = Stream /\ Half' = Half /\ Half \in Nat /\ sending'[holder'] = sending[holder]
        BY <1>2, <1>6, HalfType DEF IInv, Stream, Half
    <2> QED BY <1>1, <1>2, <2>1, StreamStays DEF IInv
<1> QED BY <1>7, <1>8, <1>9, <1>10 DEF IInv

\* Places in the stream when a packet has been taken from its front.
LEMMA Shifted ==
    ASSUME NEW size \in Nat, NEW len \in Nat, NEW at \in 0..len, size <= at
    PROVE  at - size \in 0..(len - size)
OBVIOUS

\* With its last unit a packet is read, and it is the one that waits first.
LEMMA RecvGetsFirst ==
    ASSUME IInv, RecvLast, phase = "rest"
    PROVE  LET p == put[Len(got) + 1]
           IN  /\ Waiting > 0 /\ p \in Packets
               /\ got' = Append(got, p) /\ phase' = "size" /\ buffer' = <<>>
               /\ totalDataRead' = 0 /\ attempts' = 0
               /\ UNCHANGED <<sending, holder, bytesSent, written, put, up>>
               /\ wire' \in Seq(Units) /\ Len(wire') <= Room
               /\ Len(wire') = Len(Stream) - p.size
               /\ \A i \in 1..Len(wire') : wire'[i] = Stream[p.size + i]
<1> DEFINE q == buffer[1].packet
           n == Wanted - totalDataRead
           units == buffer \o SubSeq(wire, 1, n)
<1>1. /\ n <= Len(wire)
      /\ wire' = SubSeq(wire, n + 1, Len(wire))
      /\ phase' = "size" /\ buffer' = <<>>
      /\ got' = Append(got, Read(units))
      /\ totalDataRead' = 0 /\ attempts' = 0
      /\ UNCHANGED <<sending, holder, bytesSent, written, put, up>>
    BY DEF RecvLast, sendVars
<1>2. /\ Wanted = q.size - SizeUnits /\ Len(buffer) = SizeUnits + totalDataRead
      /\ totalDataRead < q.size - SizeUnits
      /\ SizeUnits \in Nat \ {0} /\ totalDataRead \in Nat
    BY PacketsHaveHeaders DEF IInv, TypeOK, RecvInv, Wanted
<1>3. /\ Len(wire) \in Nat /\ Len(Stream) = Len(buffer) + Len(wire)
      /\ \A i \in 1..Len(buffer) : Stream[i] = buffer[i]
    BY StreamType DEF IInv
<1>4. 1 \in 1..Len(buffer) /\ Len(Stream) > 0
    BY <1>2, <1>3
<1>5. q = Stream[1].packet
    BY <1>3, <1>4
<1>6. /\ q \in Packets
      /\ Len(Stream) >= q.size =>
            /\ Waiting > 0 /\ q = put[Len(got) + 1]
            /\ \A j \in 1..q.size : Stream[j] = Unit(q, j)
    BY <1>4, <1>5, BufferPacket DEF IInv
<1>7. q.size \in Nat /\ q.size > 0
    BY <1>6, PacketType
<1> HIDE DEF q
<1>8. n \in 0..Len(wire) /\ Len(buffer) + n = q.size
    <2>1. n = q.size - SizeUnits - totalDataRead /\ n <= Len(wire)
        BY <1>1, <1>2
    <2> HIDE DEF n
    <2>2. Len(wire) \in Nat
        BY <1>3
    <2> QED BY <2>1, <2>2, <1>2, <1>7
<1> HIDE DEF n
<1>9. Len(Stream) >= q.size
    BY <1>3, <1>7, <1>8
<1>10. /\ wire' \in Seq(Units) /\ Len(wire') = Len(wire) - n /\ Len(wire') <= Room
       /\ \A i \in 1..(Len(wire) - n) : wire'[i] = wire[n + i]
       /\ units \in Seq(Units) /\ Len(units) = Len(buffer) + n
       /\ \A i \in 1..(Len(buffer) + n) : units[i] = Stream[i]
    BY <1>1, <1>8, RecvTakes
<1> HIDE DEF units
<1>11. units \in Seq(Units) /\ Len(units) = q.size /\ \A i \in 1..q.size : units[i] = Unit(q, i)
    BY <1>6, <1>8, <1>9, <1>10
<1>12. Read(units) = q
    <2>1. units[1].packet = q
        <3>1. units[1] = Unit(q, 1)
            BY <1>7, <1>11
        <3> QED BY <3>1 DEF Unit
    <2>2. units = [k \in 1..q.size |-> Unit(q, k)]
        BY <1>7, <1>11
    <2> QED BY <2>1, <2>2 DEF Read
<1>13. Len(wire') = Len(Stream) - q.size
    BY <1>2, <1>3, <1>7, <1>8, <1>10
<1>14. ASSUME NEW i \in 1..Len(wire')
       PROVE  wire'[i] = Stream[q.size + i]
    <2>1. wire \in Seq(Units) /\ buffer \in Seq(Units)
        BY DEF IInv, TypeOK
    <2>2. \A j \in 1..(Len(buffer) + Len(wire)) :
            Stream[j] = IF j <= Len(buffer) THEN buffer[j] ELSE wire[j - Len(buffer)]
        BY <2>1, ConcatProperties DEF Stream
    <2>3. Len(buffer) \in Nat /\ n \in Nat /\ i \in 1..(Len(wire) - n)
        BY <1>2, <1>8, <1>10
    <2>4. /\ q.size + i \in 1..(Len(buffer) + Len(wire)) /\ ~(q.size + i <= Len(buffer))
          /\ q.size + i - Len(buffer) = n + i
        BY <2>3, <1>3, <1>7, <1>8
    <2>5. Stream[q.size + i] = wire[n + i]
        <3> PICK j : j = q.size + i
            OBVIOUS
        <3>1. j \in 1..(Len(buffer) + Len(wire)) /\ ~(j <= Len(buffer))
            BY <2>4
        <3>2. j - Len(buffer) = n + i
            BY <2>3, <1>7, <1>8
        <3>3. Stream[j] = wire[j - Len(buffer)]
            BY <2>2, <3>1
        <3> QED BY <3>2, <3>3
    <2>6. wire'[i] = wire[n + i]
        BY <2>3, <1>10
    <2> QED BY <2>5, <2>6
<1> QED BY <1>1, <1>6, <1>9, <1>10, <1>12, <1>13, <1>14

\* Then the others follow it in the stream.
LEMMA RecvRestKeeps ==
    ASSUME IInv, RecvLast, phase = "rest"
    PROVE  IInv'
<1> DEFINE p == put[Len(got) + 1]
<1>1. /\ Waiting > 0 /\ p \in Packets
      /\ got' = Append(got, p) /\ phase' = "size" /\ buffer' = <<>>
      /\ totalDataRead' = 0 /\ attempts' = 0
      /\ UNCHANGED <<sending, holder, bytesSent, written, put, up>>
      /\ wire' \in Seq(Units) /\ Len(wire') <= Room
      /\ Len(wire') = Len(Stream) - p.size
      /\ \A i \in 1..Len(wire') : wire'[i] = Stream[p.size + i]
    BY RecvGetsFirst
<1>2. p.size \in Nat /\ p.size > SizeUnits /\ SizeUnits \in Nat \ {0} /\ p = put[Len(got) + 1]
    BY <1>1, PacketType
<1> HIDE DEF p
<1>3. /\ got' \in Seq(Packets) /\ Len(got') = Len(got) + 1 /\ got'[Len(got) + 1] = p
      /\ \A i \in 1..Len(got) : got'[i] = got[i]
    BY <1>1, AppendProperties DEF IInv, TypeOK
<1>4. /\ Len(got) \in Nat /\ Len(put) \in Nat /\ Len(put) = Len(got) + Waiting
      /\ Waiting \in Nat /\ Len(Stream) \in Nat
    BY StreamType DEF IInv
<1>5. TypeOK'
    BY <1>1, <1>3, CountedType, EmptySeq DEF IInv, TypeOK
<1>6. SendInv'
    BY <1>1 DEF IInv, SendInv
<1>7. RecvInv'
    <2>1. Len(buffer') = 0
        BY <1>1, EmptySeq
    <2> QED BY <2>1, <1>1, <1>2 DEF RecvInv
<1>8. OrderInv'
    <2>1. Len(got') <= Len(put)
        BY <1>1, <1>3, <1>4
    <2>2. ASSUME NEW i \in 1..Len(got') PROVE got'[i] = put[i]
        <3>1. CASE i = Len(got) + 1
            BY <3>1, <1>2, <1>3
        <3>2. CASE i # Len(got) + 1
            <4>1. i \in 1..Len(got)
                BY <3>2, <1>3, <1>4
            <4> QED BY <4>1, <1>3 DEF IInv, OrderInv
        <3> QED BY <3>1, <3>2
    <2> QED BY <2>1, <2>2, <1>1 DEF OrderInv
<1>9. StreamInv'
    <2> PICK start \in [1..(Waiting + 1) -> 0..Len(Stream)] : Starts(start)
        BY DEF StreamInv, IInv
    <2> PICK next : next = [k \in 1..Waiting |-> start[k + 1] - p.size]
        OBVIOUS
    <2>1. Waiting' = Waiting - 1 /\ Waiting' + 1 = Waiting /\ Waiting' \in Nat
        BY <1>1, <1>3, <1>4 DEF Waiting
    <2>2. Stream' = wire' /\ Len(Stream') = Len(Stream) - p.size
        BY <1>1, ConcatEmptySeq DEF Stream
    <2>3. Half' = Half /\ Half \in Nat
        BY <1>1, HalfType DEF IInv, Half
    <2>4. /\ start[1] = 0 /\ Len(Stream) = start[Waiting + 1] + Half
          /\ \A i, k \in 1..(Waiting + 1) : i <= k => start[i] <= start[k]
          /\ \A k \in 1..(Waiting + 1) : start[k] \in 0..Len(Stream)
          /\ \A j \in 1..Half : Stream[start[Waiting + 1] + j] = Unit(sending[holder], j)
        BY DEF Starts
    <2>5. start[2] = p.size
        <3>1. 1 \in 1..Waiting
            BY <1>1, <1>4
        <3>2. start[1 + 1] = start[1] + put[Len(got) + 1].size
            BY <3>1 DEF Starts
        <3> QED BY <3>2, <2>4, <1>2
    <2>6. \A k \in 1..Waiting : next[k] = start[k + 1] - p.size
        OBVIOUS
    <2>7. \A k \in 1..Waiting : k + 1 \in 1..(Waiting + 1) /\ 2 <= k + 1
        BY <1>4
    <2>8. 2 \in 1..(Waiting + 1)
        BY <1>1, <1>4
    <2>9. \A k \in 1..Waiting : p.size <= start[k + 1] /\ start[k + 1] \in 0..Len(Stream)
        BY <2>4, <2>5, <2>7, <2>8
    <2>10. \A k \in 1..Waiting : next[k] \in 0..Len(Stream')
        <3> SUFFICES ASSUME NEW k \in 1..Waiting
                     PROVE  next[k] \in 0..Len(Stream')
            OBVIOUS
        <3>1. next[k] = start[k + 1] - p.size /\ p.size <= start[k + 1]
              /\ start[k + 1] \in 0..Len(Stream)
            BY <2>6, <2>9
        <3>2. Len(Stream') = Len(Stream) - p.size
            BY <2>2
        <3>3. start[k + 1] - p.size \in 0..(Len(Stream) - p.size)
            BY <3>1, <1>2, <1>4, Shifted
        <3> QED BY <3>1, <3>2, <3>3
    <2>11. next \in [1..(Waiting' + 1) -> 0..Len(Stream')]
        BY <2>1, <2>6, <2>10
    <2>12. next[1] = 0
        <3>1. 1 \in 1..Waiting /\ 1 + 1 = 2
            BY <1>1, <1>4
        <3>2. next[1] = start[1 + 1] - p.size
            BY <3>1, <2>6
        <3> QED BY <3>1, <3>2, <2>5, <1>2
    <2>13. ASSUME NEW i \in 1..(Waiting' + 1), NEW k \in 1..(Waiting' + 1), i <= k
           PROVE  next[i] <= next[k]
        <3>1. i \in 1..Waiting /\ k \in 1..Waiting
            BY <2>1
        <3>2. i + 1 \in 1..(Waiting + 1) /\ k + 1 \in 1..(Waiting + 1) /\ i + 1 <= k + 1
            BY <3>1, <2>13, <1>4
        <3>3. start[i + 1] <= start[k + 1] /\ start[i + 1] \in Nat /\ start[k + 1] \in Nat
            BY <3>2, <2>4
        <3> QED BY <3>1, <3>3, <2>6, <1>2
    <2>14. ASSUME NEW k \in 1..Waiting'
           PROVE  /\ next[k + 1] = next[k] + put[Len(got') + k].size
                  /\ \A j \in 1..put[Len(got') + k].size :
                        Stream'[next[k] + j] = Unit(put[Len(got') + k], j)
        <3> DEFINE r == put[Len(got') + k]
        <3>1. /\ k \in 1..Waiting /\ k + 1 \in 1..Waiting
              /\ Len(got') + k = Len(got) + (k + 1)
            BY <2>1, <1>3, <1>4
        <3>2. r = put[Len(got) + (k + 1)]
            BY <3>1
        <3>3. r \in Packets /\ r.size \in Nat
            BY <3>1, <3>2, StreamType, PacketType DEF IInv
        <3>4. /\ start[k + 1 + 1] = start[k + 1] + r.size
              /\ \A j \in 1..r.size : Stream[start[k + 1] + j] = Unit(r, j)
            BY <3>1, <3>2 DEF Starts
        <3> HIDE DEF r
        <3>5. /\ start[k + 1] \in 0..Len(Stream) /\ start[k + 1 + 1] \in 0..Len(Stream)
              /\ p.size <= start[k + 1]
            BY <3>1, <2>9
        <3>6. next[k] = start[k + 1] - p.size /\ next[k + 1] = start[k + 1 + 1] - p.size
            BY <3>1, <2>6
        <3>7. next[k + 1] = next[k] + r.size
            <4>1. /\ start[k + 1 + 1] = start[k + 1] + r.size
                  /\ p.size \in Nat /\ start[k + 1] \in Nat /\ r.size \in Nat
                BY <3>3, <3>4, <3>5, <1>2
            <4>2. (start[k + 1] + r.size) - p.size = (start[k + 1] - p.size) + r.size
                BY ONLY <4>1
            <4> QED BY <4>1, <4>2, <3>6
        <3>8. ASSUME NEW j \in 1..r.size
              PROVE  Stream'[next[k] + j] = Unit(r, j)
            <4>1. start[k + 1 + 1] = start[k + 1] + r.size
                BY <3>4
            <4>2. next[k] + j \in 1..Len(wire') /\ p.size + (next[k] + j) = start[k + 1] + j
                <5>1. Len(wire') = Len(Stream) - p.size /\ next[k] = start[k + 1] - p.size
                    BY <3>6, <1>1
                <5>2. p.size \in Nat /\ r.size \in Nat /\ Len(Stream) \in Nat
                    BY <3>3, <1>2, <1>4
                <5>3. /\ (start[k + 1] - p.size) + j \in 1..(Len(Stream) - p.size)
                      /\ p.size + ((start[k + 1] - p.size) + j) = start[k + 1] + j
                    <6>a. PICK at : at = start[k + 1]
                        OBVIOUS
                    <6>1. /\ at \in 0..Len(Stream) /\ p.size <= at
                          /\ at + r.size \in 0..Len(Stream)
                        BY <6>a, <4>1, <3>5
                    <6>2. /\ (at - p.size) + j \in 1..(Len(Stream) - p.size)
                          /\ p.size + ((at - p.size) + j) = at + j
                        BY ONLY <5>2, <6>1, j \in 1..r.size
                    <6> QED BY <6>a, <6>2
                <5> QED BY <5>1, <5>3
            <4>3. wire'[next[k] + j] = Stream[start[k + 1] + j]
                BY <4>2, <1>1
            <4> QED BY <4>3, <3>4, <2>2
        <3> QED BY <3>7, <3>8 DEF r
    <2>15. next[Waiting' + 1] = start[Waiting + 1] - p.size
        <3>1. Waiting \in 1..Waiting
            BY <1>1, <1>4
        <3> QED BY <3>1, <2>1, <2>6
    <2>16. start[Waiting + 1] \in Nat /\ p.size <= start[Waiting + 1]
        <3>1. Waiting \in 1..Waiting
            BY <1>1, <1>4
        <3> QED BY <3>1, <2>9
    <2>17. Len(Stream') = next[Waiting' + 1] + Half'
        <3>1. Len(Stream) = start[Waiting + 1] + Half
            BY <2>4
        <3> QED BY <3>1, <2>2, <2>3, <2>15, <2>16, <1>2
    <2>18. ASSUME NEW j \in 1..Half'
           PROVE  Stream'[next[Waiting' + 1] + j] = Unit(sending'[holder'], j)
        <3>1. j \in 1..Half
            BY <2>3
        <3>2. Stream[start[Waiting + 1] + j] = Unit(sending[holder], j)
            BY <3>1, <2>4
        <3>3. /\ next[Waiting' + 1] + j \in 1..Len(wire')
              /\ p.size + (next[Waiting' + 1] + j) = start[Waiting + 1] + j
            <4>1. Len(wire') = next[Waiting' + 1] + Half
                BY <2>2, <2>3, <2>17
            <4>2. p.size \in Nat /\ Half \in Nat
                BY <2>3, <1>2
            <4>3. /\ next[Waiting' + 1] = start[Waiting + 1] - p.size
                  /\ start[Waiting + 1] \in Nat /\ p.size <= start[Waiting + 1]
                BY <2>15, <2>16
            <4>4. /\ (start[Waiting + 1] - p.size) + j
                        \in 1..((start[Waiting + 1] - p.size) + Half)
                  /\ p.size + ((start[Waiting + 1] - p.size) + j) = start[Waiting + 1] + j
                BY ONLY <3>1, <4>2, <4>3
            <4> QED BY <4>1, <4>3, <4>4
        <3>4. wire'[next[Waiting' + 1] + j] = Stream[start[Waiting + 1] + j]
            BY <3>3, <1>1
        <3> QED BY <3>2, <3>4, <2>2, <1>1
    <2>19. put' = put
        BY <1>1
    <2>20. Starts(next)'
        BY <2>12, <2>13, <2>14, <2>17, <2>18, <2>19 DEF Starts
    <2> QED BY <2>11, <2>20 DEF StreamInv
<1> QED BY <1>5, <1>6, <1>7, <1>8, <1>9 DEF IInv

\* Nothing to read.
LEMMA RecvAgainKeeps ==
    ASSUME IInv, RecvAgain
    PROVE  IInv'
<1>1. /\ attempts' = IF totalDataRead = 0 THEN 0 ELSE Counted
      /\ UNCHANGED <<sending, holder, bytesSent, written, put, up>>
      /\ UNCHANGED <<wire, phase, buffer, totalDataRead, got>>
    BY DEF RecvAgain, sendVars
<1>2. TypeOK'
    BY <1>1, CountedType DEF IInv, TypeOK
<1>3. SendInv' /\ RecvInv' /\ OrderInv'
    BY <1>1 DEF IInv, SendInv, RecvInv, OrderInv
<1>4. StreamInv'
    <2>1. Stream' = Stream /\ Half' = Half /\ Half \in Nat /\ sending'[holder'] = sending[holder]
        BY <1>1, HalfType DEF IInv, Stream, Half
    <2> QED BY <1>1, <2>1, StreamStays DEF IInv
<1> QED BY <1>2, <1>3, <1>4 DEF IInv

\* When the socket is empty and the process gone, what is left in the buffer is less than
\* a packet, so that every packet that was sent to its end has been read.
LEMMA AllRead ==
    ASSUME IInv, phase # "end", wire = <<>>
    PROVE  got = put
<1>1. /\ Len(wire) = 0 /\ Len(Stream) = Len(buffer) /\ Len(Stream) \in Nat
      /\ \A i \in 1..Len(buffer) : Stream[i] = buffer[i]
      /\ Waiting \in Nat /\ Len(put) = Len(got) + Waiting /\ Len(got) \in Nat
    BY StreamType, EmptySeq DEF IInv
<1>2. /\ SizeUnits \in Nat \ {0} /\ totalDataRead \in Nat /\ phase \in {"size", "rest"}
      /\ put \in Seq(Packets) /\ got \in Seq(Packets)
    BY PacketsHaveHeaders DEF IInv, TypeOK
<1>3. Waiting = 0
    <2> SUFFICES ASSUME Waiting > 0 PROVE FALSE
        BY <1>1
    <2> DEFINE p == put[Len(got) + 1]
    <2>1. /\ p \in Packets /\ Len(Stream) >= p.size
          /\ \A j \in 1..p.size : Stream[j] = Unit(p, j)
        BY FirstPacket DEF IInv
    <2>2. p.size \in Nat /\ p.size > SizeUnits
        BY <2>1, PacketType
    <2> HIDE DEF p
    <2>3. CASE phase = "size"
        <3>1. Len(buffer) < SizeUnits
            BY <2>3 DEF IInv, RecvInv
        <3> QED BY <3>1, <2>1, <2>2, <1>1, <1>2
    <2>4. CASE phase = "rest"
        <3>1. 1 \in 1..p.size
            BY <2>2, <1>2
        <3>2. Stream[1] = Unit(p, 1)
            BY <3>1, <2>1
        <3>3. /\ Len(buffer) = SizeUnits + totalDataRead
              /\ totalDataRead < buffer[1].packet.size - SizeUnits
            BY <2>4 DEF IInv, RecvInv
        <3>4. 1 \in 1..Len(buffer)
            BY <3>3, <1>2
        <3>5. buffer[1].packet = p
            BY <3>2, <3>4, <1>1 DEF Unit
        <3>6. Len(buffer) = SizeUnits + totalDataRead /\ totalDataRead < p.size - SizeUnits
            BY <3>3, <3>5
        <3>7. Len(buffer) >= p.size
            BY <1>1, <2>1
        <3> QED BY <3>6, <3>7, <2>2, <1>2
    <2> QED BY <1>2, <2>3, <2>4
<1>4. Len(got) = Len(put)
    BY <1>1, <1>3
<1>5. \A i \in 1..Len(got) : got[i] = put[i]
    BY DEF IInv, OrderInv
<1> QED BY <1>2, <1>4, <1>5, SeqEqual

\* The connection is given up only then.
LEMMA RecvClosedKeeps ==
    ASSUME IInv, RecvClosed
    PROVE  IInv'
<1>1. /\ attempts' = Counted /\ phase' \in {"end", phase} /\ phase # "end" /\ wire = <<>> /\ ~up
      /\ UNCHANGED <<sending, holder, bytesSent, written, put, up>>
      /\ UNCHANGED <<wire, buffer, totalDataRead, got>>
    BY DEF RecvClosed, sendVars
<1>2. TypeOK'
    BY <1>1, CountedType DEF IInv, TypeOK
<1>3. SendInv' /\ OrderInv'
    BY <1>1 DEF IInv, SendInv, OrderInv
<1>4. RecvInv'
    BY <1>1, AllRead DEF IInv, RecvInv
<1>5. StreamInv'
    <2>1. Stream' = Stream /\ Half' = Half /\ Half \in Nat /\ sending'[holder'] = sending[holder]
        BY <1>1, HalfType DEF IInv, Stream, Half
    <2> QED BY <1>1, <2>1, StreamStays DEF IInv
<1> QED BY <1>2, <1>3, <1>4, <1>5 DEF IInv

-----------------------------------------------------------------------------
(* The theorems.                                                           *)

\* At the start nothing is sent, in the socket, or read.
LEMMA InitKeeps ==
    ASSUME Init
    PROVE  IInv
<1>1. /\ sending = [s \in Senders |-> NoPacket] /\ holder = NoSender
      /\ bytesSent = [s \in Senders |-> 0] /\ written = [s \in Senders |-> 0]
      /\ put = <<>> /\ wire = <<>> /\ up = TRUE /\ phase = "size" /\ buffer = <<>>
      /\ totalDataRead = 0 /\ attempts = 0 /\ got = <<>>
    BY DEF Init
<1>2. /\ put \in Seq(Packets) /\ got \in Seq(Packets)
      /\ wire \in Seq(Units) /\ buffer \in Seq(Units)
      /\ Len(wire) = 0 /\ Len(buffer) = 0 /\ Len(put) = 0 /\ Len(got) = 0
    BY <1>1, EmptySeq
<1>3. TypeOK
    BY <1>1, <1>2, LimitsArePositive, CounterHoldsLimit DEF TypeOK
<1>4. SendInv /\ OrderInv
    BY <1>1, <1>2 DEF SendInv, OrderInv
<1>5. RecvInv
    BY <1>1, <1>2, PacketsHaveHeaders DEF RecvInv
<1>6. StreamInv
    <2>1. Waiting = 0 /\ Half = 0
        BY <1>1, <1>2 DEF Waiting, Half
    <2>2. Len(Stream) = 0
        BY <1>2, <1>3, <1>4, StreamType
    <2> PICK start : start = [k \in 1..1 |-> 0]
        OBVIOUS
    <2>3. start[1] = 0 /\ start \in [1..(Waiting + 1) -> 0..Len(Stream)]
        BY <2>1, <2>2
    <2>4. Starts(start)
        BY <2>1, <2>2, <2>3 DEF Starts
    <2> QED BY <2>3, <2>4 DEF StreamInv
<1> QED BY <1>3, <1>4, <1>5, <1>6 DEF IInv

\* The inductive invariant holds in every state of every behaviour: the stream is always
\* the packets that were sent and are not yet read, in order, and the part of one more
\* (vktrace_MessageStream_ReallySend and vktrace_MessageStream_Recv).
THEOREM Invariance == Spec => []IInv
<1>1. Init => IInv
    BY InitKeeps
<1>2. IInv /\ [Next]_vars => IInv'
    <2> SUFFICES ASSUME IInv, [Next]_vars PROVE IInv'
        OBVIOUS
    <2>1. ASSUME NEW s \in Senders, Write(s) PROVE IInv'
        BY <2>1, WriteKeeps
    <2>2. ASSUME NEW s \in Senders, SenderStep(s) PROVE IInv'
        BY <2>2, TakeLockKeeps, SendKeeps DEF SenderStep
    <2>3. CASE Exit
        BY <2>3, ExitKeeps
    <2>4. CASE RecvData
        BY <2>4, RecvDataKeeps
    <2>5. CASE RecvLast
        <3>1. phase = "size" \/ phase = "rest"
            BY <2>5 DEF RecvLast, IInv, TypeOK
        <3> QED BY <2>5, <3>1, RecvSizeKeeps, RecvRestKeeps
    <2>6. CASE RecvAgain
        BY <2>6, RecvAgainKeeps
    <2>7. CASE RecvClosed
        BY <2>7, RecvClosedKeeps
    <2>8. CASE UNCHANGED vars
        <3>1. /\ UNCHANGED <<sending, holder, bytesSent, written, put, up>>
              /\ UNCHANGED <<wire, phase, buffer, totalDataRead, attempts, got>>
            BY <2>8 DEF vars, sendVars, recvVars
        <3>2. TypeOK' /\ SendInv' /\ RecvInv' /\ OrderInv'
            BY <3>1 DEF IInv, TypeOK, SendInv, RecvInv, OrderInv
        <3>3. StreamInv'
            <4>1. Stream' = Stream /\ Half' = Half /\ Half \in Nat /\ sending'[holder'] = sending[holder]
                BY <3>1, HalfType DEF IInv, Stream, Half
            <4> QED BY <3>1, <4>1, StreamStays DEF IInv
        <3> QED BY <3>2, <3>3 DEF IInv
    <2> QED BY <2>1, <2>2, <2>3, <2>4, <2>5, <2>6, <2>7, <2>8 DEF Next, RecvStep
<1> QED BY <1>1, <1>2, PTL DEF Spec

\* What is read is always a sequence of packets, never units of two, and nobody but the
\* holder of gSendLock has a packet half sent, for all threads, packets and sockets.
THEOREM TypeCorrect == Spec => []TypeOK
<1>1. IInv => TypeOK
    BY DEF IInv
<1> QED BY <1>1, Invariance, PTL

\* Every step is one of the queue, or none: packets enter it whole when the last unit is
\* sent, leave it whole and in order when the last unit is received, and the end is told
\* only when all have been received.
LEMMA StepsRefine ==
    ASSUME IInv, [Next]_vars
    PROVE  [Queue!Next]_(Queue!vars)
<1>1. ASSUME NEW s \in Senders, Write(s) PROVE UNCHANGED Queue!vars
    BY <1>1 DEF Write, recvVars, Queue!vars
<1>2. ASSUME NEW s \in Senders, TakeLock(s) PROVE UNCHANGED Queue!vars
    BY <1>2 DEF TakeLock, recvVars, Queue!vars
<1>3. ASSUME NEW s \in Senders, Send(s) PROVE Queue!Put \/ UNCHANGED Queue!vars
    <2> PICK n \in 1..Room :
            /\ SendSome(s, n)
            /\ \/ SendLast(s, n)
               \/ /\ bytesSent[s] + n < sending[s].size
                  /\ bytesSent' = [bytesSent EXCEPT ![s] = @ + n]
                  /\ UNCHANGED <<sending, holder, put>>
        BY <1>3 DEF Send
    <2>1. up /\ sending[s] \in Packets /\ UNCHANGED <<up, phase, got>>
        BY DEF SendSome, recvVars, IInv, TypeOK
    <2>2. CASE SendLast(s, n)
        BY <2>1, <2>2 DEF SendLast, Queue!Put
    <2>3. CASE UNCHANGED <<sending, holder, put>>
        BY <2>1, <2>3 DEF Queue!vars
    <2> QED BY <2>2, <2>3
<1>4. CASE Exit
    BY <1>4 DEF Exit, recvVars, Queue!Next, Queue!Close
<1>5. CASE RecvData \/ RecvAgain
    BY <1>5 DEF RecvData, RecvAgain, sendVars, Queue!vars
<1>6. CASE RecvLast
    <2>1. CASE phase = "size"
        BY <1>6, <2>1 DEF RecvLast, sendVars, Queue!vars
    <2>2. CASE phase = "rest"
        <3>1. /\ Waiting > 0 /\ got' = Append(got, put[Len(got) + 1])
              /\ phase' = "size" /\ put' = put /\ up' = up
            BY <1>6, <2>2, RecvGetsFirst
        <3>2. Len(got) < Len(put)
            BY <3>1, StreamType DEF IInv
        <3> QED BY <2>2, <3>1, <3>2 DEF Queue!Next, Queue!Get
    <2>3. phase = "size" \/ phase = "rest"
        BY <1>6 DEF RecvLast, IInv, TypeOK
    <2> QED BY <2>1, <2>2, <2>3
<1>7. CASE RecvClosed
    <2>1. /\ phase' \in {"end", phase} /\ phase # "end" /\ wire = <<>> /\ ~up
          /\ UNCHANGED <<put, up, got>>
        BY <1>7 DEF RecvClosed, sendVars
    <2>2. got = put
        BY <2>1, AllRead
    <2> QED BY <2>1, <2>2 DEF Queue!Next, Queue!End, Queue!vars
<1>8. CASE UNCHANGED vars
    BY <1>8 DEF vars, sendVars, recvVars, Queue!vars
<1> QED BY <1>1, <1>2, <1>3, <1>4, <1>5, <1>6, <1>7, <1>8
        DEF Next, SenderStep, RecvStep, Queue!Next

\* The connection implements the queue, for all threads, sizes and cuts: the safety part
\* of QueueKept (interconnect.c and filelike.c between vktrace_write_trace_packet and
\* vktrace_read_trace_packet).
THEOREM ImplementsQueue == Spec => Queue!Spec
<1>1. Init => Queue!Init
    BY DEF Init, Queue!Init
<1>2. IInv /\ [Next]_vars => [Queue!Next]_(Queue!vars)
    BY StepsRefine
<1> QED BY <1>1, <1>2, Invariance, PTL DEF Spec, Queue!Spec
=============================================================================
