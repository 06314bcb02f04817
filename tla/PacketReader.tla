---------------------------- MODULE PacketReader ----------------------------
(***************************************************************************)
(* What main_loop of vkreplay sees of a trace file: its packets, one after *)
(* the other, until the file or the frame range ends or the replay is      *)
(* stopped.  This is what Sequencer::get_next_packet does without the      *)
(* preloader (vktrace/vktrace_replay/vkreplay_seq.cpp), which reads a      *)
(* packet per call; the preloader (Preload) has to look the same.          *)
(***************************************************************************)
EXTENDS Naturals, Sequences

CONSTANTS
    Inputs,     \* the traces: sizes, last packet of the frame range, bad packet
    MayQuit     \* may the replay stop early (window closed, error)?

VARIABLES
    input,      \* the trace that is being replayed (never changes)
    delivered,  \* history: the packets returned to main_loop
    phase       \* reading; told that there is no packet (NULL); stopped

vars == <<input, delivered, phase>>

Init ==
    /\ input \in Inputs
    /\ delivered = << >>
    /\ phase = "reading"

\* The frame with the number loopEndFrame has been presented.
RangeReplayed == delivered # << >> /\ delivered[Len(delivered)] = input.last

\* A packet that cannot be read, or not be decompressed, is no packet.
NoPacket == Len(delivered) = Len(input.size) \/ Len(delivered) + 1 = input.bad

GetNextPacket ==
    /\ phase = "reading" /\ ~RangeReplayed
    /\ ~NoPacket
    /\ delivered' = Append(delivered, Len(delivered) + 1)
    /\ UNCHANGED <<input, phase>>

GetNull ==
    /\ phase = "reading" /\ ~RangeReplayed
    /\ NoPacket
    /\ phase' = "told"
    /\ UNCHANGED <<input, delivered>>

\* After NULL, at the end of the range, or where main_loop leaves by goto out.
Stop ==
    /\ \/ phase = "told"
       \/ phase = "reading" /\ delivered # << >> /\ (RangeReplayed \/ MayQuit)
    /\ phase' = "stopped"
    /\ UNCHANGED <<input, delivered>>

Next == GetNextPacket \/ GetNull \/ Stop

Spec == Init /\ [][Next]_vars
FairSpec == Spec /\ WF_vars(Next)
=============================================================================
