----------------------------- MODULE MessageQueue -----------------------------
(***************************************************************************)
(* What the connection between the tracing layer and a recording thread    *)
(* promises: the packets that the threads of the application write arrive  *)
(* whole, once, and in the order in which they were written, and all of    *)
(* them arrive before the end is reported                                  *)
(* (vktrace_common/vktrace_interconnect.c, vktrace_filelike.c).            *)
(***************************************************************************)
EXTENDS Naturals, Sequences

CONSTANT Packets

VARIABLES
    put,        \* the packets written so far
    got,        \* the packets read so far
    closed,     \* the writers are gone
    ended       \* the reader has been told that there are no more packets

vars == <<put, got, closed, ended>>

Init == put = <<>> /\ got = <<>> /\ closed = FALSE /\ ended = FALSE

Put ==
    /\ ~closed
    /\ \E p \in Packets : put' = Append(put, p)
    /\ UNCHANGED <<got, closed, ended>>

Get ==
    /\ Len(got) < Len(put)
    /\ got' = Append(got, put[Len(got) + 1])
    /\ UNCHANGED <<put, closed, ended>>

Close ==
    /\ ~closed
    /\ closed' = TRUE
    /\ UNCHANGED <<put, got, ended>>

End ==
    /\ closed /\ ~ended
    /\ got = put
    /\ ended' = TRUE
    /\ UNCHANGED <<put, got, closed>>

Next == Put \/ Get \/ Close \/ End

Spec == Init /\ [][Next]_vars
FairSpec == Spec /\ WF_vars(Get) /\ WF_vars(End)
===============================================================================
