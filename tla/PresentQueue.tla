----------------------------- MODULE PresentQueue -----------------------------
(***************************************************************************)
(* What one swapchain promises its application: an image is handed out to  *)
(* the application, waits to be shown, or is free; images are shown in the *)
(* order in which they were presented, each of them once, and every        *)
(* presented image is shown as long as the swapchain exists                *)
(* (layersvt/offscreenlayer/headless_swapchain.cpp, .h).                   *)
(***************************************************************************)
EXTENDS Sequences

CONSTANT Image

VARIABLES
    open,       \* the swapchain exists
    owned,      \* the images the application has
    queue       \* the images presented and not shown yet, oldest first

vars == <<open, owned, queue>>

Waiting == {queue[n] : n \in DOMAIN queue}

Init == open \in BOOLEAN /\ owned = {} /\ queue = << >>

Acquire ==
    /\ open
    /\ \E i \in Image \ (owned \union Waiting) : owned' = owned \union {i}
    /\ UNCHANGED <<open, queue>>

Present ==
    /\ open
    /\ \E i \in owned : owned' = owned \ {i} /\ queue' = Append(queue, i)
    /\ UNCHANGED open

Show ==
    /\ open /\ queue # << >>
    /\ queue' = Tail(queue)
    /\ UNCHANGED <<open, owned>>

\* Destroying the swapchain drops what it still has.
Close ==
    /\ open
    /\ open' = FALSE /\ owned' = {} /\ queue' = << >>

Open == ~open /\ open' = TRUE /\ UNCHANGED <<owned, queue>>

Next == Open \/ Acquire \/ Present \/ Show \/ Close

Spec == Init /\ [][Next]_vars
FairSpec == Spec /\ WF_vars(Show)
=============================================================================
