------------------------------ MODULE MCPreload ------------------------------
(***************************************************************************)
(* Traces for the preloader.  A chunk holds three units (two in the runs   *)
(* that say so): packets of size 1 and 2 share chunks, 4 needs two of      *)
(* them, 7 three.                                                          *)
(***************************************************************************)
EXTENDS PreloadProps

Trace(size) == [size |-> size, last |-> 0, bad |-> 0]

\* Small and large packets, with and without the end of the frame range, with
\* and without a packet that cannot be loaded; and packets so large that more
\* than the last chunk is skipped, in the first round and in the second.
RingInputs ==
    [size : [1 .. 5 -> {1, 4}], last : {0, 4}, bad : {0, 3}]
      \union {Trace(<<2, 2, 7>>), Trace(<<2, 2, 2, 2, 7>>), Trace(<<7, 1, 1, 7>>)}

\* Only packets that share chunks, more than the ring holds.
SmallInputs ==
    [size : [1 .. 7 -> {1, 2}], last : {0, 5}, bad : {0}]

SevenSmallPackets == {Trace(<<1, 1, 1, 1, 1, 1, 1>>)}
LargeAtBothEnds == {Trace(<<4, 1, 1, 4, 1, 1>>)}
LargeAtTheLastChunk == {Trace(<<1, 1, 1, 1, 1, 4, 1>>)}

\* For four chunks: the packet that needs three of them skips the other two.
LargeSkipsTwo == {Trace(<<2, 2, 7, 2, 2, 2>>)}

\* For three chunks: packets that need more than half of the ring.
LargerThanHalf == {Trace(<<1, 4, 4, 1, 1>>)}
=============================================================================
