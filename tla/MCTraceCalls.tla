---------------------------- MODULE MCTraceCalls ----------------------------
(* Small instances of TraceCalls for TLC. *)
EXTENDS TraceCallsProps, TLC

CONSTANTS h1, h2, t1, t2

TwoHandles == {h1, h2}
TwoThreads == {t1, t2}
=============================================================================
