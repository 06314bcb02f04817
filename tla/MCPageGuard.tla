----------------------------- MODULE MCPageGuard -----------------------------
(* Small instances of PageGuard for TLC. *)
EXTENDS PageGuardProps, TLC

CONSTANTS a, b, t1, t2

TwoMems == {a, b}
OneCached == {a}
OnlyB == {b}
NoMems == {}
TwoThreads == {t1, t2}
(* One range, two ranges of one memory, ranges of two memories. *)
RangesOfB == {<<b>>, <<b, b>>}
SomeRanges == {<<a>>, <<a, a>>, <<b, a>>}
ThreadsAlike == Permutations(TwoThreads)
=============================================================================
