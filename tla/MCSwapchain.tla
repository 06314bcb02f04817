----------------------------- MODULE MCSwapchain -----------------------------
(***************************************************************************)
(* Small swapchains for TLC: how many images each of them has.             *)
(***************************************************************************)
EXTENDS SwapchainProps

TwoImages == [c \in Chain |-> 2]
ThreeImages == [c \in Chain |-> 3]
TwoThenOne == [c \in Chain |-> IF c = 1 THEN 2 ELSE 1]
ThreeThenTwo == [c \in Chain |-> IF c = 1 THEN 3 ELSE 2]
=============================================================================
