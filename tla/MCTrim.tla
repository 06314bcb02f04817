------------------------------- MODULE MCTrim --------------------------------
(* Small instances of Trim for TLC. *)
EXTENDS TrimProps

CONSTANTS m1, b1, p1, c1, c2

OneMem == {m1}
OneBuf == {b1}
OnePool == {p1}
TwoCbs == {c1, c2}
OnePrimary == {c1}

Plain == [post |-> FALSE, dedicated |-> FALSE, orphans |-> FALSE,
          lasting |-> FALSE, mixed |-> FALSE]

(* Both ways to trim an application that keeps to its frames. *)
BothWays == {[Plain EXCEPT !.dedicated = TRUE], [Plain EXCEPT !.post = TRUE]}

(* An application that records its primary command buffers once. *)
Lasting == {[Plain EXCEPT !.lasting = TRUE]}
Orphans == {[Plain EXCEPT !.dedicated = TRUE, !.orphans = TRUE]}
Mixed == {[Plain EXCEPT !.mixed = TRUE]}
PostDedicated == {[Plain EXCEPT !.dedicated = TRUE, !.post = TRUE]}
=============================================================================
