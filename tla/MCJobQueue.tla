----------------------------- MODULE MCJobQueue -----------------------------
(* Instances of JobQueue for TLC. *)
EXTENDS JobQueue

CONSTANTS w1, w2, p1, p2

\* A pool of one thread in each of two processes.
TwoPools == [w \in {w1, w2} |-> IF w = w1 THEN p1 ELSE p2]
\* One pool of two threads.
OnePool  == [w \in {w1, w2} |-> p1]
=============================================================================
