----------------------------- MODULE MCLongWork ------------------------------
(***************************************************************************)
(* Small instances of LongWork for TLC.                                    *)
(***************************************************************************)
EXTENDS LongWork, TLC

CONSTANTS r1, r2, r3, p1, p2, u1, u2, u3, n, m

\* Two threads of one process, one of another.
TwoAndOne == [r \in {r1, r2, r3} |-> IF r = r3 THEN p2 ELSE p1]

\* Bodies by the sizes of their members: within the limit, over it, and over it by the last one.
ChunkSizes == {<<2>>, <<4>>, <<1, 2>>, <<2, 3>>}

\* Two of three URLs are given one name.
TwoOfOneName == u1 :> n @@ u2 :> n @@ u3 :> m
=============================================================================
