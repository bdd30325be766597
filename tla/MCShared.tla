------------------------------ MODULE MCShared ------------------------------
(***************************************************************************)
(* Shared on a small instance, for TLC.                                    *)
(***************************************************************************)
EXTENDS Shared, TLC

CONSTANTS n1, n2, n3, q1, q2, Owned, Default

\* Two clients on one host, one on another.
HostOfClient == n1 :> q1 @@ n2 :> q1 @@ n3 :> q2

\* A scope with a key of its own, and the default scope, which has none.
MCScopes == {Owned, Default}
MCKeyed  == {Owned}

\* Which outputs the threshold takes for one another.
NearPaths == {<<1, 2>>, <<2, 1>>}
Likeness ==
  [d \in Bodies \X Bodies |-> IF d[1] = d[2] THEN 10 ELSE IF d[1] + d[2] = 3 THEN 9 ELSE 2]

Interchangeable == Permutations(Callers)
=============================================================================
