----------------------------- MODULE MCDispatch -----------------------------
(* Small instances of Dispatch for TLC. *)
EXTENDS Dispatch, TLC

CONSTANTS j1, j2, j3, j4, p1, p2, a1, a2

\* a1 owns j1, j2 and j3, one more than a batch of two, and a2 owns j4 if there
\* is one.  j1 is handed out before j2; j2 and j3 rank equal.
MCOwner == [j \in Job |-> IF j = j4 THEN a2 ELSE a1]
MCRank == [j \in Job |-> IF j \in {j1, j4} THEN 1 ELSE 2]

\* One process per agent.
MCOneEach == (p1 :> a1) @@ (p2 :> a2)
MCOneProc == (p1 :> a1)

ConnSymmetry == Permutations(Conn)
=============================================================================
