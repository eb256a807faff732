--------------------------- MODULE MCScenarioFlow ---------------------------
(* Small instances of ScenarioFlow for TLC. *)
EXTENDS ScenarioFlow, TLC

CONSTANTS j1, j2, t, p1, p2, a1, a2, s1, s2

\* s1 spreads over both agents; t is a test job, of no scenario, on a2.
MCOwner == [j \in Job |-> IF j = j1 THEN a1 ELSE a2]
MCScenarioOf == [j \in Job |-> IF j = t THEN NoScenario ELSE s1]

\* One job for each of two scenarios, all on one agent; s2 is created later.
MCOneOwner == [j \in Job |-> a1]
MCOwnScenario == [j \in Job |-> IF j = j1 THEN s1 ELSE s2]

MCRank == [j \in Job |-> 1]
MCCreated == [s \in Scenario |-> IF s = s1 THEN 1 ELSE 2]
MCOneEach == (p1 :> a1) @@ (p2 :> a2)
MCOneProc == (p1 :> a1)

ConnSymmetry == Permutations(Conn)
=============================================================================
