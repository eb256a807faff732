---------------------------- MODULE MCPlannedRun ----------------------------
EXTENDS PlannedRun, TLC

CONSTANTS t1, t2, u, v, a1, a2, a3

\* A step as it should be, and steps that differ from it in one respect.
Good(id, order) ==
    [id |-> id, order |-> order, action |-> "simulate_file_activity", labels |-> {<<"role", "pc">>},
     count |-> [kind |-> "all", n |-> 0], params |-> "good", lo |-> 0, hi |-> 0]
Counts == [kind : {"number", "prefix"}, n : 0..2] \cup [kind : {"any", "word"}, n : {0}]
Ranges == {<<0, 2>>, <<2, 0>>, <<2, 2>>, <<-1, 0>>, <<0, -1>>}
Variants(g) ==
    {g, [g EXCEPT !.action = "unknown"], [g EXCEPT !.params = "bad"]}
    \cup {[g EXCEPT !.labels = l] : l \in {{}, {<<"role", "pc">>, <<"os", "win">>}, {<<"os", "">>}}}
    \cup {[g EXCEPT !.count = c] : c \in Counts}
    \cup {[g EXCEPT !.lo = r[1], !.hi = r[2]] : r \in Ranges}
MCDrafts == Variants(Good("x", 1)) \cup Variants(Good("y", 2)) \cup {Good("x", 2), Good("y", 1)}

MCLabelsOf == (a1 :> [role |-> "pc", os |-> ""] @@ a2 :> [role |-> "pc", os |-> "win"]
               @@ a3 :> [role |-> "pc", os |-> "win"])

MCDomainOf == (u :> "X" @@ v :> "none")
MCSat == [imap |-> <<{"dates", "attachment"}, {"unread", "dates", "words"}>>,
          outlook |-> <<{"attachment"}, {"unread", "dates", "words"}>>]
MCAttached == <<<<"up", "big">>, <<>>>>
MCSizes == {-1, 2}

Threads == Permutations({t1, t2})
=============================================================================
