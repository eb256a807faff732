\* Progress: three jobs of two agents, one of which gets batches of two; a request
\* given up may run on while its agent polls again.
SPECIFICATION FairSpec
CONSTANTS
    j1 = j1  j2 = j2  j3 = j3  j4 = j4  p1 = p1  p2 = p2  a1 = a1  a2 = a2
    Job = {j1, j2, j4}
    Agent = {a1, a2}
    owner <- MCOwner
    Rank <- MCRank
    MaxRetries = 1
    Proc = {p1, p2}
    NoProc = NoProc
    agentId <- MCOneEach
    Conn = {c1, c2}
    MaxBatch = 2
    Outcomes = {"completed", "failed"}
    Linger = TRUE
    MaxFaults = 1
INVARIANT IInv
PROPERTY EventuallySettled
