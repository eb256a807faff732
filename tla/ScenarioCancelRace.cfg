\* One scenario of one job, deleted while its agent polls; no faults.
SPECIFICATION SSpec
CONSTANTS
    j1 = j1  j2 = j2  t = t  p1 = p1  p2 = p2  a1 = a1  a2 = a2  s1 = s1  s2 = s2
    Job = {j1}
    Agent = {a1}
    owner <- MCOneOwner
    Rank <- MCRank
    MaxRetries = 1
    Proc = {p1}
    NoProc = NoProc
    agentId <- MCOneProc
    Conn = {c1}
    MaxBatch = 2
    Outcomes = {"completed", "failed"}
    Linger = FALSE
    MaxFaults = 0
    Scenario = {s1}
    NoScenario = NoScenario
    scenarioOf <- MCOwnScenario
    Created <- MCCreated
    ListLimit = 1
    Deletable = {s1}
PROPERTY AssignsOnlyPending
