\* Progress: two scenarios of one job each on one agent, the older deletable.
SPECIFICATION SFairSpec
CONSTANTS
    j1 = j1  j2 = j2  t = t  p1 = p1  p2 = p2  a1 = a1  a2 = a2  s1 = s1  s2 = s2
    Job = {j1, j2}
    Agent = {a1}
    owner <- MCOneOwner
    Rank <- MCRank
    MaxRetries = 1
    Proc = {p1}
    NoProc = NoProc
    agentId <- MCOneProc
    Conn = {c1}
    MaxBatch = 2
    Outcomes = {"completed", "failed"}
    Linger = FALSE
    MaxFaults = 1
    Scenario = {s1, s2}
    NoScenario = NoScenario
    scenarioOf <- MCOwnScenario
    Created <- MCCreated
    ListLimit = 2
    Deletable = {s1}
PROPERTY ScenarioFinishes
