\* A scenario with a job on each of two agents, deletable, and a test job; one
\* fault of any kind.
SPECIFICATION SSpec
CONSTANTS
    j1 = j1  j2 = j2  t = t  p1 = p1  p2 = p2  a1 = a1  a2 = a2  s1 = s1  s2 = s2
    Job = {j1, j2, t}
    Agent = {a1, a2}
    owner <- MCOwner
    Rank <- MCRank
    MaxRetries = 1
    Proc = {p1, p2}
    NoProc = NoProc
    agentId <- MCOneEach
    Conn = {c1, c2}
    MaxBatch = 1
    Outcomes = {"completed", "failed"}
    Linger = FALSE
    MaxFaults = 1
    Scenario = {s1}
    NoScenario = NoScenario
    scenarioOf <- MCScenarioOf
    Created <- MCCreated
    ListLimit = 1
    Deletable = {s1}
SYMMETRY ConnSymmetry
INVARIANTS
    STypeOK
    CompletedMeansDone
    AnnouncedOnceAndTrue
PROPERTY
    ImplementsCancellable
