\* Two agents, one with three jobs; any call may fail, anything may crash.
SPECIFICATION Spec
CONSTANTS
    j1 = j1  j2 = j2  j3 = j3  p1 = p1  p2 = p2  a1 = a1  a2 = a2 j4 = j4
    Job = {j1, j2, j3}
    Agent = {a1, a2}
    owner <- MCOwner
    Rank <- MCRank
    MaxRetries = 2
    Proc = {p1, p2}
    NoProc = NoProc
    agentId <- MCOneEach
    Conn = {c1, c2}
    MaxBatch = 2
    Outcomes = {"completed", "failed"}
    Linger = FALSE
    MaxFaults = 2
SYMMETRY ConnSymmetry
INVARIANTS
    TypeOK
    FlightInv
    AttemptsAccounted
    SingleHolder
    RetryPromiseKept
PROPERTIES
    ImplementsLifecycle
    StuckOnlyByFault
