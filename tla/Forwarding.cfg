\* One process, restarted at any time; a report of a scenario, and with it
\* its completion.
SPECIFICATION FFairSpec
CONSTANTS
    p1 = p1
    Server = {p1}
    NoServer = NoServer
    Version = {1}
    Checksum = {"a"}
    NoChecksum = NoChecksum
    bundle <- MCBundle
    Idempotent = {1}
    Req = {q1}
    RequestTimeout = 1
    ShutdownTimeout = 1
    MaxFaults = 1
    Report = {"r1"}
    RetryCount <- MCRetryCount
INVARIANTS
    FTypeOK
    StoredIsForwarded
    GivenUpOnlyAfterAll
    CompletionIsTrue
PROPERTY ForwardEnds
