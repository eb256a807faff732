\* Three processes of two releases on one file, restarted at any time.
SPECIFICATION LifeFairSpec
CONSTANTS
    p1 = p1  p2 = p2  p3 = p3
    Server = {p1, p2, p3}
    NoServer = NoServer
    Version = {1, 2}
    Checksum = {"a", "b"}
    NoChecksum = NoChecksum
    bundle <- MCBundle
    Idempotent = {1}
    Req = {q1}
    RequestTimeout = 2
    ShutdownTimeout = 1
    MaxFaults = 1
INVARIANTS
    LifeTypeOK
    SchemaIsRecorded
    WorksOnItsSchema
    ClosedOnlyAfterWaiting
PROPERTY StartsAndStops
