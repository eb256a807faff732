\* Two requests at a time over two ids, as many user names and columns.
SPECIFICATION USpec
CONSTANTS
    Id = {"i1", "i2"}
    Name = {"n1", "n2"}
    Field = {"f1", "f2"}
    Req = {q1, q2}
    MaxBulk = 2
INVARIANTS
    UTypeOK
    BulkReportTrue
PROPERTIES
    UpdateKeepsOthers
    DeletedStaysDeleted
