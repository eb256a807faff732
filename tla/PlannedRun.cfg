SPECIFICATION RunSpec
CONSTANTS
    t1 = t1  t2 = t2  u = u  v = v  a1 = a1  a2 = a2  a3 = a3
    Owner = {u, v}
    Self = u
    MaxLines = 1
    MaxHistory = 2
    MaxCount = 2
    Size <- MCSizes
    DefaultSize = 2
    Mail = {1, 2}
    Sat <- MCSat
    Attached <- MCAttached
    AllowedAttachment = {"up"}
    AllowedExecutable = {"up"}
    Climbing = {"up"}
    MaxApartments = 1
    MaxResults = 2
    Thread = {t1, t2}
    User = {u, v}
    domainOf <- MCDomainOf
    AllowedUsers = {}
    AllowedDomain = "X"
    Enabled = TRUE
    Agent = {a1, a2, a3}
    LabelsOf <- MCLabelsOf
    Drafts <- MCDrafts
    MaxSteps = 2
    MaxSize = 2
    Answers = TRUE
SYMMETRY Threads
INVARIANTS
    RunTypeOK
    EventIsTrue
    ActReportTrue
    MailIsAsAsked
    NothingIsLeft
    ScenarioIsCarriedOut
