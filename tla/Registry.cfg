SPECIFICATION LiveSpec
CONSTANTS
    Agent = {a1}
    Timeout = 8
    Latency = 2
    Zone = 0
    Reported = {"online", "busy", "error"}
    MaxFaults = 3
INVARIANTS
    RTypeOK
    RInv
    PunctualStaysOnline
    CacheAgrees
PROPERTIES
    DeadGoesOffline
    LiveComesBack
