SPECIFICATION Spec
CONSTANTS
    Agent = {a1}
    Timeout = 4
    Latency = 1
    Zone = 5
    Reported = {"online"}
    MaxFaults = 0
INVARIANTS
    PunctualStaysOnline
