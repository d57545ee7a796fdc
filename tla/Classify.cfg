SPECIFICATION Spec
CONSTANTS
    Providers = {p1, p2}
    Threads = {t1, t2}
    Probers = {b1}
    Initial = {p1, p2}
    Cap = 2
    KeyPause = 1
    Window = 1
    Attempts = 2
    MaxEvents = 2
    MaxCalls = 2
    MaxSaves = 1
    None = None
INVARIANTS
    HostsInv
    NoneMeansNobody
PROPERTIES
    CallsReturn
    AvailableAgain
