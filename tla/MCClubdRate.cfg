SPECIFICATION Spec
CONSTANTS
    p1 = p1
    self = self
    c1 = c1
    c2 = c2
    None = None
    Publishers = {p1, self}
    Self = self
    Cids = {c1, c2}
    Universe <- RateUniverse
    Peers = {}
    Requests = {}
    MaxPerWindow = 2
    Window = 2
    HashCap = 2
    PullCooldown = 2
    DiskOk = {TRUE, FALSE}
    PublishOk = {TRUE, FALSE}
    MaxClock = 4
    MaxLines = 3
    MaxRestarts = 1
CHECK_DEADLOCK FALSE
INVARIANTS
    LimiterInv
    RateBound
