SPECIFICATION Spec
CONSTANTS
    p1 = p1
    self = self
    c1 = c1
    c2 = c2
    None = None
    Publishers = {p1, self}
    Self = self
    Cids = {c1, c2}
    Universe <- InboxUniverse
    Peers = {q1}
    Requests = {r1}
    MaxPerWindow = 1
    Window = 1
    HashCap = 9
    PullCooldown = 2
    DiskOk = {TRUE, FALSE}
    PublishOk = {TRUE, FALSE}
    MaxClock = 2
    MaxLines = 3
    MaxRestarts = 0
CONSTRAINT OneOfInbox
CHECK_DEADLOCK FALSE
INVARIANTS
    DuplicatesAreFree
PROPERTIES
    InboxExact
    SlotAnnounced
