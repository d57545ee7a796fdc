SPECIFICATION Spec
CONSTANTS
    Cids = {c1, c2}
    Pdfs = {}
    TextOf <- OneText
    Queued = {c1}
    Self = self
    Peers = {p}
    Heard <- Messages
    Workers = {w1, w2}
    MaxEvents = 1
    MaxFailures = 1
    MaxInbox = 1
    None = None
CHECK_DEADLOCK FALSE
INVARIANTS
    IndexerInv
    OneLiveClaim
    SettledHasRecord
    
PROPERTIES
    ServiceSpec
