SPECIFICATION Spec
CONSTANTS
    Cids = {c1, c2}
    Pdfs = {}
    TextOf <- OneText
    Queued = {c1}
    Self = self
    Peers = {p}
    Heard <- ReviewMessages
    Workers = {w1, w2}
    MaxEvents = 2
    MaxFailures = 0
    MaxInbox = 1
    None = None
INVARIANTS
    ReviewAnswered
CHECK_DEADLOCK FALSE
