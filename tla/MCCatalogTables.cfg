SPECIFICATION Spec
CONSTANTS
    p1 = p1
    p2 = p2
    me = me
    c1 = c1
    c2 = c2
    bad = bad
    NoRow = NoRow
    Publishers = {p1, p2, me}
    Me = me
    Cids = {c1, c2, bad}
    ValidCids = {c1, c2}
    Universe <- TablesUniverse
    Legacy <- LegacyLabel
    GuestReports <- Guests
    AliasNames = {""}
    WebThreads = {w1}
    AtCap = {TRUE, FALSE}
    SkipTtl = 1
    MaxClock = 6
    MaxCrashes = 1
CONSTRAINT OneOfTables
INVARIANTS
    ArrivalOrder
    Consistent
PROPERTIES
    BlacklistRules
    LeaseNotStolen
    LiveSkipKept
    ProposalKept
