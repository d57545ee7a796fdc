SPECIFICATION Spec
SYMMETRY Symmetry
CONSTRAINT FewEvents
CONSTANTS
    leaf = leaf
    folder = folder
    paper = paper
    p1 = p1
    p2 = p2
    w1 = w1
    w2 = w2
    NoRow = NoRow
    Cids = {leaf, folder, paper}
    Codec <- CodecOf
    Links <- LinksOf
    Peers = {p1, p2}
    Workers = {w1, w2}
    SkipErrors = {"scope_pdf"}
    FetchNames = {"none"}
    MaxQueue = 2
    MaxDirQueue = 1
    MaxDirProbes = 1
    MaxDirDocs = 2
    MaxNamed = 1
    LaneWorkers = 1
    MinPeerCount = 1
    PreferMinPeerCount = 2
    MaxRetries = 0
    MaxTimeoutRetries = 0
    Batch = 1
    EvictedKeep = 1
    MaxWants = 3
    MaxReviews = 1
    MaxCrashes = 1
INVARIANTS
    TypeOK
    NoOrphan
    ProbesBounded
    
PROPERTIES
    BinaryStaysOut
    PruneCaps
