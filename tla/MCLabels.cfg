SPECIFICATION Spec
CONSTANTS
    Nodes = {n1, n2}
    Classifies <- Messages
    Kept = 3
    MaxBanned = 1
SYMMETRY NodeSymmetry
CHECK_DEADLOCK FALSE
INVARIANTS
    TallyInv
    AgreementFirst
    NodesAgree
