SPECIFICATION Spec
CONSTANTS
    Files <- Usual
    Sources = 2
    SniffMin = 2
    MAX_BYTES = 4
    MAX_CHILD_BLOCKS = 3
    MAX_PDF_BYTES = 8
    MAX_PDF_CHILD_BLOCKS = 6
    MAX_BLOCK = 5
    CHILD_CONCURRENCY = 2
    Rate = 1
INVARIANTS
    SampleInv
    WholeOrTruncated
PROPERTIES
    FetchEnds
