\* A node that reorganises within MaxReorg, misses logs and breaks its finality, an
\* indexer that runs again and again, and a reader.
SPECIFICATION FairSpec
CONSTANTS
    g = g
    a1 = a1
    a2 = a2
    b1 = b1
    b2 = b2
    c2 = c2
    None = None
    s1 = s1
    s2 = s2
    Root = g
    Blocks = {g, a1, a2, b1, b2}
    Parent <- MCParent
    Height <- MCHeight
    Lineage <- MCLineage
    Events = {a1, b2}
    Syncs = {"s1"}
    Readers = {"r1"}
    BatchBlocks = 1
    MaxReorg = 2
    Faults = {"logs", "finality"}
INVARIANT HaltsOnlyWhenBroken
INVARIANT LedgerExact
PROPERTY CheckpointOnlyAdvances
PROPERTY CatchesUp
PROPERTY ConflictHalts
CHECK_DEADLOCK FALSE
