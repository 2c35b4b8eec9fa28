\* Two overlapping syncs on a chain that reorganises deeper than MaxReorg.
SPECIFICATION Spec
CONSTANTS
    g = g
    a1 = a1
    a2 = a2
    b1 = b1
    b2 = b2
    c2 = c2
    None = None
    s1 = s1
    s2 = s2
    Root = g
    Blocks = {g, a1, a2, b1}
    Parent <- MCParent
    Height <- MCHeight
    Lineage <- MCLineage
    Events = {a1}
    Syncs = {s1, s2}
    Readers = {}
    BatchBlocks = 2
    MaxReorg = 1
    Faults = {}
INVARIANT IndexerSafe
SYMMETRY Symmetry
PROPERTY HaltIsFinal
CHECK_DEADLOCK FALSE
