\* The four ordered cache classes: every operation, up to three entries.
CONSTANTS
    o1 = o1
    o2 = o2
    NULL = NULL
    Objects <- MCObjects
    Keys <- MCKeys
    Ops <- AllOps
    Kinds <- AllKinds
    MaxEntries = 3
    MaxRefs = 3
SPECIFICATION Spec
SYMMETRY Symmetry
INVARIANT TypeOK
INVARIANT RefsCover
INVARIANT VectorRefsBalanced
INVARIANT OthersEntriesReachable
\* The destructor ends the cache's life: nothing can follow it.
CHECK_DEADLOCK FALSE
