\* CObjectCache: swapObjectValue on a key holding another pointer stores the key twice.
CONSTANTS
    o1 = o1
    o2 = o2
    NULL = NULL
    Objects <- MCObjects
    Keys <- MCKeys
    Ops = {"insert", "swap"}
    Kinds = {"vector"}
    MaxEntries = 3
    MaxRefs = 3
SPECIFICATION Spec
SYMMETRY Symmetry
INVARIANT EntriesReachable
CHECK_DEADLOCK FALSE
