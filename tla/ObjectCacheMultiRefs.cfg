\* CMultiObjectCache: greet/dispose balance under every operation.
CONSTANTS
    o1 = o1
    o2 = o2
    NULL = NULL
    Objects <- MCObjects
    Keys <- MCKeys
    Ops <- AllOps
    Kinds = {"multi_vector"}
    MaxEntries = 3
    MaxRefs = 3
SPECIFICATION Spec
SYMMETRY Symmetry
INVARIANT RefsBalanced
CHECK_DEADLOCK FALSE
