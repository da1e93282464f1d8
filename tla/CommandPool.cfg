\* Two threads recording into one pool of three records, replayed on two
\* contexts; at most two recording calls per buffer between resets.
CONSTANTS
    b1 = b1
    b2 = b2
    Buffers = {b1, b2}
    Ctxs = {0, 1}
    MaxQueues = 2
    QueryCount = 1
    Slots = {1, 2, 3}
    v1 = v1
    v2 = v2
    Values = {v1, v2}
    MaxCmds = 2
    NoOwner = NoOwner
    None = None
    Locked = Locked
SYMMETRY Symmetry
SPECIFICATION Spec
INVARIANT TypeOK
INVARIANT ArenaExclusive
INVARIANT QueryReadsLastEnded
