\* One thread records pushConstants and dispatches into one buffer, replayed
\* on one context: two dispatches between which the push constants change.
CONSTANTS
    b1 = b1
    b2 = b2
    v1 = v1
    v2 = v2
    Buffers = {b1}
    Ctxs = {0}
    MaxQueues = 2
    QueryCount = 1
    Slots = {1, 2}
    Values = {v1, v2}
    MaxCmds = 2
    NoOwner = NoOwner
    None = None
    Locked = Locked
SPECIFICATION Spec
INVARIANT UniformMatchesRecorded
