\* A call whose rows are each larger than the whole upload buffer.
CONSTANTS
    None = None
    BufferSize = 4
    MaxResident = 1
    CallParams <- MCOversizedCall
    ManualFlush = TRUE
    MaxCalls = 1
    MaxSubmits = 0
    MaxOverflows = 3
SPECIFICATION Spec
CHECK_DEADLOCK FALSE
PROPERTY CallReturns
