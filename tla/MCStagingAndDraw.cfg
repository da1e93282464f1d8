\* The example over up to four mesh buffers of three pipelines, each
\* packing into one or two MDI structs; or two uploads through a 4-unit
\* upload buffer, the client submitting between them or not, the scratch
\* stage mask starting with or without COPY_BIT; or two getAsset calls
\* over a three-level dependency hierarchy with every per-level flag; or a
\* pipeline's five shader slots and layout set any way and cloned at
\* depths 0, 1 and 2.
CONSTANTS
    Pipelines = {1, 2, 3}
    MdiCounts = {1, 2}
    MaxMeshBuffers = 4
    None = None
    BufferSize = 4
    MaxResident = 1
    CallParams <- MCCallParams
    ManualFlush = TRUE
    MaxCalls = 2
    MaxSubmits = 2
    MaxOverflows = 3
    Files = {"a", "b", "c", "s"}
    Builtins = {"s"}
    Loaders <- MCLoaders
    PerExt <- MCPerExt
    Loadable <- MCLoadable
    Deps <- MCDeps
    FlagChoices <- MCFlagChoices
    MaxRequests = 2
    StageCount = 5
    Depths = {0, 1, 2}
SPECIFICATION MCSpec
INVARIANT MCTypeOK
INVARIANT RangesPartitionByPipeline
INVARIANT MaterialsOfOwnRange
INVARIANT NoReuseBeforeCopy
INVARIANT FlushedBeforeSubmit
INVARIANT UniqueKeys
INVARIANT CloneKeepsStages
PROPERTY CallReturns
PROPERTY LoadReturns
\* The client stops after MaxCalls uploads and the GPU drains its queue.
CHECK_DEADLOCK FALSE
