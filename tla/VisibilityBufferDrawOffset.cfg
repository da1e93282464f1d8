\* Up to four mesh buffers over three pipelines, each packing into one or
\* two MDI structs.
CONSTANTS
    Pipelines = {1, 2, 3}
    MdiCounts = {1, 2}
    MaxMeshBuffers = 4
SPECIFICATION Spec


INVARIANT DrawsOwnMeshBuffers
