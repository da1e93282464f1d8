\* createRayTracingPipelines with a batch of two: entry 2 is given the
\* miss, hit and callable spans of the whole batch.
CONSTANTS
    NULL = NULL
    None = None
    sh1 = sh1
    sh2 = sh2
    Shaders <- MCShaders
    Entries <- MCEntries
    ColorFormats = {"RGBA8", "R32UI", "BC1"}
    DepthFormats = {"D16", "S8", "D24S8"}
    AttachmentFormats = {"RGBA8", "R32UI", "D16", "S8", "D24S8"}
    BlendFormats = {"RGBA8"}
    StencilOnlyFormats = {"S8"}
    DepthOnlyFormats = {"D16"}
    SampleCounts = {1, 4}
    ViewMasks = {0, 2, 4}
    ResolveModes = {"NONE", "AVERAGE"}
    SupportedDepthResolveModes = {}
    SupportedStencilResolveModes = {"AVERAGE"}
    MaxColorAttachments = 1
    ColorSlots = 2
    MaxMultiviewViewCount = 2
    MaxColorAtts = 2
    MaxDepthAtts = 1
    MaxSubpasses = 1
    DeviceFeatures = {"mixedAttachmentSamples", "rayTracingPipeline", "rayTraversalPrimitiveCulling"}
    GraphicsParams <- MCSharedModuleParams
    MaxBatch = 1
    ComputeParams <- MCComputeParams
    RayTracingParams <- MCRayTracingParams
    MaxRayRecursionDepth = 1
    MaxPipelineBatch = 2
SPECIFICATION PSpec
CHECK_DEADLOCK FALSE
INVARIANT RtGroupsOwn
