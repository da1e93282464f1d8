\* Section 4.4's result contract for graphics pipeline batches, on a device
\* with tessellationShader, for a batch pairing a pipeline with and one
\* without tessellation stages.
CONSTANTS
    NULL = NULL
    None = None
    sh1 = sh1
    sh2 = sh2
    Shaders <- MCShaders
    Entries <- MCEntries
    ColorFormats = {"RGBA8", "R32UI"}
    DepthFormats = {"D24S8"}
    AttachmentFormats = {"RGBA8", "R32UI", "D16", "S8", "D24S8"}
    BlendFormats = {"RGBA8"}
    StencilOnlyFormats = {"S8"}
    DepthOnlyFormats = {"D16"}
    SampleCounts = {1, 4}
    ViewMasks = {0, 2, 4}
    ResolveModes = {"NONE"}
    SupportedDepthResolveModes = {}
    SupportedStencilResolveModes = {"AVERAGE"}
    MaxColorAttachments = 1
    ColorSlots = 2
    MaxMultiviewViewCount = 2
    MaxColorAtts = 1
    MaxDepthAtts = 1
    MaxSubpasses = 1
    DeviceFeatures = {"tessellationShader"}
    GraphicsParams <- MCParams
    MaxBatch = 2
    Batches <- MCTessBatches
SPECIFICATION TessSpec
\* One renderpass and one pipeline call per behaviour; then the client stops.
CHECK_DEADLOCK FALSE
INVARIANT ResultContract
