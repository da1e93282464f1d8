\* The device's construction over three families and every family flag,
\* queue count and feature combination; or one createDescriptorSetLayout
\* call over every list of at most two bindings; or one
\* updateDescriptorSets / nullifyDescriptors call on fresh sets with up to
\* two writes and one copy, or up to two drops; or createRenderpass with
\* and without mixed attachment samples followed by graphics pipelines
\* whose stages share a module, or one compute or ray tracing batch of up
\* to two entries.
CONSTANTS
    BindingNrs = {0, 1}
    Counts = {0, 2}
    MaxBindings = 2
    MaxDynSSBOs = 1
    MaxDynUBOs = 1
    s1 = s1
    s2 = s2
    sx = sx
    v1 = v1
    EMPTY = EMPTY
    NULL = NULL
    Sets <- MCSets
    Foreign <- MCForeign
    Layout <- MCLayout
    WriteTypes <- MCWriteTypes
    Bindings = {1, 2, 3}
    Values = {v1}
    MaxWrites = 2
    MaxCopies = 1
    MaxDrops = 2
    Features <- MCFeatures
    ALL_COMMANDS_BITS <- MCAllCommands
    ALL_TRANSFER_BITS <- MCAllTransfer
    ALL_GRAPHICS_BITS <- MCAllGraphics
    PRE_RASTERIZATION_SHADERS_BITS <- MCPreRasterization
    VERTEX_INPUT_BITS <- MCVertexInput
    FRAMEBUFFER_SPACE_BITS <- MCFramebufferSpace
    MEMORY_READ_BITS <- MCMemoryRead
    MEMORY_WRITE_BITS <- MCMemoryWrite
    SHADER_READ_BITS <- MCShaderRead
    SHADER_WRITE_BITS <- MCShaderWrite
    TestStageMasks <- MCStageMasks
    TestAccessMasks <- MCAccessMasks
    NumFamilies = 3
    QueueCounts = {0, 1}
    None = None
    sh1 = sh1
    sh2 = sh2
    Shaders <- MCShaders
    Entries <- MCEntries
    ColorFormats = {"RGBA8", "R32UI", "BC1"}
    DepthFormats = {"D16", "S8", "D24S8"}
    AttachmentFormats = {"RGBA8", "R32UI", "D16", "S8", "D24S8"}
    BlendFormats = {"RGBA8"}
    StencilOnlyFormats = {"S8"}
    DepthOnlyFormats = {"D16"}
    SampleCounts = {1, 4}
    ViewMasks = {0, 2, 4}
    ResolveModes = {"NONE", "AVERAGE"}
    SupportedDepthResolveModes = {}
    SupportedStencilResolveModes = {"AVERAGE"}
    MaxColorAttachments = 1
    ColorSlots = 2
    MaxMultiviewViewCount = 2
    MaxColorAtts = 2
    MaxDepthAtts = 1
    MaxSubpasses = 1
    DeviceFeatures = {"mixedAttachmentSamples", "rayTracingPipeline", "rayTraversalPrimitiveCulling"}
    GraphicsParams <- MCSharedModuleParams
    MaxBatch = 1
    ComputeParams <- MCComputeParams
    RayTracingParams <- MCRayTracingParams
    MaxRayRecursionDepth = 1
    MaxPipelineBatch = 2
SPECIFICATION DeviceSpec
INVARIANT VideoTypeOK
INVARIANT NullIffInvalid
INVARIANT BackendParamsMatch
INVARIANT AccessHasStage
INVARIANT QueueRangesTile
INVARIANT RenderpassNullIffInvalid
INVARIANT TrimmedKeepsEntryPoints
INVARIANT RtTrimmedKeepEntryPoints
INVARIANT AllOrNothing
\* A behaviour is a single call (or the one construction, or a renderpass
\* and one pipeline call); it then stops.
CHECK_DEADLOCK FALSE
