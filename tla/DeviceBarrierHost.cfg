\* Scenario 5: a host-write barrier without the host stage.
CONSTANTS
    NULL = NULL
    Features <- MCFeatures
    ALL_COMMANDS_BITS <- MCAllCommands
    ALL_TRANSFER_BITS <- MCAllTransfer
    ALL_GRAPHICS_BITS <- MCAllGraphics
    PRE_RASTERIZATION_SHADERS_BITS <- MCPreRasterization
    VERTEX_INPUT_BITS <- MCVertexInput
    FRAMEBUFFER_SPACE_BITS <- MCFramebufferSpace
    MEMORY_READ_BITS <- MCMemoryRead
    MEMORY_WRITE_BITS <- MCMemoryWrite
    SHADER_READ_BITS <- MCShaderRead
    SHADER_WRITE_BITS <- MCShaderWrite
    TestStageMasks <- MCStageMasks
    TestAccessMasks <- MCAccessMasks
    NumFamilies = 1
    QueueCounts = {1}
SPECIFICATION Spec
\* The device is built once and its queue family infos never change.
CHECK_DEADLOCK FALSE
INVARIANT HostAccessNeedsHostStage
