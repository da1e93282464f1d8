---------------------------- MODULE MCAssetFlags ----------------------------
(* The composite masks of asset::PIPELINE_STAGE_FLAGS and                 *)
(* asset::ACCESS_FLAGS (defined outside this source tree), and the masks  *)
(* a barrier may name, as given to DeviceCapability's constants by the    *)
(* model-checking instances.                                               *)
MCFeatures == {"deviceGeneratedCommands", "conditionalRendering", "accelerationStructure",
               "rayTracingPipeline", "tessellationShader", "geometryShader",
               "fragmentDensityMap"}

MCVertexInput     == {"INDEX_INPUT_BIT", "VERTEX_ATTRIBUTE_INPUT_BIT"}
MCPreRasterization == {"VERTEX_SHADER_BIT", "TESSELLATION_CONTROL_SHADER_BIT",
                       "TESSELLATION_EVALUATION_SHADER_BIT", "GEOMETRY_SHADER_BIT",
                       "TASK_SHADER_BIT", "MESH_SHADER_BIT"}
MCFramebufferSpace == {"EARLY_FRAGMENT_TESTS_BIT", "FRAGMENT_SHADER_BIT",
                       "LATE_FRAGMENT_TESTS_BIT", "COLOR_ATTACHMENT_OUTPUT_BIT"}
MCAllTransfer == {"COPY_BIT", "ACCELERATION_STRUCTURE_COPY_BIT", "BLIT_BIT",
                  "RESOLVE_BIT", "CLEAR_BIT"}
MCAllGraphics == {"DISPATCH_INDIRECT_COMMAND_BIT", "CONDITIONAL_RENDERING_BIT",
                  "FRAGMENT_DENSITY_PROCESS_BIT", "SHADING_RATE_ATTACHMENT_BIT"}
                 \cup MCVertexInput \cup MCPreRasterization \cup MCFramebufferSpace
MCAllCommands == MCAllTransfer \cup MCAllGraphics
                 \cup {"HOST_BIT", "ACCELERATION_STRUCTURE_BUILD_BIT", "COMMAND_PREPROCESS_BIT",
                      "COMPUTE_SHADER_BIT", "RAY_TRACING_SHADER_BIT"}

MCShaderRead  == {"UNIFORM_READ_BIT", "SAMPLED_READ_BIT", "STORAGE_READ_BIT",
                  "SHADER_BINDING_TABLE_READ_BIT"}
MCShaderWrite == {"STORAGE_WRITE_BIT"}
MCMemoryRead  == MCShaderRead \cup {"HOST_READ_BIT", "INDIRECT_COMMAND_READ_BIT",
                  "INDEX_READ_BIT", "VERTEX_ATTRIBUTE_READ_BIT", "INPUT_ATTACHMENT_READ_BIT",
                  "COLOR_ATTACHMENT_READ_BIT", "DEPTH_STENCIL_ATTACHMENT_READ_BIT",
                  "TRANSFER_READ_BIT", "COMMAND_PREPROCESS_READ_BIT",
                  "CONDITIONAL_RENDERING_READ_BIT", "ACCELERATION_STRUCTURE_READ_BIT",
                  "FRAGMENT_DENSITY_MAP_READ_BIT"}
MCMemoryWrite == MCShaderWrite \cup {"HOST_WRITE_BIT", "COLOR_ATTACHMENT_WRITE_BIT",
                  "DEPTH_STENCIL_ATTACHMENT_WRITE_BIT", "TRANSFER_WRITE_BIT",
                  "COMMAND_PREPROCESS_WRITE_BIT", "ACCELERATION_STRUCTURE_WRITE_BIT"}

\* Masks a barrier may name: none, single stages, and the umbrellas.

MCStageMasks  == {{}, {"HOST_BIT"}, {"COPY_BIT"}, {"COMPUTE_SHADER_BIT"},
                  {"HOST_BIT", "COPY_BIT"}, MCAllTransfer, MCAllCommands}
MCAccessMasks == {{}, {"HOST_WRITE_BIT"}, {"HOST_READ_BIT"}, {"TRANSFER_WRITE_BIT"},
                  MCMemoryRead}
=============================================================================
