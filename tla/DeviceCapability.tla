---------------------------- MODULE DeviceCapability ----------------------------
(***************************************************************************)
(* The device capability model of ILogicalDevice (src/nbl/video/          *)
(* ILogicalDevice.cpp): the constructor's per-queue-family supported       *)
(* stage and access masks and queue index ranges, the two supportsMask    *)
(* overloads and validateMemoryBarrier.  A bitmask is the set of its named *)
(* bits.  The composite masks (ALL_TRANSFER_BITS, ...) are defined in     *)
(* asset headers outside this tree and are constants here.                *)
(***************************************************************************)
EXTENDS Integers, FiniteSets, Sequences

CONSTANTS
    NumFamilies,        \* MaxQueueFamilies
    QueueCounts,        \* queue counts a creation request may ask per family
    Features,           \* the feature flags the constructor reads
    \* composite stage masks
    ALL_COMMANDS_BITS, ALL_TRANSFER_BITS, ALL_GRAPHICS_BITS,
    PRE_RASTERIZATION_SHADERS_BITS, VERTEX_INPUT_BITS, FRAMEBUFFER_SPACE_BITS,
    \* composite access masks
    MEMORY_READ_BITS, MEMORY_WRITE_BITS, SHADER_READ_BITS, SHADER_WRITE_BITS,
    TestStageMasks,     \* stage masks the client may pass
    TestAccessMasks,    \* access masks the client may pass
    NULL                \* device not created yet

Families == 0 .. NumFamilies - 1
FamilyFlags == {"GRAPHICS_BIT", "COMPUTE_BIT", "TRANSFER_BIT"}

\* Queue-family properties and creation parameters of one request.
Requests == [props : [Families -> SUBSET FamilyFlags],
             counts : [Families -> QueueCounts],
             features : SUBSET Features]

VARIABLES
    request,   \* the SCreationParams and physical device the device was built from
    infos,     \* m_queueFamilyInfos, NULL before construction
    queues     \* size of m_queues

vars == <<request, infos, queues>>

-----------------------------------------------------------------------------
(* The constructor (lines 61-160).                                        *)

TransferStages   == {"COPY_BIT", "CLEAR_BIT", "RESOLVE_BIT", "BLIT_BIT"}
TransferAccesses == {"TRANSFER_READ_BIT", "TRANSFER_WRITE_BIT"}

\* computeAndGraphicsStages / computeAndGraphicsAccesses, with the
\* feature-dependent additions.
CGStages(f) ==
    TransferStages \cup {"DISPATCH_INDIRECT_COMMAND_BIT"}
    \cup (IF "deviceGeneratedCommands" \in f THEN {"COMMAND_PREPROCESS_BIT"} ELSE {})
    \cup (IF "conditionalRendering" \in f THEN {"CONDITIONAL_RENDERING_BIT"} ELSE {})
CGAccesses(f) ==
    TransferAccesses \cup {"INDIRECT_COMMAND_READ_BIT", "UNIFORM_READ_BIT",
        "STORAGE_READ_BIT", "STORAGE_WRITE_BIT", "SAMPLED_READ_BIT"}
    \cup (IF "deviceGeneratedCommands" \in f
          THEN {"COMMAND_PREPROCESS_READ_BIT", "COMMAND_PREPROCESS_WRITE_BIT"} ELSE {})
    \cup (IF "conditionalRendering" \in f THEN {"CONDITIONAL_RENDERING_READ_BIT"} ELSE {})

AS_ACCESSES == {"ACCELERATION_STRUCTURE_READ_BIT", "ACCELERATION_STRUCTURE_WRITE_BIT"}

\* The three family branches of the constructor.
ComputeStages(f) ==
    CGStages(f) \cup {"COMPUTE_SHADER_BIT"}
    \cup (IF "accelerationStructure" \in f
          THEN {"ACCELERATION_STRUCTURE_COPY_BIT", "ACCELERATION_STRUCTURE_BUILD_BIT"} ELSE {})
    \cup (IF "rayTracingPipeline" \in f THEN {"RAY_TRACING_SHADER_BIT"} ELSE {})
ComputeAccesses(f) ==
    CGAccesses(f)
    \cup (IF "accelerationStructure" \in f THEN AS_ACCESSES ELSE {})
    \cup (IF "rayTracingPipeline" \in f THEN {"SHADER_BINDING_TABLE_READ_BIT"} ELSE {})
GraphicsStages(f) ==
    CGStages(f) \cup VERTEX_INPUT_BITS \cup {"VERTEX_SHADER_BIT"} \cup FRAMEBUFFER_SPACE_BITS
    \cup (IF "tessellationShader" \in f
          THEN {"TESSELLATION_CONTROL_SHADER_BIT", "TESSELLATION_EVALUATION_SHADER_BIT"} ELSE {})
    \cup (IF "geometryShader" \in f THEN {"GEOMETRY_SHADER_BIT"} ELSE {})
    \cup (IF "fragmentDensityMap" \in f THEN {"FRAGMENT_DENSITY_PROCESS_BIT"} ELSE {})
\* Faulty variant of GraphicsAccesses: the framebuffer-space stages of line
\* 141 are or-ed into the access mask instead of the stage mask.
GraphicsAccessesFramebufferStages(f) ==
    CGAccesses(f) \cup FRAMEBUFFER_SPACE_BITS \cup {"INDEX_READ_BIT", "VERTEX_ATTRIBUTE_READ_BIT",
        "DEPTH_STENCIL_ATTACHMENT_READ_BIT", "DEPTH_STENCIL_ATTACHMENT_WRITE_BIT",
        "INPUT_ATTACHMENT_READ_BIT", "COLOR_ATTACHMENT_READ_BIT", "COLOR_ATTACHMENT_WRITE_BIT"}
    \cup (IF "fragmentDensityMap" \in f THEN {"FRAGMENT_DENSITY_MAP_READ_BIT"} ELSE {})
GraphicsAccesses(f) ==
    CGAccesses(f) \cup {"INDEX_READ_BIT", "VERTEX_ATTRIBUTE_READ_BIT",
        "DEPTH_STENCIL_ATTACHMENT_READ_BIT", "DEPTH_STENCIL_ATTACHMENT_WRITE_BIT",
        "INPUT_ATTACHMENT_READ_BIT", "COLOR_ATTACHMENT_READ_BIT", "COLOR_ATTACHMENT_WRITE_BIT"}
    \cup (IF "fragmentDensityMap" \in f THEN {"FRAGMENT_DENSITY_MAP_READ_BIT"} ELSE {})
\* Faulty variant of TransferFamilyStages: the acceleration-structure copy
\* stage is left out while its accesses are still granted.
TransferFamilyStagesNoASCopy(f) == TransferStages

TransferFamilyStages(f) ==
    TransferStages
    \cup (IF "accelerationStructure" \in f THEN {"ACCELERATION_STRUCTURE_COPY_BIT"} ELSE {})
TransferFamilyAccesses(f) ==
    TransferAccesses \cup (IF "accelerationStructure" \in f THEN AS_ACCESSES ELSE {})

\* One family's QueueFamilyInfo masks: empty for a family without queues.
SupportedStages(flags, n, f) ==
    IF n = 0 THEN {}
    ELSE {"HOST_BIT"}
         \cup (IF "COMPUTE_BIT" \in flags THEN ComputeStages(f) ELSE {})
         \cup (IF "GRAPHICS_BIT" \in flags THEN GraphicsStages(f) ELSE {})
         \cup (IF "TRANSFER_BIT" \in flags THEN TransferFamilyStages(f) ELSE {})
SupportedAccesses(flags, n, f) ==
    IF n = 0 THEN {}
    ELSE {"HOST_READ_BIT", "HOST_WRITE_BIT"}
         \cup (IF "COMPUTE_BIT" \in flags THEN ComputeAccesses(f) ELSE {})
         \cup (IF "GRAPHICS_BIT" \in flags THEN GraphicsAccesses(f) ELSE {})
         \cup (IF "TRANSFER_BIT" \in flags THEN TransferFamilyAccesses(f) ELSE {})

\* Faulty variant of FirstQueueIndex: the previous family's own first index
\* is not carried over.
FirstQueueIndexNoCarry(counts, i) ==
    IF i = 0 THEN 0 ELSE counts[i - 1]

\* firstQueueIndex: the previous family's first index plus its count.
RECURSIVE FirstQueueIndex(_, _)
FirstQueueIndex(counts, i) ==
    IF i = 0 THEN 0 ELSE FirstQueueIndex(counts, i - 1) + counts[i - 1]

RECURSIVE SumCounts(_, _)
SumCounts(counts, i) == IF i = 0 THEN 0 ELSE SumCounts(counts, i - 1) + counts[i - 1]

Init ==
    /\ request = NULL
    /\ infos = NULL
    /\ queues = 0

\* ILogicalDevice::ILogicalDevice: size m_queues by the total queue count,
\* then fill every family's info in index order.
CreateLogicalDevice(r) ==
    /\ infos = NULL
    /\ request' = r
    /\ queues' = SumCounts(r.counts, NumFamilies)
    /\ infos' = [i \in Families |->
                   [supportedStages   |-> SupportedStages(r.props[i], r.counts[i], r.features),
                    supportedAccesses |-> SupportedAccesses(r.props[i], r.counts[i], r.features),
                    queueCount        |-> r.counts[i],
                    firstQueueIndex   |-> FirstQueueIndex(r.counts, i)]]

\* The queue family infos are immutable after construction (section 3), so
\* construction is the only step.
Next == infos = NULL /\ \E r \in Requests : CreateLogicalDevice(r)

Spec == Init /\ [][Next]_vars

-----------------------------------------------------------------------------
(* Queries on the constructed device (lines 172-299).                     *)

\* supportsMask(queueFamilyIndex, stageMask): umbrella stage masks are
\* stripped when the family can run them, then the rest must be supported.
SupportsStageMask(i, m) ==
    LET props == request.props[i]
        m1 == IF ALL_TRANSFER_BITS \subseteq m /\ props # {} THEN m \ ALL_TRANSFER_BITS ELSE m
        m2 == IF "GRAPHICS_BIT" \in props /\ ALL_GRAPHICS_BITS \subseteq m1
              THEN m1 \ ALL_GRAPHICS_BITS ELSE m1
        m3 == IF "GRAPHICS_BIT" \in props /\ PRE_RASTERIZATION_SHADERS_BITS \subseteq m2
              THEN m2 \ PRE_RASTERIZATION_SHADERS_BITS ELSE m2
    IN  /\ infos[i].queueCount # 0
        /\ ALL_COMMANDS_BITS \subseteq m \/ m3 \subseteq infos[i].supportedStages

\* supportsMask(queueFamilyIndex, accessMask).
SupportsAccessMask(i, m) ==
    LET shaderCapable == request.props[i] \cap {"COMPUTE_BIT", "GRAPHICS_BIT"} # {}
        m1 == IF MEMORY_READ_BITS \subseteq m THEN m \ MEMORY_READ_BITS
              ELSE IF SHADER_READ_BITS \subseteq m /\ shaderCapable THEN m \ SHADER_READ_BITS
              ELSE m
        m2 == IF MEMORY_WRITE_BITS \subseteq m1 THEN m1 \ MEMORY_WRITE_BITS
              ELSE IF SHADER_WRITE_BITS \subseteq m1 /\ shaderCapable THEN m1 \ SHADER_WRITE_BITS
              ELSE m1
    IN  infos[i].queueCount # 0 /\ m2 \subseteq infos[i].supportedAccesses

\* validateMemoryBarrier: the four masks must be supported; the validAccess
\* lambda is defined but never called, so nothing else is checked.
ValidateMemoryBarrier(i, b) ==
    /\ SupportsStageMask(i, b.srcStageMask) /\ SupportsStageMask(i, b.dstStageMask)
    /\ SupportsAccessMask(i, b.srcAccessMask) /\ SupportsAccessMask(i, b.dstAccessMask)

Barriers == [srcStageMask : TestStageMasks, srcAccessMask : TestAccessMasks,
             dstStageMask : TestStageMasks, dstAccessMask : TestAccessMasks]

-----------------------------------------------------------------------------
(* Properties.                                                             *)

\* Stage masks hold stage bits and access masks access bits.
Info == [supportedStages : SUBSET ALL_COMMANDS_BITS,
         supportedAccesses : SUBSET (MEMORY_READ_BITS \cup MEMORY_WRITE_BITS),
         queueCount : QueueCounts, firstQueueIndex : Nat]

\* Types: each family's masks are made of bits of the right enumeration.
TypeOK ==
    /\ request \in Requests \cup {NULL}
    /\ infos = NULL \/ infos \in [Families -> Info]
    /\ queues \in Nat

\* getQueue(family, index) reads m_queues[firstQueueIndex + index]: the
\* families' queue slots, laid out by the constructor's prefix sum, are
\* distinct and fill m_queues exactly, so no two families share a queue
\* object and no index runs past the array sized from the same counts.
QueueRangesTile ==
    infos # NULL =>
        LET Slots == {<<i, q>> : i \in Families, q \in 0 .. queues}
            Used  == {sq \in Slots : sq[2] < infos[sq[1]].queueCount}
            slot(sq) == infos[sq[1]].firstQueueIndex + sq[2]
        IN  /\ {slot(sq) : sq \in Used} = 0 .. queues - 1
            /\ \A a, b \in Used : slot(a) = slot(b) => a = b

\* The pipeline stages in which Vulkan allows each access type (the
\* "supported access types" table of the Vulkan specification), for the
\* accesses the constructor grants.
ShaderStages == {"COMPUTE_SHADER_BIT", "VERTEX_SHADER_BIT", "TESSELLATION_CONTROL_SHADER_BIT",
                 "TESSELLATION_EVALUATION_SHADER_BIT", "GEOMETRY_SHADER_BIT",
                 "FRAGMENT_SHADER_BIT", "RAY_TRACING_SHADER_BIT"}
AccessStages(a) ==
    CASE a \in {"HOST_READ_BIT", "HOST_WRITE_BIT"} -> {"HOST_BIT"}
      [] a \in TransferAccesses ->
            TransferStages \cup {"ACCELERATION_STRUCTURE_BUILD_BIT", "ACCELERATION_STRUCTURE_COPY_BIT"}
      [] a = "INDIRECT_COMMAND_READ_BIT" ->
            {"DISPATCH_INDIRECT_COMMAND_BIT", "ACCELERATION_STRUCTURE_BUILD_BIT"}
      [] a \in {"UNIFORM_READ_BIT", "STORAGE_READ_BIT", "STORAGE_WRITE_BIT", "SAMPLED_READ_BIT"} ->
            ShaderStages
      [] a \in {"COMMAND_PREPROCESS_READ_BIT", "COMMAND_PREPROCESS_WRITE_BIT"} ->
            {"COMMAND_PREPROCESS_BIT"}
      [] a = "CONDITIONAL_RENDERING_READ_BIT" -> {"CONDITIONAL_RENDERING_BIT"}
      [] a = "ACCELERATION_STRUCTURE_READ_BIT" ->
            ShaderStages \cup {"ACCELERATION_STRUCTURE_BUILD_BIT", "ACCELERATION_STRUCTURE_COPY_BIT"}
      [] a = "ACCELERATION_STRUCTURE_WRITE_BIT" ->
            {"ACCELERATION_STRUCTURE_BUILD_BIT", "ACCELERATION_STRUCTURE_COPY_BIT"}
      [] a = "SHADER_BINDING_TABLE_READ_BIT" -> {"RAY_TRACING_SHADER_BIT"}
      [] a = "INDEX_READ_BIT" -> {"INDEX_INPUT_BIT"}
      [] a = "VERTEX_ATTRIBUTE_READ_BIT" -> {"VERTEX_ATTRIBUTE_INPUT_BIT"}
      [] a \in {"DEPTH_STENCIL_ATTACHMENT_READ_BIT", "DEPTH_STENCIL_ATTACHMENT_WRITE_BIT"} ->
            {"EARLY_FRAGMENT_TESTS_BIT", "LATE_FRAGMENT_TESTS_BIT"}
      [] a = "INPUT_ATTACHMENT_READ_BIT" -> {"FRAGMENT_SHADER_BIT"}
      [] a \in {"COLOR_ATTACHMENT_READ_BIT", "COLOR_ATTACHMENT_WRITE_BIT"} ->
            {"COLOR_ATTACHMENT_OUTPUT_BIT"}
      [] a = "FRAGMENT_DENSITY_MAP_READ_BIT" -> {"FRAGMENT_DENSITY_PROCESS_BIT"}
      [] OTHER -> {}

\* Every access type a queue family is said to support can occur in some
\* stage the family supports, for every combination of family flags and
\* enabled features: a barrier validated with supportsMask never names an
\* access the family could only perform in a stage it lacks.
AccessHasStage ==
    infos # NULL =>
        \A i \in Families : \A a \in infos[i].supportedAccesses :
            AccessStages(a) \cap infos[i].supportedStages # {}

\* Scenario 5 of section 8 (and the code's own validAccess lambda): a
\* barrier whose access mask includes a host access but whose stage mask
\* lacks HOST_BIT is rejected by validateMemoryBarrier.
HostAccessNeedsHostStage ==
    infos # NULL =>
        \A i \in Families, b \in Barriers :
            ValidateMemoryBarrier(i, b) =>
                /\ b.srcAccessMask \cap {"HOST_READ_BIT", "HOST_WRITE_BIT"} # {}
                       => "HOST_BIT" \in b.srcStageMask
                /\ b.dstAccessMask \cap {"HOST_READ_BIT", "HOST_WRITE_BIT"} # {}
                       => "HOST_BIT" \in b.dstStageMask

=============================================================================
