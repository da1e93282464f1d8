--------------------------- MODULE MCLogicalDevice ---------------------------
(* Model-checking instance of the video layer's calls: a behaviour is the  *)
(* device's construction, one createDescriptorSetLayout call, one          *)
(* updateDescriptorSets / nullifyDescriptors call, a renderpass and one    *)
(* pipeline-creation call (module Pipelines, through MCPipelines), chosen *)
(* by `call` at Init.  No call reads another's state, so the disjoint      *)
(* union checks each over exactly the inputs its own model enumerates.    *)
(* The update side runs on two sets of this device whose layouts cover    *)
(* the four descriptor categories and a binding number s2 does not have,  *)
(* and one foreign set.                                                   *)
EXTENDS Integers, TLC, MCAssetFlags, MCPipelines

CONSTANTS
    BindingNrs, Counts, MaxBindings, MaxDynSSBOs, MaxDynUBOs,
    Bindings, Values, EMPTY, MaxWrites, MaxCopies, MaxDrops,
    s1, s2, sx, v1,
    Sets, Foreign, Layout, WriteTypes,
    NumFamilies, QueueCounts, Features,
    ALL_COMMANDS_BITS, ALL_TRANSFER_BITS, ALL_GRAPHICS_BITS,
    PRE_RASTERIZATION_SHADERS_BITS, VERTEX_INPUT_BITS, FRAMEBUFFER_SPACE_BITS,
    MEMORY_READ_BITS, MEMORY_WRITE_BITS, SHADER_READ_BITS, SHADER_WRITE_BITS,
    TestStageMasks, TestAccessMasks

VARIABLES
    call,                           \* "device", "layout", "update" or "pipelines"
    request, infos, queues,         \* DeviceCapability
    input, result,                  \* DescriptorSetLayout
    desc, uRet, uBatch, implParams, \* DescriptorUpdate
    uStep, uCursor, uParams, uBefore

dvars == <<request, infos, queues>>
lvars == <<input, result>>
uvars == <<desc, uRet, uBatch, implParams, uStep, uCursor, uParams, uBefore>>
allVars == <<call, dvars, lvars, uvars, pvars>>

MCSets    == {s1, s2, sx}
MCForeign == {sx}
MCLayout  == [s \in MCSets |->
                IF s = s2
                THEN (1 :> "ACCELERATION_STRUCTURE" @@ 2 :> "ET_COUNT" @@ 3 :> "UNIFORM_BUFFER")
                ELSE (1 :> "UNIFORM_BUFFER" @@ 2 :> "SAMPLER" @@ 3 :> "UNIFORM_TEXEL_BUFFER")]
MCWriteTypes == {"UNIFORM_BUFFER", "SAMPLER", "ACCELERATION_STRUCTURE", "UNIFORM_TEXEL_BUFFER"}

D == INSTANCE DeviceCapability
L == INSTANCE DescriptorSetLayout
U == INSTANCE DescriptorUpdate WITH ret <- uRet, batch <- uBatch, step <- uStep,
                                   cursor <- uCursor, params <- uParams, before <- uBefore

Calls == {"device", "layout", "update", "pipelines"}

\* The device features of the pipeline calls are chosen only when they run,
\* so that the other calls keep one initial state.
DeviceInit ==
    /\ call \in Calls
    /\ D!Init /\ L!Init /\ U!Init /\ PInit
    /\ call # "pipelines" => features = {}

DeviceNext ==
    \/ call = "device" /\ D!Next /\ UNCHANGED <<call, lvars, uvars, pvars>>
    \/ call = "layout" /\ L!Next /\ UNCHANGED <<call, dvars, uvars, pvars>>
    \/ call = "update" /\ U!Next /\ UNCHANGED <<call, dvars, lvars, pvars>>
    \/ call = "pipelines" /\ PNext /\ UNCHANGED <<call, dvars, lvars, uvars>>

DeviceSpec == DeviceInit /\ [][DeviceNext]_allVars

-----------------------------------------------------------------------------
(* The properties of the modules, restated over this instance (those of   *)
(* Pipelines come with EXTENDS MCPipelines).                               *)

\* The state of the call a behaviour makes has its type (the others stay
\* at their initial states).
VideoTypeOK ==
    /\ call \in Calls
    /\ call = "device" => D!TypeOK
    /\ call = "layout" => L!TypeOK
    /\ call = "update" => U!TypeOK
    /\ call = "pipelines" => PTypeOK

\* Every access type the constructor grants a queue family can occur in a
\* stage it grants the family, for every family flag and feature set.
AccessHasStage == D!AccessHasStage

\* The constructor's firstQueueIndex prefix sum gives the families
\* disjoint queue ranges that exactly fill m_queues.
QueueRangesTile == D!QueueRangesTile

\* createDescriptorSetLayout returns null exactly for the binding lists the
\* layout contract forbids, whatever order the bindings come in.
NullIffInvalid == L!NullIffInvalid

\* A successful updateDescriptorSets / nullifyDescriptors hands the backend
\* one pWriteTypes entry per write, in the write's position, and
\* per-category counts equal to the entries of each category.
BackendParamsMatch == U!BackendParamsMatch

\* An update or drop call that returns false leaves every set as it was
\* when the call started and never reaches the backend, also when the bad
\* entry comes after entries that validated (no partial mutation).
AllOrNothing == U!AllOrNothing

=============================================================================
