---------------------------- MODULE GraphicsPipeline ----------------------------
(***************************************************************************)
(* createRenderpass composed with ILogicalDevice::createGraphicsPipelines  *)
(* (src/nbl/video/ILogicalDevice.cpp).  A client creates one renderpass,   *)
(* then a batch of graphics pipelines that name a subpass of it (or a      *)
(* renderpass of another device).  The batch is validated entry by entry,  *)
(* any failure returning false for the whole call; each valid entry's     *)
(* shaders go through its own SpirvTrimTask; the backend may still fail    *)
(* to create any entry.                                                   *)
(***************************************************************************)
EXTENDS Renderpass

CONSTANTS
    Shaders, Entries,       \* shader modules and entry point names
    GraphicsParams,         \* IGPUGraphicsPipeline::SCreationParams the client may pass
    BlendFormats,           \* formats whose optimal-tiling usages include attachmentBlend
    DeviceFeatures,         \* features a device may enable, among mixedAttachmentSamples,
                            \* alphaToOne, depthBounds and tessellationShader
    MaxBatch,               \* bound: entries of one createGraphicsPipelines call
    None                    \* a call not made yet

ST == INSTANCE SpirvTrimTask

VARIABLES
    rpInput,        \* parameters of the createRenderpass call
    rp,             \* its result: NULL or the renderpass
    batch,          \* parameters of the createGraphicsPipelines call
    backendFailed,  \* entries createGraphicsPipelines_impl failed to create
    output,         \* the output array
    ret,            \* the call's return value
    trims           \* trimmer calls the call made

vars == <<features, rpInput, rp, batch, backendFailed, output, ret, trims>>

-----------------------------------------------------------------------------

\* The five stages in the order insertEntryPoint and trim visit them.
StageList(p) == << <<p.vertex, "VERTEX">>, <<p.tessControl, "TESS_CONTROL">>,
                   <<p.tessEval, "TESS_EVAL">>, <<p.geometry, "GEOMETRY">>,
                   <<p.fragment, "FRAGMENT">> >>

\* Faulty variant of TrimPipeline: each stage is trimmed right after its
\* entry point is inserted.
TrimPipelineInterleaved(p) ==
    FoldLeft(LAMBDA acc, ss :
                 LET r == ST!Trim(ST!InsertEntryPoint(acc[1], ss[1], ss[2]), ss[1])
                 IN  <<r[1], Append(acc[2], r[2])>>,
             <<ST!EmptyTask, << >>>>, StageList(p))

\* One pipeline's SpirvTrimTask: insert all five entry points, then trim
\* the five stages.  <<task, trimmed specs>>.
TrimPipeline(p) == ST!TrimEach(ST!InsertAll(ST!EmptyTask, StageList(p)), StageList(p))

\* commonCreatePipelines: the specialization constants of every entry.
SpecConstantsValid(b) == \A i \in DOMAIN b : b[i].specValid

\* The subpass entry i renders into (the renderpass is the client's own).
SubpassOf(p) == rp.subpasses[p.subpassIx]

\* The loop body of lines 861-970: any condition makes the call return false.
EntryInvalid(p) ==
    \/ p.tessControl.shader # NULL
    \/ p.tessEval.shader # NULL
    \/ p.geometry.shader # NULL
    \/ p.renderpass # "own"
    \/ p.alphaToOne /\ "alphaToOne" \notin features
    \/ p.depthBounds /\ "depthBounds" \notin features
    \/ LET sp == SubpassOf(p) IN
       \/ sp.viewMask # 0 /\ FindMSB(sp.viewMask) > MaxMultiviewViewCount
       \/ /\ sp.depth # 0
          /\ ~MixedAttachmentSamples \/ p.depthTest \/ p.stencilTest \/ p.depthBounds
          /\ rp.depthAtts[sp.depth].samples # p.samples
       \/ \E j \in 0 .. ColorSlots - 1 :
            /\ sp.colors[j] # 0
            /\ LET a == rp.colorAtts[sp.colors[j]] IN
               \/ p.blend[j] /\ a.format \notin BlendFormats
               \/ ~MixedAttachmentSamples /\ a.samples # p.samples
               \/ a.samples > p.samples

\* The index of the first entry the loop rejects, or Len(b) + 1.
FirstInvalid(b) ==
    LET bad == {i \in DOMAIN b : EntryInvalid(b[i])}
    IN  IF bad = {} THEN Len(b) + 1 ELSE CHOOSE i \in bad : \A k \in bad : i <= k

\* A created pipeline: its parameters, renderpass and trimmed stages.
Pipeline(p) == [params |-> p, renderpass |-> rp, trimmed |-> TrimPipeline(p)[2]]

Init ==
    /\ features \in SUBSET DeviceFeatures
    /\ rpInput = None /\ rp = None
    /\ batch = << >> /\ backendFailed = {}
    /\ output = << >> /\ ret = None /\ trims = 0

\* ILogicalDevice::createRenderpass.
CreateRenderpass(r) ==
    /\ rpInput = None
    /\ rpInput' = r
    /\ rp' = CreateRenderpassResult(r)
    /\ UNCHANGED <<features, batch, backendFailed, output, ret, trims>>

\* ILogicalDevice::createGraphicsPipelines with the renderpass just created.
\* The outputs are nulled first; on a validation failure the call returns
\* false having trimmed only the entries before the failing one; otherwise
\* the backend creates every entry not in `failed` and the call returns
\* false at the first null output.
CreateGraphicsPipelines(b, failed) ==
    /\ rp \notin {None, NULL} /\ ret = None
    /\ \A i \in DOMAIN b : b[i].subpassIx \in DOMAIN rp.subpasses
    /\ batch' = b
    /\ LET valid == SpecConstantsValid(b) /\ FirstInvalid(b) > Len(b)
           tried == IF SpecConstantsValid(b) THEN SubSeq(b, 1, FirstInvalid(b) - 1) ELSE << >>
       IN  /\ backendFailed' = IF valid THEN failed ELSE {}
           /\ output' = [i \in DOMAIN b |->
                           IF valid /\ i \notin failed THEN Pipeline(b[i]) ELSE NULL]
           /\ ret' = (valid /\ failed = {})
           /\ trims' = FoldLeft(LAMBDA n, p : n + TrimPipeline(p)[1].trims, 0, tried)
    /\ UNCHANGED <<features, rpInput, rp>>

Batches == UNION {[1 .. n -> GraphicsParams] : n \in 1 .. MaxBatch}

Next ==
    \/ rpInput = None /\ \E r \in RenderpassParams : CreateRenderpass(r)
    \/ rp \notin {None, NULL} /\ ret = None
       /\ \E b \in Batches : \E failed \in SUBSET DOMAIN b : CreateGraphicsPipelines(b, failed)

Spec == Init /\ [][Next]_vars

-----------------------------------------------------------------------------
(* Properties.                                                             *)

Results == {None, NULL} \cup RenderpassParams

\* Types; the output array has one slot per entry of the call.
TypeOK ==
    /\ features \subseteq DeviceFeatures
    /\ rpInput \in {None} \cup RenderpassParams
    /\ rp \in Results
    /\ batch \in {<< >>} \cup Batches
    /\ backendFailed \subseteq DOMAIN batch
    /\ DOMAIN output = DOMAIN batch
    /\ ret \in {None, TRUE, FALSE}
    /\ trims \in 0 .. MaxBatch * 5

\* The renderpass contract (data model and section 4.5, with the Vulkan
\* rules the code cites): stated over attachments and subpasses as sets.
ViewIndices(m) == {k \in 0 .. 30 : (m \div (2 ^ k)) % 2 = 1}
UsedColors(r, sp) == {r.colorAtts[sp.colors[j]] : j \in {j \in 0 .. ColorSlots - 1 : sp.colors[j] # 0}}
UsedSamples(r, sp) ==
    {a.samples : a \in UsedColors(r, sp)}
    \cup (IF sp.depth # 0 THEN {r.depthAtts[sp.depth].samples} ELSE {})

RefRenderpassInvalid(r) ==
    \/ \E i \in DOMAIN r.colorAtts : r.colorAtts[i].format \notin AttachmentFormats
    \/ \E i \in DOMAIN r.depthAtts : r.depthAtts[i].format \notin AttachmentFormats
    \/ \E i \in DOMAIN r.subpasses : LET sp == r.subpasses[i] IN
         \/ /\ sp.depth # 0 /\ sp.resolve # 0
            /\ \/ r.depthAtts[sp.resolve].format \notin StencilOnlyFormats
                  /\ sp.depthMode \notin SupportedDepthResolveModes \cup {"NONE"}
               \/ r.depthAtts[sp.resolve].format \notin DepthOnlyFormats
                  /\ sp.stencilMode \notin SupportedStencilResolveModes \cup {"NONE"}
         \/ \E j \in 0 .. ColorSlots - 1 : j >= MaxColorAttachments /\ sp.colors[j] # 0
         \/ ~MixedAttachmentSamples /\ Cardinality(UsedSamples(r, sp)) > 1
         \/ /\ MixedAttachmentSamples /\ sp.depth # 0
            /\ \E a \in UsedColors(r, sp) : a.samples > r.depthAtts[sp.depth].samples
         \/ \E k \in ViewIndices(sp.viewMask) : k >= MaxMultiviewViewCount

\* createRenderpass returns null exactly for the renderpasses the contract
\* forbids; in particular a view mask whose highest bit index equals
\* maxMultiviewViewCount is refused (the section 8 boundary), and the
\* running samplesForAllColor, seeded from the depth attachment or the first
\* used colour, enforces that all attachments of a subpass agree.
RenderpassNullIffInvalid ==
    rpInput # None => ((rp = NULL) <=> RefRenderpassInvalid(rpInput))

\* The trimmed module each stage of a created pipeline receives still has
\* that stage's entry point, also when several stages share one module and
\* the module is trimmed once for all of them.
TrimmedKeepsEntryPoints ==
    \A i \in DOMAIN output : output[i] # NULL =>
        \A s \in 1 .. 5 :
            LET spec == StageList(output[i].params)[s]
            IN  spec[1].shader # NULL =>
                    <<spec[1].entry, spec[2]>> \in output[i].trimmed[s].shader

\* Section 4.4's per-pipeline checks: as the code's, except that
\* tessellation and geometry stages need only their features.
SpecEntryInvalid(p) ==
    \/ EntryInvalid([p EXCEPT !.tessControl.shader = NULL, !.tessEval.shader = NULL,
                               !.geometry.shader = NULL])
    \/ (p.tessControl.shader # NULL \/ p.tessEval.shader # NULL)
          /\ "tessellationShader" \notin features
    \/ p.geometry.shader # NULL /\ "geometryShader" \notin features

\* Section 4.4's result contract: per-entry outcomes are independent, so an
\* entry that passes the per-pipeline checks, in a batch whose
\* specialization constants are valid, gets a pipeline unless the backend
\* fails to create it, whatever the other entries of the batch are.
ResultContract ==
    ret # None =>
        \A i \in DOMAIN batch :
            /\ SpecConstantsValid(batch) /\ ~SpecEntryInvalid(batch[i])
            /\ i \notin backendFailed
            => output[i] # NULL

=============================================================================
