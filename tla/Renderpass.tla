------------------------------ MODULE Renderpass ------------------------------
(***************************************************************************)
(* ILogicalDevice::createRenderpass (src/nbl/video/ILogicalDevice.cpp):    *)
(* the attachment format check, then per subpass the depth/stencil resolve *)
(* modes, colour slots past maxColorAttachments, the sample-count rules    *)
(* and the view mask bound.  A renderpass is abstracted to its attachment  *)
(* formats and sample counts and one record per subpass; every early       *)
(* return yields nullptr, so the result is a disjunction of the checks.   *)
(***************************************************************************)
EXTENDS Integers, Sequences, SequencesExt, FiniteSets

CONSTANTS
    ColorFormats,           \* formats a colour attachment may have
    DepthFormats,           \* formats a depth/stencil attachment may have
    AttachmentFormats,      \* formats whose optimal-tiling usages include attachment
    StencilOnlyFormats,     \* asset::isStencilOnlyFormat
    DepthOnlyFormats,       \* asset::isDepthOnlyFormat
    SampleCounts,           \* E_SAMPLE_COUNT_FLAGS values used (at most 64)
    ViewMasks,              \* subpass view masks used
    ResolveModes,           \* resolve modes a subpass may request
    SupportedDepthResolveModes,    \* limits.supportedDepthResolveModes
    SupportedStencilResolveModes,  \* limits.supportedStencilResolveModes
    MaxColorAttachments,    \* limits.maxColorAttachments
    ColorSlots,             \* SSubpassDescription::MaxColorAttachments
    MaxMultiviewViewCount,  \* limits.maxMultiviewViewCount
    MaxColorAtts,           \* bound: colour attachments of one renderpass
    MaxDepthAtts,           \* bound: depth/stencil attachments of one renderpass
    MaxSubpasses,           \* bound: subpasses of one renderpass
    NULL

VARIABLE features          \* the device's enabled features (getEnabledFeatures())

MixedAttachmentSamples == "mixedAttachmentSamples" \in features

\* E_SAMPLE_COUNT_FLAGS(128): the "no depth attachment" sentinel.
NoDepthSamples == 128

SeqsUpTo(S, n) == UNION {[1 .. k -> S] : k \in 1 .. n} \cup {<< >>}

\* An attachment reference is an index into the attachment list, 0 standing
\* for ATTACHMENT_UNUSED.
Subpasses(nc, nd) ==
    [colors : [0 .. ColorSlots - 1 -> 0 .. nc], depth : 0 .. nd, resolve : 0 .. nd,
     depthMode : ResolveModes, stencilMode : ResolveModes, viewMask : ViewMasks]

RenderpassParams ==
    UNION {[colorAtts : {ca}, depthAtts : {da},
            subpasses : [1 .. 1 -> Subpasses(Len(ca), Len(da))]
                        \cup (IF MaxSubpasses > 1
                              THEN [1 .. 2 -> Subpasses(Len(ca), Len(da))] ELSE {})] :
           ca \in SeqsUpTo([format : ColorFormats, samples : SampleCounts], MaxColorAtts),
           da \in SeqsUpTo([format : DepthFormats, samples : SampleCounts], MaxDepthAtts)}

-----------------------------------------------------------------------------
(* The checks, in the order of the code.                                  *)

\* hlsl::findMSB: index of the highest set bit, -1 for zero.
RECURSIVE FindMSB(_)
FindMSB(x) == IF x = 0 THEN -1 ELSE 1 + FindMSB(x \div 2)

\* The invalidAttachment lambda: the format lacks the attachment usage.
InvalidAttachment(a) == a.format \notin AttachmentFormats

\* core::bitflag::hasFlags: NONE (no bit) is always contained.
ModeSupported(m, S) == m = "NONE" \/ m \in S

\* The depth/stencil resolve check of a subpass whose depth render
\* attachment is used and which has a resolve attachment.
BadResolve(rp, sp) ==
    /\ sp.depth # 0 /\ sp.resolve # 0
    /\ LET fmt == rp.depthAtts[sp.resolve].format
       IN  \/ fmt \notin StencilOnlyFormats
                 /\ ~ModeSupported(sp.depthMode, SupportedDepthResolveModes)
           \/ fmt \notin DepthOnlyFormats
                 /\ ~ModeSupported(sp.stencilMode, SupportedStencilResolveModes)

\* A colour slot at or past maxColorAttachments is used.
ColorPastLimit(sp) == \E j \in MaxColorAttachments .. ColorSlots - 1 : sp.colors[j] # 0

DepthSamples(rp, sp) ==
    IF sp.depth # 0 THEN rp.depthAtts[sp.depth].samples ELSE NoDepthSamples

\* One iteration of the colour sample loop: an unused slot is skipped, the
\* first used one seeds samplesForAllColor if still 0; with mixed samples a
\* colour may not exceed the depth samples, otherwise it must equal the rest.
\* Faulty variant of SampleStep: with mixed samples the colour is not
\* compared with the depth attachment.
SampleStepMixedNoCheck(rp, sp, acc, j) ==
    IF acc.err \/ sp.colors[j] = 0 THEN acc
    ELSE LET s   == rp.colorAtts[sp.colors[j]].samples
             all == IF acc.all = 0 THEN s ELSE acc.all
         IN  [err |-> IF MixedAttachmentSamples THEN FALSE ELSE s # all, all |-> all]

SampleStep(rp, sp, acc, j) ==
    IF acc.err \/ sp.colors[j] = 0 THEN acc
    ELSE LET s   == rp.colorAtts[sp.colors[j]].samples
             all == IF acc.all = 0 THEN s ELSE acc.all
         IN  [err |-> IF MixedAttachmentSamples THEN s > DepthSamples(rp, sp)
                      ELSE s # all,
              all |-> all]

SampleInit(rp, sp) ==
    [err |-> FALSE,
     all |-> IF DepthSamples(rp, sp) > 64 \/ MixedAttachmentSamples
             THEN 0 ELSE DepthSamples(rp, sp)]

Slots(n) == [i \in 1 .. n |-> i - 1]

BadSamples(rp, sp) ==
    FoldLeft(LAMBDA acc, j : SampleStep(rp, sp, acc, j), SampleInit(rp, sp), Slots(MaxColorAttachments)).err

\* viewMask's highest view index reaches maxMultiviewViewCount.
BadViewMask(sp) == FindMSB(sp.viewMask) >= MaxMultiviewViewCount

\* The per-subpass loop body of lines 678-767.
SubpassInvalid(rp, sp) ==
    \/ BadResolve(rp, sp)
    \/ ColorPastLimit(sp)
    \/ BadSamples(rp, sp)
    \/ BadViewMask(sp)

\* IGPURenderpass::validateCreationParams: every reference is in range,
\* which RenderpassParams guarantees by construction.
ValidCreationParams(rp) ==
    \A i \in DOMAIN rp.subpasses :
        /\ \A j \in DOMAIN rp.subpasses[i].colors : rp.subpasses[i].colors[j] <= Len(rp.colorAtts)
        /\ rp.subpasses[i].depth <= Len(rp.depthAtts)

\* createRenderpass: nullptr, or the renderpass createRenderpass_impl builds.
CreateRenderpassResult(rp) ==
    IF \/ ~ValidCreationParams(rp)
       \/ \E i \in DOMAIN rp.depthAtts : InvalidAttachment(rp.depthAtts[i])
       \/ \E i \in DOMAIN rp.colorAtts : InvalidAttachment(rp.colorAtts[i])
       \/ \E i \in DOMAIN rp.subpasses : SubpassInvalid(rp, rp.subpasses[i])
    THEN NULL
    ELSE rp

=============================================================================
