------------------------------ MODULE Pipelines ------------------------------
(***************************************************************************)
(* The three pipeline-creation calls of ILogicalDevice                     *)
(* (src/nbl/video/ILogicalDevice.cpp): createGraphicsPipelines after a     *)
(* createRenderpass (module GraphicsPipeline), createComputePipelines and  *)
(* createRayTracingPipelines.  A behaviour makes one of the three kinds of *)
(* call: they share nothing but the device's features, so the model does  *)
(* not interleave them.                                                    *)
(*                                                                         *)
(* A ray tracing pipeline's shader groups are a raygen spec and sequences  *)
(* of miss, hit (closest/any/intersection) and callable specs.  The code   *)
(* trims each pipeline's groups with its own SpirvTrimTask into vectors    *)
(* shared by the whole batch, and gives newParams[ix] spans over those     *)
(* whole vectors.                                                          *)
(***************************************************************************)
EXTENDS GraphicsPipeline

CONSTANTS
    ComputeParams,          \* IGPUComputePipeline::SCreationParams the client may pass
    RayTracingParams,       \* IGPURayTracingPipeline::SCreationParams the client may pass
    MaxRayRecursionDepth,   \* limits.maxRayRecursionDepth
    MaxPipelineBatch        \* bound: entries of one compute or ray tracing call

VARIABLES
    cBatch, cFailed, cOutput, cRet,            \* createComputePipelines
    rtBatch, rtFailed, rtOutput, rtRet, rtTrims \* createRayTracingPipelines

pvars == <<vars, cBatch, cFailed, cOutput, cRet, rtBatch, rtFailed, rtOutput, rtRet, rtTrims>>

-----------------------------------------------------------------------------
(* createComputePipelines.                                                 *)

\* The trimmer called with the single entry point {name, ESS_COMPUTE}.
ComputePipeline(p) ==
    [params |-> p,
     trimmed |-> [shader |-> {<<p.shader.entry, "COMPUTE">>}, entry |-> p.shader.entry]]

\* commonCreatePipelines, then one trimmer call per entry (no sharing
\* between entries), the backend, and false for any null output.
CreateComputePipelines(b, failed) ==
    /\ cRet = None /\ rpInput = None /\ rtRet = None
    /\ cBatch' = b
    /\ LET valid == SpecConstantsValid(b)
       IN  /\ cFailed' = IF valid THEN failed ELSE {}
           /\ cOutput' = [i \in DOMAIN b |->
                            IF valid /\ i \notin failed THEN ComputePipeline(b[i]) ELSE NULL]
           /\ cRet' = (valid /\ failed = {})
    /\ UNCHANGED <<vars, rtBatch, rtFailed, rtOutput, rtRet, rtTrims>>

-----------------------------------------------------------------------------
(* createRayTracingPipelines.                                              *)

SkipAABBs(p)   == "SKIP_AABBS" \in p.flags
SkipBuiltin(p) == "SKIP_BUILT_IN_PRIMITIVES" \in p.flags

\* The first loop (lines 1026-1058): the flags of one entry.
FlagsInvalid(p) ==
    \/ SkipAABBs(p) /\ SkipBuiltin(p)
    \/ (SkipAABBs(p) \/ SkipBuiltin(p)) /\ "rayTraversalPrimitiveCulling" \notin features

\* The index of the first entry whose maxRecursionDepth exceeds the
\* limit, or Len(b) + 1.
FirstTooDeep(b) ==
    LET bad == {i \in DOMAIN b : b[i].maxRecursionDepth > MaxRayRecursionDepth}
    IN  IF bad = {} THEN Len(b) + 1 ELSE CHOOSE i \in bad : \A k \in bad : i <= k

\* The specs of one pipeline in the order the code inserts and trims them:
\* raygen, misses, each hit group's three, callables.
RtStageList(p) ==
    << <<p.raygen, "RAYGEN">> >>
    \o [k \in DOMAIN p.misses |-> <<p.misses[k], "MISS">>]
    \o FlattenSeq([k \in DOMAIN p.hits |->
                     << <<p.hits[k].closestHit, "CLOSEST_HIT">>, <<p.hits[k].anyHit, "ANY_HIT">>,
                        <<p.hits[k].intersection, "INTERSECTION">> >>])
    \o [k \in DOMAIN p.callables |-> <<p.callables[k], "CALLABLE">>]

\* Faulty variant of RtTrim: each spec is trimmed right after its entry
\* point is inserted.
RtTrimInterleaved(p) ==
    FoldLeft(LAMBDA acc, ss :
                 LET r == ST!Trim(ST!InsertEntryPoint(acc[1], ss[1], ss[2]), ss[1])
                 IN  <<r[1], Append(acc[2], r[2])>>,
             <<ST!EmptyTask, << >>>>, RtStageList(p))

\* The pipeline's own SpirvTrimTask: <<task, trimmed specs>>.
RtTrim(p) == ST!TrimEach(ST!InsertAll(ST!EmptyTask, RtStageList(p)), RtStageList(p))

\* The trimmed specs of one pipeline regrouped as its shader groups.
RtTrimmedGroups(p) ==
    LET t  == RtTrim(p)[2]
        nm == Len(p.misses)
        nh == Len(p.hits)
    IN  [raygen |-> t[1],
         misses |-> SubSeq(t, 2, 1 + nm),
         hits |-> [k \in 1 .. nh |-> [closestHit |-> t[nm + 3 * k - 1],
                                       anyHit |-> t[nm + 3 * k],
                                       intersection |-> t[nm + 3 * k + 1]]],
         callables |-> SubSeq(t, 2 + nm + 3 * nh, Len(t))]

\* trimmedMissSpecs, trimmedHitSpecs, trimmedCallableSpecs: every entry's
\* trimmed groups, one after the other.
TrimmedVector(b, g) == FlattenSeq([i \in DOMAIN b |-> RtTrimmedGroups(b[i])[g]])

\* newParams[ix] as the backend receives it: its own raygen, and the
\* spans assigned from the three batch-wide vectors.
RtPipeline(b, i) ==
    [params |-> b[i], raygen |-> RtTrimmedGroups(b[i]).raygen,
     misses |-> TrimmedVector(b, "misses"), hits |-> TrimmedVector(b, "hits"),
     callables |-> TrimmedVector(b, "callables")]

\* commonCreatePipelines; the rayTracingPipeline feature; the flags of
\* every entry; then per entry the recursion depth check, which returns
\* false after the earlier entries were trimmed; the backend; and false
\* at the first null output.
CreateRayTracingPipelines(b, failed) ==
    /\ rtRet = None /\ rpInput = None /\ cRet = None
    /\ rtBatch' = b
    /\ LET checked == /\ SpecConstantsValid(b)
                      /\ "rayTracingPipeline" \in features
                      /\ \A i \in DOMAIN b : ~FlagsInvalid(b[i])
           valid   == checked /\ FirstTooDeep(b) > Len(b)
           tried   == IF checked THEN SubSeq(b, 1, FirstTooDeep(b) - 1) ELSE << >>
       IN  /\ rtFailed' = IF valid THEN failed ELSE {}
           /\ rtOutput' = [i \in DOMAIN b |->
                             IF valid /\ i \notin failed THEN RtPipeline(b, i) ELSE NULL]
           /\ rtRet' = (valid /\ failed = {})
           /\ rtTrims' = FoldLeft(LAMBDA n, p : n + RtTrim(p)[1].trims, 0, tried)
    /\ UNCHANGED <<vars, cBatch, cFailed, cOutput, cRet>>

-----------------------------------------------------------------------------

PInit ==
    /\ Init
    /\ cBatch = << >> /\ cFailed = {} /\ cOutput = << >> /\ cRet = None
    /\ rtBatch = << >> /\ rtFailed = {} /\ rtOutput = << >> /\ rtRet = None /\ rtTrims = 0

ComputeBatches    == UNION {[1 .. n -> ComputeParams] : n \in 1 .. MaxPipelineBatch}
RayTracingBatches == UNION {[1 .. n -> RayTracingParams] : n \in 1 .. MaxPipelineBatch}

PNext ==
    \/ cRet = None /\ rtRet = None /\ Next /\ UNCHANGED <<cBatch, cFailed, cOutput, cRet,
                                                          rtBatch, rtFailed, rtOutput, rtRet, rtTrims>>
    \/ cRet = None /\ rpInput = None /\ rtRet = None
       /\ \E b \in ComputeBatches : \E failed \in SUBSET DOMAIN b : CreateComputePipelines(b, failed)
    \/ rtRet = None /\ rpInput = None /\ cRet = None
       /\ \E b \in RayTracingBatches : \E failed \in SUBSET DOMAIN b : CreateRayTracingPipelines(b, failed)

PSpec == PInit /\ [][PNext]_pvars

-----------------------------------------------------------------------------
(* Properties.                                                             *)

PTypeOK ==
    /\ TypeOK
    /\ cBatch \in {<< >>} \cup ComputeBatches
    /\ cFailed \subseteq DOMAIN cBatch /\ DOMAIN cOutput = DOMAIN cBatch
    /\ rtBatch \in {<< >>} \cup RayTracingBatches
    /\ rtFailed \subseteq DOMAIN rtBatch /\ DOMAIN rtOutput = DOMAIN rtBatch
    /\ {cRet, rtRet} \subseteq {None, TRUE, FALSE}
    /\ rtTrims \in 0 .. MaxPipelineBatch * 8

\* Every module a created ray tracing pipeline receives keeps the entry
\* point of the spec that names it: raygen, and each miss, hit and
\* callable spec in its spans, although several groups of one pipeline
\* share a module and SpirvTrimTask trims a module once.
KeepsEntry(ts, stage) == ts.shader # NULL => <<ts.entry, stage>> \in ts.shader
RtTrimmedKeepEntryPoints ==
    \A i \in DOMAIN rtOutput : rtOutput[i] # NULL =>
        /\ KeepsEntry(rtOutput[i].raygen, "RAYGEN")
        /\ \A k \in DOMAIN rtOutput[i].misses : KeepsEntry(rtOutput[i].misses[k], "MISS")
        /\ \A k \in DOMAIN rtOutput[i].hits :
             /\ KeepsEntry(rtOutput[i].hits[k].closestHit, "CLOSEST_HIT")
             /\ KeepsEntry(rtOutput[i].hits[k].anyHit, "ANY_HIT")
             /\ KeepsEntry(rtOutput[i].hits[k].intersection, "INTERSECTION")
        /\ \A k \in DOMAIN rtOutput[i].callables : KeepsEntry(rtOutput[i].callables[k], "CALLABLE")

\* Each ray tracing pipeline is built from its own shader groups (data
\* model, Pipeline): the miss, hit and callable spans the backend receives
\* for entry i are entry i's groups, in order, with their entry points.
Entries0(s) == [k \in DOMAIN s |-> s[k].entry]
RtGroupsOwn ==
    \A i \in DOMAIN rtOutput : rtOutput[i] # NULL =>
        /\ Entries0(rtOutput[i].misses) = Entries0(rtBatch[i].misses)
        /\ Len(rtOutput[i].hits) = Len(rtBatch[i].hits)
        /\ Entries0(rtOutput[i].callables) = Entries0(rtBatch[i].callables)

=============================================================================
