--------------------------- MODULE VisibilityBuffer ---------------------------
(***************************************************************************)
(* The mesh packing and drawing of the visibility-buffer example           *)
(* (src/examples_tests/41.VisibilityBuffer/main.cpp).  main() takes the   *)
(* scene's mesh buffers, sortMeshBuffersByPipeline sorts them by pipeline *)
(* pointer and cuts the sorted vector into one range per pipeline,         *)
(* packMeshBuffers packs every range into MDI structs (one multi-draw      *)
(* indirect command each), records per range the offset of its first      *)
(* struct (pushConstantsData) and the draw's maxCount, and lays out the    *)
(* per-struct material data (vtData); createPipeline makes one GPU        *)
(* pipeline per range; every frame then issues one drawIndexedIndirect    *)
(* per pipeline.  The fragment shader reads its material at               *)
(* vtData[drawID + pc.dataBufferOffset].                                   *)
(*                                                                         *)
(* A mesh buffer is a record of its position in the loaded vector (its     *)
(* identity), its pipeline (a pointer, compared with <) and the number of *)
(* MDI structs CCPUMeshPackerV2 packs it into.  The packer is not under    *)
(* src: calcMDIStructCount of a range is the sum over its mesh buffers,   *)
(* and the MDI buffer holds the structs in allocation order.              *)
(***************************************************************************)
EXTENDS Integers, Sequences, SequencesExt, FiniteSets, TLC

CONSTANTS
    Pipelines,          \* pipeline pointers of the scene, ordered as addresses
    MdiCounts,          \* MDI structs a single mesh buffer may pack into
    MaxMeshBuffers      \* bound: mesh buffers main() takes from the mesh

VARIABLES
    pc,                 \* "sort", "pack", "pipeline", "render"
    meshBuffers,        \* main()'s vector of mesh buffers
    ranges,             \* drawData.ranges: [pipeline, begin, end), 1-based
    pushConstantsData,  \* drawData.pushConstantsData
    drawIndirectInput,  \* drawData.drawIndirectInput: [offset, maxCount]
    mdiBuffer,          \* owner (mesh buffer id) of each MDI struct in mdiBuffer
    vtData,             \* owner whose push constants each vtData entry holds
    gpuPipelines,       \* drawData.gpuPipelines (by CPU pipeline)
    i,                  \* the render loop's pipeline index
    lastDraw            \* what the last drawIndexedIndirect drew

vars == <<pc, meshBuffers, ranges, pushConstantsData, drawIndirectInput, mdiBuffer,
          vtData, gpuPipelines, i, lastDraw>>

\* The pipeline of no draw yet (pipeline pointers are positive).
NoPipeline == 0

MeshBuffer == [id : 1 .. MaxMeshBuffers, pipeline : Pipelines, mdis : MdiCounts]

-----------------------------------------------------------------------------
(* sortMeshBuffersByPipeline.                                              *)

\* The orders std::sort may leave the vector in: a permutation sorted by
\* pipeline; std::sort is not stable, so equal pipelines may come in any order.
SortedOrders(v) ==
    {w \in {[k \in DOMAIN v |-> v[p[k]]] : p \in Permutations(DOMAIN v)} :
        IsSorted([k \in DOMAIN w |-> w[k].pipeline], <=)}

\* Faulty variant of RangeLoop: mbPipeline is not re-read when a range
\* starts, so every later mesh buffer opens a range of the first pipeline.
RECURSIVE RangeLoopStalePipeline(_, _, _, _, _)
RangeLoopStalePipeline(v, it, rangeBegin, mbPipeline, output) ==
    IF it = Len(v) + 1
    THEN Append(output, [pipeline |-> mbPipeline, begin |-> rangeBegin, end |-> it])
    ELSE IF v[it].pipeline # mbPipeline
         THEN RangeLoopStalePipeline(v, it + 1, it, mbPipeline,
                        Append(output, [pipeline |-> mbPipeline, begin |-> rangeBegin, end |-> it]))
         ELSE RangeLoopStalePipeline(v, it + 1, rangeBegin, mbPipeline, output)

\* The range loop, from iterator it with the open range starting at
\* rangeBegin for pipeline mbPipeline.
RECURSIVE RangeLoop(_, _, _, _, _)
RangeLoop(v, it, rangeBegin, mbPipeline, output) ==
    IF it = Len(v) + 1
    THEN Append(output, [pipeline |-> mbPipeline, begin |-> rangeBegin, end |-> it])
    ELSE IF v[it].pipeline # mbPipeline
         THEN RangeLoop(v, it + 1, it, v[it].pipeline,
                        Append(output, [pipeline |-> mbPipeline, begin |-> rangeBegin, end |-> it]))
         ELSE RangeLoop(v, it + 1, rangeBegin, mbPipeline, output)

\* The ranges of the sorted vector v (none for an empty vector).
SortMeshBuffersByPipeline(v) ==
    IF v = << >> THEN << >> ELSE RangeLoop(v, 2, 1, v[1].pipeline, << >>)

\* main(): drawData.ranges = sortMeshBuffersByPipeline(meshBuffers), which
\* sorts main()'s vector in place.
SortMeshBuffers ==
    /\ pc = "sort"
    /\ \E w \in SortedOrders(meshBuffers) :
         /\ meshBuffers' = w
         /\ ranges' = SortMeshBuffersByPipeline(w)
    /\ pc' = "pack"
    /\ UNCHANGED <<pushConstantsData, drawIndirectInput, mdiBuffer, vtData, gpuPipelines,
                   i, lastDraw>>

-----------------------------------------------------------------------------
(* packMeshBuffers.                                                        *)

\* The mesh buffers of the iterator range [b, e) of v.
Slice(v, b, e) == SubSeq(v, b, e - 1)

\* calcMDIStructCount over a run of mesh buffers.
CalcMDIStructCount(mbs) == FoldLeft(LAMBDA n, mb : n + mb.mdis, 0, mbs)

\* One entry per MDI struct of the run, naming the mesh buffer it draws.
Structs(mbs) == FlattenSeq([k \in DOMAIN mbs |-> [j \in 1 .. mbs[k].mdis |-> mbs[k].id]])

\* Faulty variant of AllocLoop: offsetForDrawCall is advanced before it is
\* pushed.
AllocLoopPushAfterAdvance(v, rs) ==
    FoldLeft(LAMBDA acc, r :
                LET next == acc[2] + CalcMDIStructCount(Slice(v, r.begin, r.end))
                IN  <<Append(acc[1], next), next>>,
             << << >>, 0 >>, rs)[1]

\* The first loop: alloc each range at offsetForDrawCall, push that offset,
\* advance it by the range's struct count.  Yields pushConstantsData.
AllocLoop(v, rs) ==
    FoldLeft(LAMBDA acc, r :
                <<Append(acc[1], acc[2]), acc[2] + CalcMDIStructCount(Slice(v, r.begin, r.end))>>,
             << << >>, 0 >>, rs)[1]

\* The second loop: commit each range and push a DrawIndexedIndirectInput
\* whose maxCount is the range's struct count; its offset keeps its
\* default of 0.
CommitLoop(v, rs) ==
    [k \in DOMAIN rs |-> [offset |-> 0, maxCount |-> CalcMDIStructCount(Slice(v, rs[k].begin, rs[k].end))]]

\* The vtData loop: over the whole range of mesh buffers, the mesh buffer's
\* push constants once per MDI struct it packs into.
VtDataLoop(v, rs) == Structs(Slice(v, rs[1].begin, rs[Len(rs)].end))

\* packMeshBuffers (after its assert that there is a range).  A failed
\* alloc or commit only prints and breaks into a debugger in debug builds;
\* the loops go on as they would on success.
PackMeshBuffers ==
    /\ pc = "pack"
    /\ ranges # << >>
    /\ pushConstantsData' = AllocLoop(meshBuffers, ranges)
    /\ drawIndirectInput' = CommitLoop(meshBuffers, ranges)
    /\ mdiBuffer' = FlattenSeq([k \in DOMAIN ranges |->
                                  Structs(Slice(meshBuffers, ranges[k].begin, ranges[k].end))])
    /\ vtData' = VtDataLoop(meshBuffers, ranges)
    /\ pc' = "pipeline"
    /\ UNCHANGED <<meshBuffers, ranges, gpuPipelines, i, lastDraw>>

-----------------------------------------------------------------------------
(* createPipeline and the render loop.                                     *)

\* createPipeline: one GPU pipeline per range, from the range's CPU
\* pipeline, in range order.
CreatePipeline ==
    /\ pc = "pipeline"
    /\ gpuPipelines' = [k \in DOMAIN ranges |-> ranges[k].pipeline]
    /\ pc' = "render" /\ i' = 1
    /\ UNCHANGED <<meshBuffers, ranges, pushConstantsData, drawIndirectInput, mdiBuffer,
                   vtData, lastDraw>>

\* A shader read of the MDI buffer or of vtData past its end (an
\* out-of-bounds buffer read) yields no mesh buffer's data.
Garbage == 0
At(buf, k) == IF k \in DOMAIN buf THEN buf[k] ELSE Garbage

\* One iteration of the frame's pipeline loop: bind gpuPipelines[i], push
\* pushConstantsData[i] as dataBufferOffset and drawIndexedIndirect with
\* drawIndirectInput[i]; draw drawID reads MDI struct offset + drawID and
\* the material at vtData[drawID + dataBufferOffset].  After the last
\* pipeline the next frame starts again at the first.
Draw ==
    /\ pc = "render"
    /\ LET in == drawIndirectInput[i]
       IN  lastDraw' = [pipeline |-> gpuPipelines[i],
                        geometry |-> [d \in 1 .. in.maxCount |-> At(mdiBuffer, in.offset + d)],
                        material |-> [d \in 1 .. in.maxCount |-> At(vtData, pushConstantsData[i] + d)]]
    /\ i' = IF i = Len(gpuPipelines) THEN 1 ELSE i + 1
    /\ UNCHANGED <<pc, meshBuffers, ranges, pushConstantsData, drawIndirectInput, mdiBuffer,
                   vtData, gpuPipelines>>

\* main() takes the first mesh buffers of the loaded mesh, at least one.
Init ==
    /\ pc = "sort"
    /\ meshBuffers \in UNION {{[k \in 1 .. n |-> [id |-> k, pipeline |-> p[k], mdis |-> c[k]]] :
                                 p \in [1 .. n -> Pipelines], c \in [1 .. n -> MdiCounts]} :
                              n \in 1 .. MaxMeshBuffers}
    /\ ranges = << >> /\ pushConstantsData = << >> /\ drawIndirectInput = << >>
    /\ mdiBuffer = << >> /\ vtData = << >> /\ gpuPipelines = << >>
    /\ i = 1 /\ lastDraw = [pipeline |-> NoPipeline, geometry |-> << >>, material |-> << >>]

Next == SortMeshBuffers \/ PackMeshBuffers \/ CreatePipeline \/ Draw

Spec == Init /\ [][Next]_vars

-----------------------------------------------------------------------------
(* Properties.                                                             *)

MaxStructs == MaxMeshBuffers * Max(MdiCounts)
Ids == 0 .. MaxMeshBuffers

TypeOK ==
    /\ pc \in {"sort", "pack", "pipeline", "render"}
    /\ meshBuffers \in Seq(MeshBuffer) /\ Len(meshBuffers) \in 1 .. MaxMeshBuffers
    /\ ranges \in Seq([pipeline : Pipelines, begin : 1 .. Len(meshBuffers),
                       end : 2 .. Len(meshBuffers) + 1])
    /\ pushConstantsData \in Seq(0 .. MaxStructs)
    /\ drawIndirectInput \in Seq([offset : {0}, maxCount : 0 .. MaxStructs])
    /\ mdiBuffer \in Seq(Ids) /\ vtData \in Seq(Ids)
    /\ gpuPipelines \in Seq(Pipelines)
    /\ i \in 1 .. MaxMeshBuffers
    /\ lastDraw \in [pipeline : Pipelines \cup {NoPipeline}, geometry : Seq(Ids), material : Seq(Ids)]

\* sortMeshBuffersByPipeline's range loop cuts the sorted vector into
\* ranges that tile it in order, one per pipeline, each holding exactly the
\* mesh buffers of its pipeline: the classes createPipeline and the render
\* loop rely on, whatever order std::sort leaves equal pipelines in.
RangesPartitionByPipeline ==
    pc # "sort" =>
        /\ ranges # << >>
        /\ ranges[1].begin = 1 /\ ranges[Len(ranges)].end = Len(meshBuffers) + 1
        /\ \A k \in 1 .. Len(ranges) - 1 : ranges[k].end = ranges[k + 1].begin
        /\ \A k \in DOMAIN ranges :
             Range(Slice(meshBuffers, ranges[k].begin, ranges[k].end))
                = {mb \in Range(meshBuffers) : mb.pipeline = ranges[k].pipeline}

\* The material a draw reads at vtData[drawID + pushConstantsData[k]], for
\* every drawID below the draw's maxCount, is that of the k-th range's
\* MDI structs in order: the offsets of packMeshBuffers' first loop, the
\* counts of its second and the layout of its vtData loop agree, although
\* the three loops walk the mesh buffers separately.
MaterialsOfOwnRange ==
    pc \in {"pipeline", "render"} =>
        \A k \in DOMAIN ranges :
            [d \in 1 .. drawIndirectInput[k].maxCount |-> At(vtData, pushConstantsData[k] + d)]
                = Structs(Slice(meshBuffers, ranges[k].begin, ranges[k].end))

\* Every frame draws each mesh buffer with its own pipeline: the MDI
\* structs drawIndexedIndirect draws for gpuPipelines[k] are the ones whose
\* material it reads, and belong to mesh buffers of that pipeline.
DrawsOwnMeshBuffers ==
    /\ lastDraw.geometry = lastDraw.material
    /\ \A d \in DOMAIN lastDraw.geometry :
         \E mb \in Range(meshBuffers) : mb.id = lastDraw.geometry[d] /\ mb.pipeline = lastDraw.pipeline

=============================================================================
