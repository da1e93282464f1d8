# TLA+ models of Nabla's validation and resource-lifetime core

This directory holds TLA+ specifications of the parts of Nabla (`src/`)
where the hard engineering is. That means the logical device's validation
layer, the reference-counting object caches, the OpenGL command-recording
emulation, the staging-buffer upload loop, the asset manager's loading
path, and the visibility-buffer
example's path from mesh buffers to draws. TLC model-checks them.
`PROJECT.json` lists every component, every run, the mapping from each TLA+
definition to the source lines it models, the findings, and the hazards
the code is exposed to.

## The system and how its parts interact

| Part | Source | What it does |
|------|--------|--------------|
| Object caches | `include/CObjectCache.h` | Key → pointer caches (`CObjectCache`, unique keys; `CMultiObjectCache`, repeated keys). They are stored as a vector sorted by key, or as a std::map. A *greeting* callback runs when a pointer enters the cache and a *disposal* callback when it leaves. Users pass grab/drop, so the cache owns one reference per entry. |
| Device capability model | `ILogicalDevice.cpp` constructor, `supportsMask`, `validateMemoryBarrier` | Per queue family, the constructor computes the pipeline stages and memory accesses the family supports, plus each family's first queue index. The other calls check barriers against these. |
| Descriptor set layout validator | `ILogicalDevice::createDescriptorSetLayout` | Validates a binding list before the backend creates the layout. |
| Descriptor update engine | `ILogicalDevice::updateDescriptorSets`, `nullifyDescriptors` | Validates a batch of writes and copies (or drops), applies all of them, then calls the backend once with per-category counts. |
| Renderpass and pipeline validators | `createRenderpass`, `create{Compute,Graphics,RayTracing}Pipelines`, `SpirvTrimTask` | Check creation parameters against device features and limits. They trim shader entry points and create pipelines batch entry by batch entry. |
| Staging upload | `utilities/IUtilities.cpp` | Copies an image through a bounded staging buffer. When out of memory it flushes, submits early, waits for the GPU and retries. |
| OpenGL command pool / query pool | `COpenGLCommandPool.h`, `COpenGLQueryPool.h` | An arena of replayable command records, allocated under a mutex, plus the GL query objects that recorded commands use. |
| Visibility-buffer example | `examples_tests/41.VisibilityBuffer/main.cpp` | Groups the scene's mesh buffers by pipeline, packs them into MDI structs and a per-struct material table, creates one GPU pipeline per range and issues one `drawIndexedIndirect` per pipeline each frame. |
| Asset manager | `asset/IAssetManager.cpp` | Asset cache lookup, the loader loop, insertion, and built-in assets. |
| Renderpass-independent pipeline asset | `asset/ICPURenderpassIndependentPipeline.h` | A CPU pipeline's per-stage shaders and layout; `clone(_depth)` deep-copies them. |

Data flows in this order:
1. Client code builds creation parameters.
2. The capability model supplies the allowed stage and access masks.
3. The validators accept or reject the parameters.
4. The backend creates objects.
5. The command pool records commands that reference those objects.
6. Queues hold the references until the GPU signals completion.
7. Staging memory is freed, latched on a semaphore.

The object caches sit under the asset layer and hold references to the
objects they map.

## Modules

### `ObjectCache` (+ `MCObjectCache`)
This module models four cache classes, chosen at `Init` from the constant
`Kinds`: `CObjectCache` over a sorted `std::vector` ("vector") and over
`std::map` ("map"), and `CMultiObjectCache` over a sorted `std::vector`
("multi_vector") and over `std::multimap` ("multimap"). `Multi` and
`Assoc` are the class traits the code dispatches on (`CMultiCache_tag`,
`is_multi_container`, `is_assoc_container`). The unordered containers are
not modelled.

State:
- `container` is `m_container`: a sequence of `[key, val]` records, kept in key order (an ordered map's iteration order).
- `refs[v]` counts `greet(v)` calls minus `dispose(v)` calls. It is the number of references the cache has taken on the pointer `v`.
- `ret` is the last return value; `alive` becomes FALSE once the destructor has run; `kind` is the class.

Each public operation is one action, including every greet, dispose and
container insertion it makes:
- `Insert` is `INSERT_IMPL_VEC` or `INSERT_IMPL_ASSOC` with `CPreInsertionVerifier`. `InsertPos` is where the pair goes: the lower bound for the vectors, the upper end of the equal range for `std::multimap`.
- `SwapObjectValue` dispatches to the unique or multi `swapObjectValue`. For `std::map`, the unique version's hinted insert of a present key is ignored.
- `GetKeyRangeOrReserve`.
- `RemoveObject` dispatches to the unique or multi `removeObject`.
- `Destroy` is `~CObjectCacheBase`.

`LowerBound`, `UpperBound` and `UniqFindRange`/`MultiFindRange` are the
binary searches and `equal_range` the code uses. The cache is not
thread-safe and takes no lock, so each call is one atomic step.

The properties are:
- **RefsCover**: for every pointer, the references taken are at least the entries holding it, in every class. The cache never holds a pointer it could have dropped.
- **VectorRefsBalanced**: for the vector `CObjectCache`, the ledger is exact (`RefsBalanced`: `refs[v]` equals the entries holding `v`). A surplus is a leaked reference.
- **OthersEntriesReachable**: for every class but the vector `CObjectCache`, every entry lies in the range `findRange` returns for its key (`EntriesReachable`).
- **TypeOK**: includes that no ledger goes below zero, which would mean a dispose without a matching greet.

The exclusions are the findings: `RefsBalanced` fails for the multi caches
and the map cache, and `EntriesReachable` fails for the vector
`CObjectCache`.

### `DescriptorSetLayout`
`createDescriptorSetLayout` is modelled as a pure algorithm:
- `ScanBinding` is one iteration of the binding loop. It carries the loop's local variables, and an early return sets `err`.
- `CreateDescriptorSetLayoutResult` folds `ScanBinding` over the list and applies the three whole-layout checks.

The action `CreateDescriptorSetLayout(bs)` calls the function once on any
list of at most `MaxBindings` bindings. The function reads nothing but its
argument and the device limits, so one call per behaviour covers every call.

`RefInvalid` is the layout contract of spec sections 3, 4.2 and 8, stated
declaratively over the whole list. **NullIffInvalid** says the code returns
null exactly when `RefInvalid` holds.

### `DescriptorUpdate`
This module models `updateDescriptorSets` and `nullifyDescriptors`.

State:
- `desc[s][b]` is the descriptor that binding `b` of set `s` holds.
- `batch` is the entries of the call.
- `implParams` is the parameter block passed to the backend call.

A call runs its loops one entry per step, as the code does. `step` names
the loop, `cursor` is its index, `params` is the backend parameter block
as the validation loops have filled it so far, and `before` (a history
variable) keeps `desc` and `implParams` from the call's start.
- `UpdateDescriptorSets` and `NullifyDescriptors` start a call.
- `WriteLoop`, `CopyLoop` and `DropLoop` each validate one entry. A null or foreign set, or a type of no category, is the early `return false` (`Fail`). Otherwise `CountWrite` adds the entry to `params`.
- `ApplyUpdate` runs `processWrite` for every write, then `processCopy` for every copy, then the one backend call, and returns true. `ApplyDrops` does the same for drops.

`IGPUDescriptorSet::validateWrite/validateCopy/getBindingType` and
`wasCreatedBy` are not under `src/`. They are modelled from the specification
as a type check against the set's layout and marked `spec_modelled`.

The properties are:
- **AllOrNothing**: a call that returns false leaves every set, and the last backend call, as they were when it started, also when the bad entry comes after entries that validated. Its mutant, `WriteLoopEager`, applies each write as soon as it validates.
- **BackendParamsMatch**: after a successful call, `pWriteTypes[i]` is the binding type of write `i`, and each per-category count equals the number of entries of that category.

### `DeviceCapability` (+ `MCAssetFlags`, `MCDeviceCapability`)
This module models the logical device constructor and the queries that read
what it builds. A bitmask is the set of its named bits. The composite masks
(`ALL_TRANSFER_BITS`, `MEMORY_READ_BITS`, ...) are defined in asset headers
outside `src/`, so they are constants; `MCAssetFlags` gives them the
Vulkan values.

State:
- `request` is the physical device's family flags, the queue counts and the enabled features.
- `infos` is `m_queueFamilyInfos`, NULL before construction.
- `queues` is the size of `m_queues`.

`CreateLogicalDevice` is the whole constructor. It sums the queue counts
(`SumCounts`), then fills each family's info. `SupportedStages` and
`SupportedAccesses` are the `if (qci.count)` block with its compute, graphics
and transfer branches and their feature additions. `FirstQueueIndex` is the
prefix sum. The infos are immutable after construction, so construction is
the only step. `SupportsStageMask`, `SupportsAccessMask` and
`ValidateMemoryBarrier` are the query functions, as operators on the
constructed device.

The properties are:
- **QueueRangesTile**: the families' queue ranges are disjoint and fill `m_queues` exactly.
- **AccessHasStage**: every access a family is granted is allowed, by Vulkan's table of access types per stage, in some stage the same family is granted.
- **HostAccessNeedsHostStage** (expected violation): Scenario 5.

### `MCLogicalDevice`
The three `ILogicalDevice` models above share one model-checking instance.
A behaviour is one of the device's construction, one
`createDescriptorSetLayout` call, or one update/nullify call, chosen by the
variable `call` at `Init`, or one renderpass or pipeline-creation call
(through `MCPipelines`, whose device features are chosen only on that
branch); the other modules stay at their initial states. No call reads another's state, so the disjoint union checks each
over exactly the inputs its own module enumerates, and the properties are
the modules' own, restated. `MCDeviceCapability` instantiates
`DeviceCapability` alone for the Scenario 5 violation run.

### `CommandPool` (+ `MCCommandPool`)
`CommandPool` models the OpenGL backend's command recording and replay:
`COpenGLCommandPool`'s `emplace_n`/`free_n`, the commands that
`COpenGLQueryPool` records and applies, and `CProgramUniformCmd`'s
push-constant cache. Each command buffer is recorded by its own thread;
GL contexts (one per queue, `ctxid` = queue index) replay submitted
buffers one command per step.

State:
- `lock`, `arena`, `grab`: the pool mutex, the records the `CMemoryPool` handed out, and each thread's progress through one emplace.
- `state`, `cmds`, `todo`, `failed`: each buffer's life-cycle state, its segment list (command and record slot), the commands its current recording call has still to emplace, and whether an emplace failed since the last reset.
- `running`, `pc`: the buffer each context replays and its position.
- `lastQueue` (`lastQueueToUseArray`, any value at `Init`, since it is `malloc`ed and never initialised), `active`, `result`: the GL query state.
- `pushMem`, `glUniform`, `pcCache`, `everSet`: each buffer's push-constant memory (where `m_baseOffset` points), and per context the uniform's GL value, the pipeline's cached push constants and `haveUniformsBeenEverSet`.
- `latestEnd` (ghost): the context of the completed submission that last ended each query.

An emplace is three steps (`EmplaceLock`, `EmplaceAlloc`, `EmplaceCommit`),
so other threads interleave between locking, allocating and appending. An
exhausted arena makes the emplace fail: the recording call returns false and
keeps what it emplaced before. The recording calls (`BeginQueryCall`,
`EndQueryCall`, `WriteTimestampCall`, `ResetQueriesCall`) check the pool's
type and range and emplace the commands the code does; the replay actions
are the GL-side overloads. The command buffer side (`begin`, `end`,
`submit`, `reset`, `pushConstants`, the dispatch that flushes push
constants) and `CEndQueryCmd` are not under `src/` and are `spec_modelled`.
The client follows Vulkan valid usage: it ends the queries it begins, does
not submit a list a failed call left partial (section 4.6), and does not use
one query in two pending submissions. A behaviour's clients use the query
pool or push constants (`workload`), which touch disjoint state.

The properties are:
- **ArenaExclusive**: no record is on two segment lists (or twice on one), and the records handed out are exactly those on the lists.
- **QueryReadsLastEnded**: once the submission that ended a query has completed, `getLatestQueryAt` names the query object of that submission's queue, and it holds the result. Only the `CResetQueryCmd` that `endQuery`/`writeTimestamp` emplace after the end records the queue.
- **UniformMatchesRecorded** (expected violation): while a buffer replays, the uniform holds the values of the last `CProgramUniformCmd` replayed.


### `Renderpass`
`createRenderpass` as a pure function, `CreateRenderpassResult`. A
renderpass is its colour and depth/stencil attachments (format, samples)
and one or two subpasses (colour slots, depth and resolve references,
resolve modes, view mask). The checks run in the code's order:
`InvalidAttachment`, `BadResolve`, `ColorPastLimit`, `BadSamples` (a fold of
`SampleStep` over the colour slots, carrying `samplesForAllColor`) and
`BadViewMask` (`FindMSB`, recursive). `features` is a variable chosen at
`Init`, so `mixedAttachmentSamples` is checked on and off in one run.

### `SpirvTrimTask`
The per-call map from shader module to the entry points used with it and its
trimmed copy. `InsertEntryPoint` adds `<<entry, stage>>` under a module;
`Trim` trims a module once, keeping the entry points recorded by then, and
returns the cached copy afterwards. A trimmed module is the set of entry
points it keeps. `InsertAll` and `TrimEach` are the two loops the pipeline
calls make.

### `GraphicsPipeline` (+ `MCGraphicsPipeline`)
`createRenderpass` followed by `createGraphicsPipelines` on a subpass of
the new renderpass (or on a foreign renderpass). State: `rpInput`/`rp`, the
`batch`, the entries the backend fails (`backendFailed`, chosen with `\E`),
the `output` array, `ret`, and the number of trimmer calls. The action
nulls the outputs, scans the batch with `EntryInvalid` (every condition of
the loop) up to the first invalid entry, trims each valid entry through its
own `SpirvTrimTask`, and fills the outputs the backend created.

Properties:
- **RenderpassNullIffInvalid**: `createRenderpass` returns null exactly when `RefRenderpassInvalid` holds, the contract stated over sets of attachments and samples.
- **TrimmedKeepsEntryPoints**: the trimmed module each stage receives still has that stage's entry point, also when stages share a module.
- **ResultContract** (expected violation): section 4.4's per-entry independence. `MCGraphicsPipeline`'s `TessSpec` checks it on a device with every listed feature (`tessellationShader`), over the batches `MCTessBatches`: two pipelines that differ only in having tessellation stages, in either order. With the feature enabled the tessellation entry is valid by section 4.4, so the counterexample shows both the rejection at line 866 and the batch abort at line 889.

### `Pipelines` (+ `MCPipelines`)
Extends `GraphicsPipeline` with `createComputePipelines` and
`createRayTracingPipelines`. Each call is one action over a batch of at most
`MaxPipelineBatch` entries, with a backend-failure set chosen by `\E`:
- Compute: the specialization-constant check, then one trimmed pipeline per entry.
- Ray tracing: the `rayTracingPipeline` feature, `FlagsInvalid` (both skip flags, or either without `rayTraversalPrimitiveCulling`), and `FirstTooDeep` (the recursion depth limit, with the entries before it trimmed). `RtTrim` inserts every stage's entry point, then trims every stage; `RtTrimmedGroups` cuts one pipeline's trimmed list into raygen, misses, hits and callables. `TrimmedVector` is the batch-wide vector the code builds, and `RtPipeline` gives each pipeline spans over it, as the code does.

Properties:
- **RtTrimmedKeepEntryPoints**: every ray tracing stage's trimmed module keeps its entry point.
- **RtGroupsOwn** (expected violation): every pipeline's miss, hit and callable groups are its own entry's.

### `VisibilityBuffer`
`main()` of the visibility-buffer example, from the loaded mesh buffers to
the frame loop's draws. A mesh buffer is a record of an id, a pipeline and
a number of MDI structs (what `CCPUMeshPackerV2::calcMDIStructCount` would
give it); the packer itself is not under `src/`.
- `pc` steps sort → pack → pipeline → render.
- `SortMeshBuffers` is `sortMeshBuffersByPipeline`: `std::sort` is not stable, so `SortedOrders` is every permutation sorted by pipeline, and `RangeLoop` is the range loop, a RECURSIVE operator over the sorted vector.
- `PackMeshBuffers` is `packMeshBuffers`: `AllocLoop` folds over the ranges pushing `offsetForDrawCall` and advancing it by each range's MDI count; `CommitLoop` builds the `DrawIndexedIndirectInput`s, setting only `maxCount`; `VtDataLoop` lays out the material table; the MDI buffer holds the structs in allocation order.
- `CreatePipeline` makes one GPU pipeline per range.
- `Draw` is one iteration of the frame loop's pipeline loop: the pipeline bound, the MDI structs `drawIndexedIndirect` reads at its offset, and the materials the fragment shader reads at `vtData[drawID + pc.dataBufferOffset]` (`At`).

Properties:
- **RangesPartitionByPipeline**: the ranges tile the sorted vector in order, and each holds exactly the mesh buffers of one pipeline, for every order the sort may leave equal pipelines in.
- **MaterialsOfOwnRange**: the material entries draw k reads are those of range k's own structs.
- **DrawsOwnMeshBuffers** (expected violation): each draw draws its own range's mesh buffers with their pipeline and their materials.

### `AssetManager`
`IAssetManager::getAssetInHierarchy_impl` and `insertBuiltinAssets`. A
loader's `loadAsset` asks the manager for the file's dependencies at
`hierarchyLevel + 1`, so the recursion is a stack `frames` of calls, the
innermost at the head, each with its file, level, position (`pc`), loader
index and next dependency. The cache counts the bundles held under each
key. The override (`getLoadFile`, `handleSearchFail`, `handleLoadFail`),
the file system and the loaders' results are chosen nondeterministically;
which loaders accept a file, the loaders by extension, the loader vector
and the dependency graph are constants.
- `InsertBuiltinAssets` inserts the builtin keys (constructor, before any load).
- `GetAsset` starts a top-level call with one of the `cacheFlags` choices.
- `Open` (lines 194-216): unless the level's flags say DUPLICATE, a cached key returns, a miss may return `handleSearchFail`'s bundle; then no file returns empty, else the loaders run.
- `TryLoader` is one iteration of either loop (lines 219-230); the whole vector is tried after the per-extension range, including loaders already tried.
- `Load` asks for the next dependency (a new frame) or returns the loader's result; a bundle is inserted unless the level says DONT_CACHE or DUPLICATE.
- `LoadFail` is `handleLoadFail`, which may insert whatever the flags say.

Properties:
- **UniqueKeys**: unless a call passed a DUPLICATE bit, the cache never holds two bundles under one key.
- **LoadReturns** (liveness): every `getAsset` call returns, for an acyclic dependency graph.

### `RenderpassIndependentPipeline`
`ICPURenderpassIndependentPipeline`'s setters and `clone(_depth)`. A shader
is a record of its stage and whether it is a clone; `NoShader` is
`nullptr`; the layout is `"none"`, `"orig"` or `"clone"`.

State: `shaders` (`m_shaders`), `layout` (`m_layout`), and `cloned`, the
last `clone()`'s result together with the pipeline it copied.

Actions:
- `SetShaderAtStage` and `SetLayout` are the two setters. The setter does not check that a shader's own stage matches the slot it is put in; the model only puts a shader in its own stage's slot, taking that as the caller's precondition (the constructor that `clone` relies on places shaders by their own stage).
- `Clone` is the whole of `clone()`. `ClonedLayout` and `ClonedShaders` clone a dependency when `_depth > 0` and it is set, else share it. `SortedRaw` is every outcome of the unstable `std::sort` with the comparator `(a && !b)` (`NullLast`): any permutation in which no `nullptr` precedes a shader. `CtorRange` is the range up to `std::find(..., nullptr)`, the whole array when no slot is null (`&*end()` dereferences the end iterator: a release build yields the one-past-the-end pointer, which is what the model takes; a checked-iterator debug build aborts there). `Construct` is the constructor, which is not under `src/`: each shader of the range goes to the stage it reports.

Property:
- **CloneKeepsStages**: the copy has, at every stage, the original's shader (cloned when `_depth > 0`) and nothing where the original has none, for every sort outcome; the layout is cloned or shared the same way.

### `MCStagingAndDraw`
One model-checking instance for `VisibilityBuffer`, `StagingUpload`
(renamed `S`, its `pc` as `suPc`), `AssetManager` (as `A`) and
`RenderpassIndependentPipeline` (as `R`): `program`
chooses at `Init` which one a behaviour runs, and the idle ones are pinned
to one initial state. This
keeps the staging upload's liveness check out of the large device instance.

### `StagingUpload` (+ `MCStagingUpload`)
`IUtilities::updateImageViaStagingBuffer` running against a GPU. The image
data is a number of rows of `rowPitch` units. The upload buffer has
`BufferSize` free units, and frees are latched on a scratch semaphore value.

State:
- `pc` is the call's position: idle, in the loop, or blocked on the semaphore.
- `rowsLeft` is what the region iterator has not copied yet.
- `free` and `pending` are the free units and the latched frees.
- `copies` are the recorded copies the GPU has not yet run, each tagged with the submission that carries it.
- `unflushed` are the copies whose staging writes are not yet flushed.
- `queue`, `submitted` and `gpu` are the submissions, the last value submitted and the last value signalled.
- `mask` and `oldMask` say whether `COPY_BIT` is in the scratch stage mask and in `oldScratchStage`.

Actions:
- `Start` covers the early returns and the `|=` on the stage mask.
- `Iterate` is one loop iteration. It computes `AllocationSize` and the space `multi_allocate` finds after culling. Then it takes one of two branches. `Overflow` flushes, overflow-submits, sets the mask to COPY only and blocks. `CopyRows` copies the rows that fit, records the copy, queues the flush range and frees the block latched on the future value.
- `Unblock` is `blockForSemaphores` returning, followed by `cull_frees`.
- `Finish` restores the mask, flushes and returns true.
- `ClientSubmit` is the caller submitting between calls.
- `ExecuteCopies` and `Signal` are the GPU. It runs copies in submission order. It signals a value with `COPY_BIT` in its mask only after that submission's copies.

Properties:
- **NoReuseBeforeCopy**: staging memory a recorded copy reads stays allocated until the GPU has run the copy.
- **FlushedBeforeSubmit**: no submitted copy reads unflushed staging memory.
- **CallReturns** (liveness): a call that passed validation returns true (Scenario 4).

## Runs

| Run | Expect | What it shows |
|-----|--------|---------------|
| `caches` | pass | All four cache classes, every operation, two keys and two pointers: RefsCover, VectorRefsBalanced and OthersEntriesReachable hold (9,886 states). |
| `cache_uniq_swap_duplicate` | violation | In the vector `CObjectCache`, `swapObjectValue` on a key holding a different pointer stores the key twice (EntriesReachable). |
| `cache_multi_refs` | violation | The vector `CMultiObjectCache` does not keep greet and dispose balanced (RefsBalanced). `removeObject` never disposes. `swapObjectValue` at the end of the vector and `getKeyRangeOrReserve` greet twice. |
| `logical_device` | pass | (`MCLogicalDevice`, with the renderpass and pipeline calls of `MCPipelines`) Over three families and every family-flag, queue-count and feature combination, every granted access has a granted stage and the firstQueueIndex prefix sum tiles `m_queues`; `createDescriptorSetLayout` matches the layout contract on every binding list of length ≤ 2; update and drop batches are all-or-nothing and the backend call is sized for the batch; the renderpass contract holds with and without mixed samples; trimmed modules keep every stage's entry point, for graphics and ray tracing (2,502,673 states). |
| `device_barrier_host` | violation | `validateMemoryBarrier` accepts a host-write barrier without `HOST_BIT` (Scenario 5). The `validAccess` lambda is never called. |
| `rt_shader_groups` | violation | In a batch of two, each ray tracing pipeline gets spans over the whole batch's trimmed miss, hit and callable groups, not only its own entry's. |
| `graphics_result_contract` | violation | On a device with `tessellationShader` enabled, a batch of a pipeline without tessellation stages and one with them gets no pipeline: the tessellation entry is rejected at line 866 although section 4.4 allows it, and `return false` at line 889 then nulls the other entry too, after it was validated and trimmed. |
| `staging_and_draw` | pass | (`MCStagingAndDraw`) Every vector of up to four mesh buffers on three pipelines is cut into one range per pipeline, whatever order the sort leaves, and each draw's material lookup reads its own range's entries. Two uploads through a 4-unit buffer, one of them needing an overflow submit: staging memory is never reused before its copy ran, nothing is submitted unflushed, and every accepted call returns. Two `getAsset` calls over a three-level dependency hierarchy, with every per-level cache flag and every answer of the override and the loaders, return and never leave two bundles under one key without a DUPLICATE flag. A pipeline whose five shader slots and layout were set in any way and cloned at depth 0, 1 or 2 keeps each stage's shader at its own stage, whatever order the sort leaves (186,040 states). |
| `command_pool` | pass | Two threads record into one pool of three records, replayed on two contexts, with an occlusion or timestamp query pool or with push constants: no record is handed out twice, a completed query is read from the queue that ended it (about 1.9 million distinct states under symmetry). |
| `uniform_cache_stale` | violation | Push v1, dispatch, push v2, dispatch: on replay the first `CProgramUniformCmd` uploads v1 and caches v2, the second sees v2 cached and skips, and the program keeps v1. |
| `draw_offset` | violation | With mesh buffers on two pipelines, the second draw binds pipeline 2 and reads range 2's materials but draws range 1's MDI structs: `packMeshBuffers` never sets `DrawIndexedIndirectInput::offset` (main.cpp:426), so every draw starts at struct 0. |
| `staging_oversized_row` | violation | A row pitch larger than the whole upload buffer makes the loop overflow-submit and block forever, against section 7 and Scenario 4. |

Every property of a passing run has a mutant in `PROJECT.json`. A mutant is
a faulty variant of one mapped definition: a dropped dispose or greet, a
`push_back` in place of the sorted insert, a cursor that never advances, a
stage mask read before `|=`, a flush or submit dropped before blocking. TLC
finds the property violated under the run's cfg.

`CObjectCache` over `std::map` also leaks: `swapObjectValue` on a key
that holds another pointer greets the new value, and `std::map` then
ignores the hinted insert. `ObjectCacheMultiRefs.cfg` with
`Kinds = {"map"}` shows this. It is listed as a hazard, because the run
budget keeps one run per question.

## Bounds and why they suffice

- **Caches.** Two keys and two object pointers plus `nullptr`, at most 3 entries and at most 3 references per pointer. Every branch of every operation needs at most two keys: a hit, a miss below, a miss above, a range ending at the container's end, and a repeated key in the multi caches. Pointers are compared only for equality, so they are symmetric model values.
- **Layouts.** Two binding numbers, descriptor counts 0 and 2, and up to two bindings. Each contract clause needs at most two bindings.
- **Updates.** Three sets: two own sets whose layouts cover all four categories and a missing binding, and one foreign set. Batches of up to two writes and one copy, or two drops. Two writes put a bad entry after a good one.
- **Device.** Three families, because the prefix sum's carry first matters at the third. Queue counts 0 and 1, and every flag and feature subset.
- **Renderpass and pipelines.** Formats with and without the attachment usage, sample counts 1 and 4, view masks 0, 2 and 4 around `maxMultiviewViewCount = 2`, one colour slot past the limit, and two modules with two entry points so that stages share a module. Batches of two entries, the least that shows a batch-wide vector and a failing entry after a good one.
- **Command pool.** Two buffers, because the arena race and the cross-buffer cache need two threads; two contexts, so a query can be ended on a queue other than the one `lastQueueToUseArray` names; a three-record arena, the least in which an occlusion list (begin, end, reset) fits and a second buffer can exhaust it between `endQuery`'s two emplaces; one query, `MaxQueues = 2` with an out-of-range garbage value; recording calls start only on lists shorter than `MaxCmds = 2`; two push-constant values. The push-constant workload submits to context 0 only: the cache is per context and shares nothing across contexts. Buffers and values are symmetric model values.
- **Visibility buffer.** Vectors of one to four mesh buffers over three pipelines with one or two MDI structs each. Four mesh buffers give two pipelines sharing mesh buffers in every interleaving the unsorted vector can have, and a third pipeline; two struct counts make range offsets differ from range indices, which is where the offset bugs show.
- **Asset manager.** Files `a` → `b`, `c` and `b` → `c` give three hierarchy levels, a dependency asked for twice (once cached, once from a deeper level) and a diamond; a builtin key `s`; two loaders, with `b` rejected by its extension's loader so the whole vector is retried. Every `cacheFlags` whose two bits per level say cache, don't cache or duplicate (27 choices), and two top-level calls, so that the second call meets what the first cached.
- **Pipeline clone.** All five stages (`GRAPHICS_SHADER_STAGE_COUNT`), so every pattern of set and null slots is reached, the all-set one where `std::find` returns `end()` included. Depths 0, 1 and 2 stand for `_depth` = 0, 1 and larger (`~0u` behaves like 2: only `> 0` is tested here).
- **Staging.** A 4-unit buffer. One call of 3 rows of pitch 2 (6 units) must overflow after its first copy. One call of 2 single-unit rows can land in a partly freed buffer. A rejected call takes the early return. `MaxSubmits = 2` client submits and `MaxOverflows = 3` overflow submits. The liveness property fails if the cap were ever hit, so the cap is not what makes the run pass.

## Fairness

`StagingUpload`'s `CallReturns` assumes weak fairness of
the call's own steps (`Iterate`, `Unblock`, `Finish`), which run on the
calling thread. It also assumes weak fairness of the GPU (`ExecuteCopies`,
`Signal`): a submitted batch eventually runs and signals its semaphore,
which is what `blockForSemaphores` relies on. The client's own submits
carry no fairness, because a client may never submit again.

`AssetManager`'s `LoadReturns` assumes weak fairness of a call's own
steps (`Open`, `TryLoader`, `Load`, `LoadFail`): they run on the calling
thread, with no waiting. Starting a new call is not fair.

`CommandPool` has no liveness property: replay and completion run on
queue threads the code does not show, so no fairness is asserted.

## Plan (most important first)

1. **Liveness of replay** under weak fairness of the queue threads, once their code is in the tree.
2. **Asset manager**: the greet/dispose flags and `removeAsset`, once `IAssetManager.h` is in the tree.
3. The unordered cache containers.
4. **Pipeline dummy conversion and restore**, once `IAsset.h` and the shader and layout headers are in the tree.

## Not modelled, and why

- No refinement is checked. `IGPUCommandBuffer`'s life cycle (begin, end, submit, reset, completion), the segment list append and the replay loop are not under `src/`, so an abstract command-buffer contract would be implemented only by `spec_modelled` actions, and no change to the code in the tree could break it. The pool's own code (the arena under the mutex, the queries, the uniform cache) is checked by invariants instead.

- `compileShader` and the SPIR-V trimmer's internals call an external compiler on source text.
- `createBufferView` is a two-guard wrapper.
- `waitIdle`'s effect lives in `IQueue::cullResources`, which is not under `src/`.
- `convert2BAW`, the TGA loader, the compile configuration, phmap serialization, `IPreHashed`, the Win32 system layer and `SSamplerParams` are file formats, OS calls, build configuration or plain data.
- In the visibility-buffer example: the virtual-texture creation, descriptor sets, shaders' text, camera and window code set up GPU data no property tells apart; the mesh packer (`CCPUMeshPackerV2`) is not under `src/` and is abstracted to a struct count per mesh buffer. A failed `alloc` or `commit` is not modelled: the code only prints and goes on, and what the packer then leaves is outside `src/`. `main()` indexes `getMeshBufferVector()[i]` for `i < 100` without a size check; that read is undefined behaviour with no outcome to model, so the model starts from mesh buffers that exist.
- In the asset manager: `makeAssetGreetFunc`/`makeAssetDisposeFunc` set flags (`setAssetCached`, `setAssetMutability`) that only code in `IAssetManager.h` reads, and that header is not in the tree; `addLoadersAndWriters` and `initializeMeshTools` only register collaborators. A dependency cycle and hierarchies 32 levels deep (where `levelFlags`'s shift is undefined) are outside the bounds.
- The other 26 fixed-size OpenGL commands (framebuffer binds, viewport, stencil and blend state, dispatch) each call one GL function with operands fixed at record time; they add nothing the arena and replay order do not already show. One observation from reading them: `CViewportArrayVCmd` and `CDepthRangeArrayVCmd` copy `(m_count-m_first)*4` (or `*2`) floats, a signed-minus-unsigned difference that wraps when `first > count`, with no check against the viewport limit. Their callers and replay are not in the tree, so no input is known to reach it.
- In the pipeline asset: `convertToDummyObject`, `canBeRestoredFrom`, `restoreFromDummy_impl` and `isAnyDependencyDummy_impl` only recurse into the layout's and the shaders' own versions; those, IAsset's dummy state and the pipeline constructor are in headers not under `src/`. Unlike `clone`, they dereference `m_layout` without a null test. The `*_HIERARCHYLEVELS_BELOW` constants are plain data; their TODO (descriptor sets at level 0 are not cached under `ECF_DONT_CACHE_TOP_LEVEL`) concerns loaders that are not in the tree.
