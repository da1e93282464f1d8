-------------------------- MODULE MCStagingAndDraw --------------------------
(* Model-checking instance of three programs that share nothing: the       *)
(* visibility-buffer example's packing and drawing (VisibilityBuffer),     *)
(* two IUtilities::updateImageViaStagingBuffer calls against the GPU       *)
(* (StagingUpload), two IAssetManager::getAsset calls (AssetManager) and   *)
(* a pipeline's setters and clone() (RenderpassIndependentPipeline),       *)
(* chosen by `program` at Init.  Each is checked over exactly the inputs   *)
(* its own model enumerates.                                              *)
EXTENDS VisibilityBuffer

CONSTANTS BufferSize, MaxResident, CallParams, ManualFlush, MaxCalls, MaxSubmits,
          MaxOverflows, None, StageCount, Depths,
          Files, Builtins, Loaders, PerExt, Loadable, Deps, FlagChoices, MaxRequests

VARIABLES
    program,    \* "example", "upload", "assets" or "clone"
    suPc, call, rowsLeft, ret, calls, free, pending, copies, unflushed, nextId,
    queue, submitted, gpu, mask, oldMask, waitFor,  \* StagingUpload
    frames, cache, cacheFlags, builtins, requests, dupFlagged,  \* AssetManager
    shaders, layout, cloned     \* RenderpassIndependentPipeline

svars == <<suPc, call, rowsLeft, ret, calls, free, pending, copies, unflushed, nextId,
           queue, submitted, gpu, mask, oldMask, waitFor>>

S == INSTANCE StagingUpload WITH pc <- suPc
A == INSTANCE AssetManager
avars == <<frames, cache, cacheFlags, builtins, requests, dupFlagged>>
R == INSTANCE RenderpassIndependentPipeline
rvars == <<shaders, layout, cloned>>

\* An upload of 6 units with rows of 2 into a 4-unit buffer (it needs an
\* overflow after its first copy), a 2-unit upload of single rows, and a
\* call rejected before the loop (multisampled image).
MCCallParams ==
    {[reject |-> "none", rows |-> 3, rowPitch |-> 2],
     [reject |-> "none", rows |-> 2, rowPitch |-> 1],
     [reject |-> "multisampled", rows |-> 1, rowPitch |-> 1]}

\* Four files and two loaders: "a" asks for "b" and "c", "b" for "c", and
\* "s" is a builtin key.  "b"'s extension loader rejects it, so the whole
\* vector is tried, "l2" a second time; "c" has both loaders by extension
\* and only the second accepts it.
MCLoaders == <<"l1", "l2">>
MCPerExt == ("a" :> <<"l1">>) @@ ("b" :> <<"l2">>) @@ ("c" :> <<"l1", "l2">>) @@ ("s" :> <<>>)
MCLoadable == ("a" :> {"l1"}) @@ ("b" :> {"l1", "l2"}) @@ ("c" :> {"l2"}) @@ ("s" :> {})
MCDeps == ("a" :> <<"b", "c">>) @@ ("b" :> <<"c">>) @@ ("c" :> <<>>) @@ ("s" :> <<>>)
\* Every cacheFlags whose bits for levels 0..2 each say cache, don't
\* cache or duplicate.
MCFlagChoices == {x + 4 * y + 16 * z : x, y, z \in 0..2}

\* The example's mesh buffers are chosen only when it runs, and the
\* staging mask only when the uploads run.
MCInit ==
    /\ program \in {"example", "upload", "assets", "clone"}
    /\ Init /\ S!Init /\ A!AMInit /\ R!RInit
    /\ program # "example" => meshBuffers = <<[id |-> 1, pipeline |-> Min(Pipelines),
                                                mdis |-> Min(MdiCounts)]>>
    /\ program # "upload" => mask = FALSE

MCNext ==
    \/ program = "example" /\ Next /\ UNCHANGED <<program, svars, avars, rvars>>
    \/ program = "upload" /\ S!Next /\ UNCHANGED <<program, vars, avars, rvars>>
    \/ program = "assets" /\ A!AMNext /\ UNCHANGED <<program, vars, svars, rvars>>
    \/ program = "clone" /\ R!RNext /\ UNCHANGED <<program, vars, svars, avars>>

\* Only the upload loop, the GPU (module StagingUpload) and a getAsset call
\* in progress (module AssetManager) have fairness.
MCSpec == MCInit /\ [][MCNext]_<<program, vars, svars, avars, rvars>> /\ S!Fairness /\ A!AMFairness

-----------------------------------------------------------------------------
(* The properties of both modules over this instance.                     *)

\* The state of the program a behaviour runs has its type.
MCTypeOK ==
    /\ program = "example" => TypeOK
    /\ program = "upload" => S!TypeOK
    /\ program = "assets" => A!AMTypeOK
    /\ program = "clone" => R!RTypeOK

\* updateImageViaStagingBuffer: staging memory a recorded copy reads stays
\* allocated until the GPU has executed the copy.
NoReuseBeforeCopy == S!NoReuseBeforeCopy

\* updateImageViaStagingBuffer: no copy the GPU may run reads unflushed
\* staging memory.
FlushedBeforeSubmit == S!FlushedBeforeSubmit

\* updateImageViaStagingBuffer: a call that passed validation returns true
\* (Scenario 4).
CallReturns == S!CallReturns

\* getAssetInHierarchy_impl: unless a call passed a DUPLICATE bit, the
\* cache never holds two bundles under one key, across the recursion of a
\* hierarchy and across calls.
UniqueKeys == A!UniqueKeys

\* getAsset: every call returns, through the recursion over the loaders'
\* dependencies and both loader loops.
LoadReturns == A!LoadReturns

\* ICPURenderpassIndependentPipeline::clone: the copy has, at every stage,
\* the original's shader (cloned when _depth > 0) and nothing where the
\* original has none, whatever order std::sort leaves the pointers in.
CloneKeepsStages == R!CloneKeepsStages
=============================================================================
