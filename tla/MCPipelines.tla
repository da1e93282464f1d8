---------------------------- MODULE MCPipelines ----------------------------
(* Model-checking instance of Pipelines.                                   *)
EXTENDS Pipelines, MCGraphicsPipeline

MCSpec(s, e) == [shader |-> s, entry |-> e]

\* Compute pipelines: either module, either entry point, valid or invalid
\* specialization constants.
MCComputeParams ==
    {[shader |-> MCSpec(s, e), specValid |-> sv] : s \in MCShaders, e \in MCEntries, sv \in BOOLEAN}

\* Ray tracing pipelines whose raygen and miss share module sh1 and whose
\* closest hit and callable share sh2, with and without each group, the
\* culling flags and a recursion depth above the limit of 1.
MCRayTracingParams ==
    {[raygen |-> MCSpec(sh1, "main"), misses |-> m, hits |-> h, callables |-> c,
      flags |-> f, maxRecursionDepth |-> d, specValid |-> TRUE] :
     m \in {<< >>, <<MCSpec(sh1, "alt")>>},
     h \in {<< >>, <<[closestHit |-> MCSpec(sh2, "main"), anyHit |-> NoStage,
                      intersection |-> NoStage]>>},
     c \in {<< >>, <<MCSpec(sh2, "alt")>>},
     f \in {{}, {"SKIP_AABBS"}, {"SKIP_AABBS", "SKIP_BUILT_IN_PRIMITIVES"}},
     d \in {1, 2}}
=============================================================================
