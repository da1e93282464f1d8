------------------------- MODULE MCGraphicsPipeline -------------------------
(* Model-checking instance of GraphicsPipeline.                            *)
EXTENDS GraphicsPipeline

CONSTANTS sh1, sh2

MCShaders == {sh1, sh2}
MCEntries == {"main", "alt"}

NoStage == [shader |-> NULL, entry |-> "main"]

\* Pipelines that vary in what createGraphicsPipelines checks: the
\* renderpass's owner, a tessellation stage, the depth tests, the raster
\* samples, blending, the fragment module (shared with the vertex stage or
\* not) and the specialization constants.
MCParams ==
    {[renderpass |-> rpo, subpassIx |-> 1,
      vertex |-> [shader |-> sh1, entry |-> "main"],
      tessControl |-> IF tess THEN [shader |-> sh2, entry |-> "main"] ELSE NoStage,
      tessEval |-> IF tess THEN [shader |-> sh2, entry |-> "alt"] ELSE NoStage,
      geometry |-> NoStage,
      fragment |-> [shader |-> fsh, entry |-> "alt"],
      alphaToOne |-> FALSE, depthBounds |-> FALSE, depthTest |-> dt, stencilTest |-> FALSE,
      samples |-> s, blend |-> [j \in 0 .. ColorSlots - 1 |-> bl], specValid |-> sv] :
     rpo \in {"own", "foreign"}, tess \in BOOLEAN, dt \in BOOLEAN, s \in SampleCounts,
     bl \in BOOLEAN, fsh \in {sh1, sh2}, sv \in BOOLEAN}
\* The pipelines of the renderpass run: vertex and fragment share module
\* sh1; raster samples, a tessellation stage and the depth test vary.
MCSharedModuleParams ==
    {p \in MCParams : p.renderpass = "own" /\ p.fragment.shader = sh1 /\ p.specValid
                      /\ ~p.blend[0]}

\* The result contract's scenario: a device with tessellationShader
\* enabled, and a batch of two pipelines that differ only in having
\* tessellation stages, in either order.
MCTessPair == {p \in MCSharedModuleParams : ~p.depthTest /\ p.samples = 1}
MCTessBatches == {b \in [1 .. 2 -> MCTessPair] : b[1].tessControl # b[2].tessControl}
TessInit == Init /\ features = DeviceFeatures
TessSpec == TessInit /\ [][Next]_vars
=============================================================================
