------------------------ MODULE RenderpassIndependentPipeline ------------------------
(* ICPURenderpassIndependentPipeline (src/include/nbl/asset/               *)
(* ICPURenderpassIndependentPipeline.h): the per-stage shader array and    *)
(* the layout, their setters, and clone(_depth).  clone gathers the        *)
(* (possibly cloned) shaders into a raw pointer array, sorts it so that    *)
(* the non-null pointers come first, and hands the constructor the range   *)
(* up to the first nullptr; the constructor (IRenderpassIndependentPipeline, *)
(* not under src/) puts every shader of the range at its own stage.  A     *)
(* shader is a record of its stage and whether it is a clone; a layout is  *)
(* "none", "orig" or "clone".                                              *)
EXTENDS Integers, Sequences, SequencesExt, FiniteSets

CONSTANTS
    StageCount,     \* GRAPHICS_SHADER_STAGE_COUNT
    Depths          \* the _depth arguments a caller may pass

Stages == 1..StageCount
NoShader == [stage |-> 0, copy |-> FALSE]        \* nullptr
Shader == [stage : Stages, copy : BOOLEAN]

VARIABLES
    shaders,        \* m_shaders[i]
    layout,         \* m_layout
    cloned          \* {the last clone()'s result and the pipeline it copied}, or {}

rvars == <<shaders, layout, cloned>>

\* Cloning one dependency at _depth-1 gives a new object of the same kind.
CloneOf(s) == [s EXCEPT !.copy = TRUE]

\* Lines 56 and 60: a dependency is cloned when _depth > 0 and it is set,
\* else the clone shares it.
ClonedShaders(shdrs, depth) ==
    [i \in Stages |-> IF depth > 0 /\ shdrs[i] # NoShader THEN CloneOf(shdrs[i]) ELSE shdrs[i]]
ClonedLayout(lay, depth) ==
    IF depth > 0 /\ lay # "none" THEN "clone" ELSE lay

\* The comparator written the other way round, (!a && b).
NullFirst(a, b) == a = NoShader /\ b # NoShader

\* Line 64: std::sort with the comparator (a && !b) is not stable, so its
\* result is any permutation in which no nullptr precedes a shader.
NullLast(a, b) == a # NoShader /\ b = NoShader
SortedRaw(raw) ==
    {p \in {[i \in Stages |-> raw[f[i]]] : f \in Permutations(Stages)} :
        \A i, j \in Stages : i < j => ~NullLast(p[j], p[i])}

\* Line 67: the range [data, find(nullptr)); with no nullptr find returns
\* end() and the range is the whole array (&*end() is the one-past-the-end
\* pointer in a release build; a checked-iterator build stops there).
CtorRange(p) ==
    LET firstNull == SelectInSeq(p, LAMBDA s : s = NoShader)
    IN  SubSeq(p, 1, IF firstNull = 0 THEN StageCount ELSE firstNull - 1)

\* IRenderpassIndependentPipeline's constructor: each shader of the range
\* at the stage it reports.
Construct(range) ==
    [i \in Stages |-> IF \E k \in DOMAIN range : range[k].stage = i
                      THEN range[CHOOSE k \in DOMAIN range : range[k].stage = i]
                      ELSE NoShader]

\* clone(_depth), lines 54-73.
Clone ==
    /\ \E depth \in Depths : \E p \in SortedRaw(ClonedShaders(shaders, depth)) :
        cloned' = {[shaders |-> Construct(CtorRange(p)), layout |-> ClonedLayout(layout, depth),
                    depth |-> depth, of |-> shaders, ofLayout |-> layout]}
    /\ UNCHANGED <<shaders, layout>>

\* setShaderAtStage(_stage, _shdr), lines 100-104: the shader goes to the
\* stage's slot (findLSB of the stage bit), nullptr clears it.
SetShaderAtStage ==
    /\ \E i \in Stages : \E s \in {NoShader, [stage |-> i, copy |-> FALSE]} :
        shaders' = [shaders EXCEPT ![i] = s]
    /\ UNCHANGED <<layout, cloned>>

\* setLayout(_layout), lines 106-110.
SetLayout ==
    /\ \E l \in {"none", "orig"} : layout' = l
    /\ UNCHANGED <<shaders, cloned>>

RInit ==
    /\ shaders \in [Stages -> {NoShader}]
    /\ layout = "orig"
    /\ cloned = {}

RNext == Clone \/ SetShaderAtStage \/ SetLayout

-----------------------------------------------------------------------------

RTypeOK ==
    /\ shaders \in [Stages -> Shader \cup {NoShader}]
    /\ layout \in {"none", "orig"}

\* clone() gives the new pipeline, at every stage, the shader the original
\* has there, cloned when _depth > 0, and nothing where it has none,
\* whatever order std::sort leaves the shader pointers in; the layout is
\* cloned or shared the same way.
CloneKeepsStages ==
    \A c \in cloned :
        /\ c.shaders = ClonedShaders(c.of, c.depth)
        /\ c.layout = ClonedLayout(c.ofLayout, c.depth)
=============================================================================
