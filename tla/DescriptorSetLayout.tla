--------------------------- MODULE DescriptorSetLayout ---------------------------
(***************************************************************************)
(* ILogicalDevice::createDescriptorSetLayout (src/nbl/video/               *)
(* ILogicalDevice.cpp): one pass over the binding list that counts dynamic *)
(* SSBO/UBO bindings, checks immutable samplers, notes update-after-bind   *)
(* and the variable-length binding, returns at once on a second            *)
(* variable-length binding, and then applies three whole-layout checks.    *)
(* A binding is abstracted to its number, its type, its descriptor count,  *)
(* its two create flags and what its immutable-sampler array holds.        *)
(***************************************************************************)
EXTENDS Integers, Sequences, SequencesExt, FiniteSets

CONSTANTS
    BindingNrs,     \* binding numbers the client may use
    Counts,         \* descriptor counts the client may use
    MaxBindings,    \* bound: longest binding list tried
    MaxDynSSBOs,    \* limits.maxDescriptorSetDynamicOffsetSSBOs
    MaxDynUBOs,     \* limits.maxDescriptorSetDynamicOffsetUBOs
    NULL            \* nullptr layout

\* Descriptor types, up to what the function tells apart.
Types == {"SSBO_DYNAMIC", "UBO_DYNAMIC", "SAMPLER", "COMBINED_IMAGE_SAMPLER", "UBO"}
SamplerTypes == {"SAMPLER", "COMBINED_IMAGE_SAMPLER"}

\* immutableSamplers: absent, all created by this device, or holding a null
\* or foreign sampler among its first `count` entries.
SamplerArrays == {"none", "own", "bad"}

Binding == [binding : BindingNrs, type : Types, count : Counts,
            updateAfterBind : BOOLEAN, variableCount : BOOLEAN,
            samplers : SamplerArrays]

BindingLists == UNION {[1 .. n -> Binding] : n \in 0 .. MaxBindings}

VARIABLES
    input,    \* the bindings of the last call
    result    \* its return: NULL or the layout handed to the backend

vars == <<input, result>>

-----------------------------------------------------------------------------
(* The loop of lines 425-464.  acc holds its local variables; err is set  *)
(* by an early return and makes the remaining iterations no-ops.          *)

ScanInit == [err |-> FALSE, varFound |-> FALSE, uabFound |-> FALSE,
             varNr |-> 0, highest |-> 0, samplerCount |-> 0,
             dynSSBO |-> 0, dynUBO |-> 0]

\* An immutable-sampler array the inner loop rejects.
BadSamplers(b) == b.samplers = "bad" /\ b.count > 0

\* Faulty variant of ScanBinding: a second variable-length binding is not
\* refused.
ScanBindingNoDupCheck(acc, b) ==
    IF acc.err THEN acc
    ELSE IF b.type \in SamplerTypes /\ b.samplers # "none" /\ BadSamplers(b)
    THEN [acc EXCEPT !.err = TRUE]
    ELSE [acc EXCEPT
            !.dynSSBO = @ + (IF b.type = "SSBO_DYNAMIC" THEN 1 ELSE 0),
            !.dynUBO = @ + (IF b.type = "UBO_DYNAMIC" THEN 1 ELSE 0),
            !.samplerCount = @ + (IF b.type \in SamplerTypes /\ b.samplers # "none"
                                  THEN b.count ELSE 0),
            !.uabFound = @ \/ b.updateAfterBind,
            !.varFound = @ \/ b.variableCount,
            !.varNr = IF b.variableCount THEN b.binding ELSE @,
            !.highest = IF b.binding > @ THEN b.binding ELSE @]

\* Faulty variant of ScanBinding: maxSamplersCount grows by count inside
\* the per-sampler loop, once per sampler.
ScanBindingCountPerSampler(acc, b) ==
    IF acc.err THEN acc
    ELSE IF b.type \in SamplerTypes /\ b.samplers # "none" /\ BadSamplers(b)
    THEN [acc EXCEPT !.err = TRUE]
    ELSE IF acc.varFound /\ b.variableCount
    THEN [acc EXCEPT !.err = TRUE]
    ELSE [acc EXCEPT
            !.dynSSBO = @ + (IF b.type = "SSBO_DYNAMIC" THEN 1 ELSE 0),
            !.dynUBO = @ + (IF b.type = "UBO_DYNAMIC" THEN 1 ELSE 0),
            !.samplerCount = @ + (IF b.type \in SamplerTypes /\ b.samplers # "none"
                                  THEN b.count * b.count ELSE 0),
            !.uabFound = @ \/ b.updateAfterBind,
            !.varFound = @ \/ b.variableCount,
            !.varNr = IF b.variableCount THEN b.binding ELSE @,
            !.highest = IF b.binding > @ THEN b.binding ELSE @]

\* One iteration: count dynamic buffers; for a sampler binding with
\* immutable samplers, check each and add count to maxSamplersCount; note
\* update-after-bind; refuse a second variable-length binding; remember
\* the variable-length binding's number and the highest binding number.
ScanBinding(acc, b) ==
    IF acc.err THEN acc
    ELSE IF b.type \in SamplerTypes /\ b.samplers # "none" /\ BadSamplers(b)
    THEN [acc EXCEPT !.err = TRUE]
    ELSE IF acc.varFound /\ b.variableCount
    THEN [acc EXCEPT !.err = TRUE]
    ELSE [acc EXCEPT
            !.dynSSBO = @ + (IF b.type = "SSBO_DYNAMIC" THEN 1 ELSE 0),
            !.dynUBO = @ + (IF b.type = "UBO_DYNAMIC" THEN 1 ELSE 0),
            !.samplerCount = @ + (IF b.type \in SamplerTypes /\ b.samplers # "none"
                                  THEN b.count ELSE 0),
            !.uabFound = @ \/ b.updateAfterBind,
            !.varFound = @ \/ b.variableCount,
            !.varNr = IF b.variableCount THEN b.binding ELSE @,
            !.highest = IF b.binding > @ THEN b.binding ELSE @]

\* The whole function: the loop, then update-after-bind against dynamic
\* bindings, the variable-length binding against the highest number, and
\* the device limits; on success createDescriptorSetLayout_impl receives
\* the bindings and maxSamplersCount.
CreateDescriptorSetLayoutResult(bs) ==
    LET s == FoldLeft(ScanBinding, ScanInit, bs)
    IN  IF \/ s.err
           \/ s.uabFound /\ s.dynSSBO + s.dynUBO # 0
           \/ s.varFound /\ s.varNr # s.highest
           \/ s.dynSSBO > MaxDynSSBOs \/ s.dynUBO > MaxDynUBOs
        THEN NULL
        ELSE [bindings |-> bs, maxSamplers |-> s.samplerCount]

Init ==
    /\ input = << >>
    /\ result = CreateDescriptorSetLayoutResult(<< >>)

\* A client call with any bounded binding list.  The function reads only its
\* argument and the device limits, so calls do not influence each other and
\* one call after the empty one stands for every call.
CreateDescriptorSetLayout(bs) ==
    /\ input = << >>
    /\ input' = bs
    /\ result' = CreateDescriptorSetLayoutResult(bs)

Next == input = << >> /\ \E bs \in BindingLists : CreateDescriptorSetLayout(bs)

Spec == Init /\ [][Next]_vars

-----------------------------------------------------------------------------
(* Reference: the layout contract of the specification (sections 3, 4.2    *)
(* and 8), stated over the whole list rather than as a scan.               *)

Idx(bs) == DOMAIN bs
NumOf(bs, t) == Cardinality({i \in Idx(bs) : bs[i].type = t})

RefInvalid(bs) ==
    \/ \E i \in Idx(bs) : bs[i].type \in SamplerTypes /\ BadSamplers(bs[i])
    \/ Cardinality({i \in Idx(bs) : bs[i].variableCount}) > 1
    \/ \E i, j \in Idx(bs) : bs[i].variableCount /\ bs[j].binding > bs[i].binding
    \/ /\ \E i \in Idx(bs) : bs[i].updateAfterBind
       /\ \E i \in Idx(bs) : bs[i].type \in {"SSBO_DYNAMIC", "UBO_DYNAMIC"}
    \/ NumOf(bs, "SSBO_DYNAMIC") > MaxDynSSBOs
    \/ NumOf(bs, "UBO_DYNAMIC") > MaxDynUBOs

-----------------------------------------------------------------------------
(* Properties.                                                             *)

\* Types; maxSamplersCount never exceeds the descriptors a list can hold.
TypeOK ==
    /\ input \in Seq(Binding) /\ Len(input) <= MaxBindings
    /\ \/ result = NULL
       \/ result \in [bindings : Seq(Binding),
                     maxSamplers : 0 .. MaxBindings * Max(Counts)]

\* createDescriptorSetLayout returns null exactly for the binding lists the
\* layout contract forbids (a bad immutable sampler, two variable-length
\* bindings, a variable-length binding below another binding number,
\* update-after-bind together with a dynamic buffer, or more dynamic
\* buffers than the device allows), whatever order the bindings come in.
NullIffInvalid == (result = NULL) <=> RefInvalid(input)

=============================================================================
