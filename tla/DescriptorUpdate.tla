----------------------------- MODULE DescriptorUpdate -----------------------------
(***************************************************************************)
(* ILogicalDevice::updateDescriptorSets and ILogicalDevice::               *)
(* nullifyDescriptors (src/nbl/video/ILogicalDevice.cpp).  Each call first *)
(* validates its whole batch, counting descriptors per category into the   *)
(* parameters of the backend call, and returns false at the first bad      *)
(* entry; only then does it apply every entry and call the backend once.   *)
(* The validation loops run one entry per step, as the code's loops do.    *)
(* A descriptor set is reduced to the descriptor held by each binding.     *)
(* IGPUDescriptorSet's validateWrite / validateCopy / getBindingType are   *)
(* not in this source tree; they are modelled from the specification's    *)
(* description (a type check against the set's layout).                   *)
(***************************************************************************)
EXTENDS Integers, Sequences, SequencesExt, FiniteSets

CONSTANTS
    Sets,        \* descriptor sets (model values)
    Foreign,     \* the sets created by another logical device
    Bindings,    \* binding numbers
    Layout,      \* Layout[s][b]: descriptor type of binding b of set s, ET_COUNT if none
    WriteTypes,  \* descriptor types a write may carry
    Values,      \* descriptors a write may carry
    EMPTY,       \* a binding holding no descriptor
    NULL,        \* nullptr set
    MaxWrites,   \* bound: longest write batch
    MaxCopies,   \* bound: longest copy batch
    MaxDrops     \* bound: longest drop batch

\* asset::IDescriptor::E_TYPE, up to what the calls tell apart.
DescTypes == {"UNIFORM_BUFFER", "SAMPLER", "STORAGE_IMAGE", "UNIFORM_TEXEL_BUFFER",
              "ACCELERATION_STRUCTURE"}
ET_COUNT == "ET_COUNT"

\* asset::IDescriptor::GetTypeCategory.
Category(t) ==
    CASE t = "UNIFORM_BUFFER"         -> "EC_BUFFER"
      [] t = "SAMPLER"                -> "EC_SAMPLER"
      [] t = "STORAGE_IMAGE"          -> "EC_IMAGE"
      [] t = "UNIFORM_TEXEL_BUFFER"   -> "EC_BUFFER_VIEW"
      [] t = "ACCELERATION_STRUCTURE" -> "EC_ACCELERATION_STRUCTURE"
      [] OTHER                        -> "EC_COUNT"

Own == Sets \ Foreign
SetRefs == Sets \cup {NULL}

Write == [dstSet : SetRefs, binding : Bindings, type : WriteTypes, value : Values]
Copy  == [srcSet : SetRefs, dstSet : SetRefs, binding : Bindings]
Drop  == [dstSet : SetRefs, binding : Bindings]

Batches(S, n) == UNION {[1 .. k -> S] : k \in 0 .. n}

\* Parameters of updateDescriptorSets_impl / nullifyDescriptors_impl.
NoParams == [buffers |-> 0, images |-> 0, bufferViews |-> 0, accels |-> 0,
             accelWrites |-> 0, writeTypes |-> << >>]

VARIABLES
    desc,        \* desc[s][b]: the descriptor binding b of set s holds
    ret,         \* value returned by the last call
    batch,       \* the last call's entries: [writes, copies, drops]
    implParams,  \* parameters of the last backend call, NoParams if none
    step,        \* the loop the call is in: "idle", "writes", "copies", "apply",
                 \* "drops", "applyDrops" or "done"
    cursor,      \* the loop index i
    params,      \* params as the validation loops have filled it so far
    before       \* history: desc and implParams when the call started

vars == <<desc, ret, batch, implParams, step, cursor, params, before>>

NoBatch == [writes |-> << >>, copies |-> << >>, drops |-> << >>]

-----------------------------------------------------------------------------
(* IGPUDescriptorSet, modelled from the specification.                     *)

\* validateWrite: the layout's type of the binding if the write matches it.
ValidateWrite(w) ==
    IF Layout[w.dstSet][w.binding] = w.type THEN w.type ELSE ET_COUNT

\* validateCopy: the binding's type if both sides agree on it.
ValidateCopy(c) ==
    IF Layout[c.dstSet][c.binding] = Layout[c.srcSet][c.binding]
    THEN Layout[c.dstSet][c.binding] ELSE ET_COUNT

\* wasCreatedBy(this) / isCompatibleDevicewise.
CreatedHere(s) == s # NULL /\ s \in Own

-----------------------------------------------------------------------------
(* The validation loops: the categorising switch of lines 511-529, with    *)
(* outCategory advanced after every write.                                 *)

\* Faulty variant of CountWrite: pWriteTypes is filled but the cursor is
\* never advanced.
CountWriteNoAdvance(p, t) ==
    LET c == Category(t)
    IN  [p EXCEPT
           !.writeTypes  = IF @ = << >> THEN <<t>> ELSE [@ EXCEPT ![1] = t],
           !.buffers     = @ + (IF c = "EC_BUFFER" THEN 1 ELSE 0),
           !.images      = @ + (IF c \in {"EC_SAMPLER", "EC_IMAGE"} THEN 1 ELSE 0),
           !.bufferViews = @ + (IF c = "EC_BUFFER_VIEW" THEN 1 ELSE 0),
           !.accels      = @ + (IF c = "EC_ACCELERATION_STRUCTURE" THEN 1 ELSE 0),
           !.accelWrites = @ + (IF c = "EC_ACCELERATION_STRUCTURE" THEN 1 ELSE 0)]

\* One validated write of one descriptor (write.count = 1): record its type
\* at *outCategory and add it to its category's count.
CountWrite(p, t) ==
    LET c == Category(t)
    IN  [p EXCEPT
           !.writeTypes  = Append(@, t),
           !.buffers     = @ + (IF c = "EC_BUFFER" THEN 1 ELSE 0),
           !.images      = @ + (IF c \in {"EC_SAMPLER", "EC_IMAGE"} THEN 1 ELSE 0),
           !.bufferViews = @ + (IF c = "EC_BUFFER_VIEW" THEN 1 ELSE 0),
           !.accels      = @ + (IF c = "EC_ACCELERATION_STRUCTURE" THEN 1 ELSE 0),
           !.accelWrites = @ + (IF c = "EC_ACCELERATION_STRUCTURE" THEN 1 ELSE 0)]

\* The copy loop accepts every copy.
CopiesValid(cs) ==
    \A i \in DOMAIN cs :
        /\ CreatedHere(cs[i].dstSet)
        /\ CreatedHere(cs[i].srcSet)
        /\ ValidateCopy(cs[i]) # ET_COUNT

\* processWrite and processCopy, in batch order: writes first, then copies.
ProcessWrite(d, w) == [d EXCEPT ![w.dstSet][w.binding] = w.value]
ProcessCopy(d, c)  == [d EXCEPT ![c.dstSet][c.binding] = d[c.srcSet][c.binding]]

Init ==
    /\ desc = [s \in Sets |-> [b \in Bindings |-> EMPTY]]
    /\ ret = TRUE
    /\ batch = NoBatch
    /\ implParams = NoParams
    /\ step = "idle" /\ cursor = 1 /\ params = NoParams
    /\ before = [desc |-> desc, implParams |-> implParams]

\* The call starts with empty params and its first loop at i = 0.
StartCall(b, first) ==
    /\ step = "idle" /\ batch = NoBatch
    /\ batch' = b
    /\ step' = first /\ cursor' = 1 /\ params' = NoParams
    /\ before' = [desc |-> desc, implParams |-> implParams]
    /\ UNCHANGED <<desc, ret, implParams>>

\* updateDescriptorSets(descriptorWrites, descriptorCopies), line 490.
UpdateDescriptorSets(ws, cs) ==
    StartCall([writes |-> ws, copies |-> cs, drops |-> << >>], "writes")

\* nullifyDescriptors(dropDescriptors), line 576.
NullifyDescriptors(ds) ==
    StartCall([writes |-> << >>, copies |-> << >>, drops |-> ds], "drops")

\* An early `return false`: nothing applied, no backend call.
Fail ==
    /\ step' = "done" /\ ret' = FALSE
    /\ UNCHANGED <<desc, batch, implParams, cursor, params, before>>

\* Faulty variant of WriteLoop: each write is applied as soon as it
\* validates, so a bad entry later in the batch leaves it applied.
WriteLoopEager ==
    /\ step = "writes"
    /\ IF cursor <= Len(batch.writes)
       THEN LET w == batch.writes[cursor] IN
            IF CreatedHere(w.dstSet) /\ Category(ValidateWrite(w)) # "EC_COUNT"
            THEN /\ params' = CountWrite(params, ValidateWrite(w))
                 /\ desc' = ProcessWrite(desc, w)
                 /\ cursor' = cursor + 1
                 /\ UNCHANGED <<ret, batch, implParams, step, before>>
            ELSE Fail
       ELSE /\ step' = "copies" /\ cursor' = 1
            /\ UNCHANGED <<desc, ret, batch, implParams, params, before>>

\* One iteration of the write loop (lines 497-533): a null or foreign set,
\* or a type validateWrite does not categorise, returns false; else the
\* write is counted.  After the last write the copy loop starts.
WriteLoop ==
    /\ step = "writes"
    /\ IF cursor <= Len(batch.writes)
       THEN LET w == batch.writes[cursor] IN
            IF CreatedHere(w.dstSet) /\ Category(ValidateWrite(w)) # "EC_COUNT"
            THEN /\ params' = CountWrite(params, ValidateWrite(w))
                 /\ cursor' = cursor + 1
                 /\ UNCHANGED <<desc, ret, batch, implParams, step, before>>
            ELSE Fail
       ELSE /\ step' = "copies" /\ cursor' = 1
            /\ UNCHANGED <<desc, ret, batch, implParams, params, before>>

\* One iteration of the copy loop (lines 535-558).
CopyLoop ==
    /\ step = "copies"
    /\ IF cursor <= Len(batch.copies)
       THEN IF CopiesValid(<<batch.copies[cursor]>>)
            THEN /\ cursor' = cursor + 1
                 /\ UNCHANGED <<desc, ret, batch, implParams, step, params, before>>
            ELSE Fail
       ELSE /\ step' = "apply"
            /\ UNCHANGED <<desc, ret, batch, implParams, cursor, params, before>>

\* Lines 560-573: processWrite for every write, then processCopy for every
\* copy, then the one backend call, and true.
ApplyUpdate ==
    /\ step = "apply"
    /\ desc' = FoldLeft(ProcessCopy, FoldLeft(ProcessWrite, desc, batch.writes), batch.copies)
    /\ implParams' = params
    /\ ret' = TRUE /\ step' = "done"
    /\ UNCHANGED <<batch, cursor, params, before>>

\* One iteration of the drop loop (lines 578-619): a null or foreign set,
\* or a binding of no category, returns false; else the drop is counted
\* (SDropDescriptorSetsParams has no pWriteTypes).
DropLoop ==
    /\ step = "drops"
    /\ IF cursor <= Len(batch.drops)
       THEN LET d == batch.drops[cursor]
                t == Layout[d.dstSet][d.binding] IN
            IF CreatedHere(d.dstSet) /\ Category(t) # "EC_COUNT"
            THEN /\ params' = [CountWrite(params, t) EXCEPT !.writeTypes = << >>]
                 /\ cursor' = cursor + 1
                 /\ UNCHANGED <<desc, ret, batch, implParams, step, before>>
            ELSE Fail
       ELSE /\ step' = "applyDrops"
            /\ UNCHANGED <<desc, ret, batch, implParams, cursor, params, before>>

\* Lines 621-628: dropDescriptors for every drop, the backend, true.
ApplyDrops ==
    /\ step = "applyDrops"
    /\ desc' = FoldLeft(LAMBDA dd, x : [dd EXCEPT ![x.dstSet][x.binding] = EMPTY],
                        desc, batch.drops)
    /\ implParams' = params
    /\ ret' = TRUE /\ step' = "done"
    /\ UNCHANGED <<batch, cursor, params, before>>

\* Neither call reads anything but its batch, the sets' layouts and the
\* descriptors it copies, so a behaviour is one call on fresh sets: a write
\* followed by a copy in the same batch covers the state a copy can read.
Next ==
  \/ step = "idle" /\ batch = NoBatch
     /\ \/ \E ws \in Batches(Write, MaxWrites), cs \in Batches(Copy, MaxCopies) :
              UpdateDescriptorSets(ws, cs)
        \/ \E ds \in Batches(Drop, MaxDrops) : NullifyDescriptors(ds)
  \/ WriteLoop \/ CopyLoop \/ ApplyUpdate \/ DropLoop \/ ApplyDrops

Spec == Init /\ [][Next]_vars

-----------------------------------------------------------------------------
(* Properties.                                                             *)

Params == [buffers : Nat, images : Nat, bufferViews : Nat, accels : Nat,
           accelWrites : Nat, writeTypes : Seq(DescTypes)]

TypeOK ==
    /\ desc \in [Sets -> [Bindings -> Values \cup {EMPTY}]]
    /\ ret \in BOOLEAN
    /\ batch \in [writes : Seq(Write), copies : Seq(Copy), drops : Seq(Drop)]
    /\ implParams \in Params /\ params \in Params
    /\ step \in {"idle", "writes", "copies", "apply", "drops", "applyDrops", "done"}

\* A call that returns false leaves every descriptor set as it was when
\* the call started and never reaches the backend: one bad write, copy or
\* drop anywhere in the batch, found after earlier entries validated,
\* cancels them all (section 8, "no partial mutation").
AllOrNothing ==
    step = "done" /\ ~ret =>
        /\ desc = before.desc
        /\ implParams = before.implParams

\* Entries of a batch, by category of the type of the binding they touch.
InCategory(es, cats) ==
    Cardinality({i \in DOMAIN es : Category(Layout[es[i].dstSet][es[i].binding]) \in cats})

\* The backend call of a successful batch is sized for the batch: one
\* pWriteTypes entry per write, holding that write's binding type in the
\* write's own position, and per-category counts equal to the entries of
\* each category; a shifted or short pWriteTypes makes the backend treat
\* a write as the wrong kind of descriptor.
BackendParamsMatch ==
    LET es == batch.writes \o batch.drops
    IN  step = "done" /\ ret =>
          /\ implParams.writeTypes =
                [i \in DOMAIN batch.writes |-> Layout[batch.writes[i].dstSet][batch.writes[i].binding]]
          /\ implParams.buffers = InCategory(es, {"EC_BUFFER"})
          /\ implParams.images = InCategory(es, {"EC_SAMPLER", "EC_IMAGE"})
          /\ implParams.bufferViews = InCategory(es, {"EC_BUFFER_VIEW"})
          /\ implParams.accels = InCategory(es, {"EC_ACCELERATION_STRUCTURE"})

=============================================================================
