----------------------------- MODULE SpirvTrimTask -----------------------------
(***************************************************************************)
(* SpirvTrimTask (src/nbl/video/ILogicalDevice.cpp): a map from shader    *)
(* module to the entry points used with it and the module's trimmed copy.  *)
(* insertEntryPoint adds <<entry point, stage>> under the module (nullptr  *)
(* included); trim trims a module once, on its first trim, keeping the     *)
(* entry points recorded by then, and returns the cached copy afterwards.  *)
(* A trimmed module is abstracted to the set of entry points it keeps.     *)
(***************************************************************************)
EXTENDS Integers, Sequences, SequencesExt

CONSTANTS
    Shaders,   \* shader modules (IShader pointers)
    Entries,   \* entry point names
    NULL

\* An SShaderSpecInfo: a module, or nullptr for an absent stage, and an entry.
ShaderSpecs == [shader : Shaders \cup {NULL}, entry : Entries]

\* A task: m_shaderInfoMap and the number of trimmer calls made (the
\* shaders appended to trimmedShaders).
EmptyTask == [info |-> [s \in {} |-> 0], trims |-> 0]

\* insertEntryPoint: find or emplace the module's ShaderInfo, then insert.
InsertEntryPoint(task, spec, stage) ==
    LET sh  == spec.shader
        old == IF sh \in DOMAIN task.info THEN task.info[sh]
               ELSE [entryPoints |-> {}, trimmedShader |-> NULL]
        new == [old EXCEPT !.entryPoints = @ \cup {<<spec.entry, stage>>}]
    IN  [task EXCEPT !.info = [s \in DOMAIN task.info \cup {sh} |->
                                  IF s = sh THEN new ELSE task.info[s]]]

\* trim: <<task, trimmed spec>>.  A present module is trimmed with the entry
\* points recorded so far unless it already has a trimmed copy; nullptr is
\* passed through.
Trim(task, spec) ==
    LET sh == spec.shader
    IN  IF sh = NULL THEN <<task, [shader |-> NULL, entry |-> spec.entry]>>
        ELSE IF task.info[sh].trimmedShader = NULL
        THEN LET t == task.info[sh].entryPoints
             IN  << [task EXCEPT !.info[sh].trimmedShader = t, !.trims = @ + 1],
                    [shader |-> t, entry |-> spec.entry] >>
        ELSE << task, [shader |-> task.info[sh].trimmedShader, entry |-> spec.entry] >>

\* A stage list is a sequence of <<spec, stage>> pairs in the order the
\* code visits them.
InsertAll(task, stages) ==
    FoldLeft(LAMBDA t, ss : InsertEntryPoint(t, ss[1], ss[2]), task, stages)

\* Trim every stage in order: <<task, sequence of trimmed specs>>.
TrimEach(task, stages) ==
    FoldLeft(LAMBDA acc, ss : LET r == Trim(acc[1], ss[1])
                              IN  <<r[1], Append(acc[2], r[2])>>,
             <<task, << >>>>, stages)

=============================================================================
