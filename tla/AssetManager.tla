---------------------------- MODULE AssetManager ----------------------------
(* IAssetManager's loading path (src/src/nbl/asset/IAssetManager.cpp):     *)
(* getAssetInHierarchy_impl with its cache lookup, its two loader loops    *)
(* and its insertions, and insertBuiltinAssets.  A loader's loadAsset asks *)
(* the manager for the file's dependencies at hierarchyLevel + 1 before it *)
(* returns, so the recursion is an explicit stack of frames, the top one   *)
(* at the head.  The asset cache is a multi cache keyed by file name; a    *)
(* bundle's contents are abstracted away, so the cache counts the bundles  *)
(* held under each key.  The override, the file system and the loaders'   *)
(* results are collaborators the code does not constrain: their answers    *)
(* are chosen nondeterministically.                                        *)
EXTENDS Integers, Sequences

CONSTANTS
    Files,          \* file names a load may ask for
    Builtins,       \* the keys insertBuiltinAssets inserts (a subset of Files)
    Loaders,        \* m_loaders.vector, in addAssetLoader order
    PerExt,         \* PerExt[f]: m_loaders.perFileExt.findRange(ext of f)
    Loadable,       \* Loadable[f]: the loaders whose isALoadableFileFormat accepts f
    Deps,           \* Deps[f]: the files f's loader asks for, in order (acyclic)
    FlagChoices,    \* the SAssetLoadParams::cacheFlags a caller may pass
    MaxRequests     \* bound on top-level getAsset calls

VARIABLES
    frames,         \* the getAssetInHierarchy_impl calls in progress, innermost first
    cache,          \* cache[f]: bundles held under key f
    cacheFlags,     \* params.cacheFlags of the current top-level call
    builtins,       \* insertBuiltinAssets has run
    requests,       \* top-level calls made
    dupFlagged      \* history: some call passed a DUPLICATE bit

amvars == <<frames, cache, cacheFlags, builtins, requests, dupFlagged>>

\* Two bits per hierarchy level: levelFlags = cacheFlags >> (level * 2).
ECF_DONT_CACHE_TOP_LEVEL == 1
ECF_DUPLICATE_TOP_LEVEL  == 2
LevelFlags(level) == (cacheFlags \div 2^(2 * level)) % 4
HasFlag(level, flag) == (LevelFlags(level) \div flag) % 2 = 1

\* Some level's two bits of flags have ECF_DUPLICATE_TOP_LEVEL set.
RECURSIVE HasDuplicateBit(_)
HasDuplicateBit(flags) == flags > 0 /\ (flags % 4 >= 2 \/ HasDuplicateBit(flags \div 4))

Frame == [file : Files, level : Nat,
          pc : {"open", "perExt", "all", "load", "loadFail"},
          phase : {"perExt", "all"}, idx : Nat, dep : Nat]

Top == Head(frames)

\* The current call returns to its caller: a loader in the middle of its
\* dependencies goes on with the next one.
Return ==
    frames' = IF Len(frames) = 1 THEN <<>>
              ELSE <<[Head(Tail(frames)) EXCEPT !.dep = @ + 1]>> \o Tail(Tail(frames))

SetTop(f) == frames' = <<f>> \o Tail(frames)

\* _override->insertAssetIntoCache / insertBuiltinAssetIntoCache.
Insert(keys) == cache' = [k \in Files |-> IF k \in keys THEN cache[k] + 1 ELSE cache[k]]

\* insertBuiltinAssets: the two default samplers, the dummy 2D image and
\* its view, each keyed by its builtin path (run by the manager's
\* constructor, before any load).
InsertBuiltinAssets ==
    /\ ~builtins
    /\ Insert(Builtins)
    /\ builtins' = TRUE
    /\ UNCHANGED <<frames, cacheFlags, requests, dupFlagged>>

\* getAsset(filename, params): getAssetInHierarchy at level 0.
GetAsset ==
    /\ builtins /\ frames = <<>> /\ requests < MaxRequests
    /\ \E f \in Files, flags \in FlagChoices :
        /\ frames' = <<[file |-> f, level |-> 0,
                        pc |-> "open", phase |-> "perExt", idx |-> 1, dep |-> 1]>>
        /\ cacheFlags' = flags
        /\ dupFlagged' = (dupFlagged \/ HasDuplicateBit(flags))
    /\ requests' = requests + 1
    /\ UNCHANGED <<cache, builtins>>

\* A lookup that never finds the key.
OpenNoLookup ==
    LET miss == TRUE IN
    /\ frames # <<>> /\ Top.pc = "open"
    /\ \/ ~miss /\ Return
       \/ miss /\ Return
       \/ miss /\ SetTop([Top EXCEPT !.pc = "perExt", !.idx = 1])
    /\ UNCHANGED <<cache, cacheFlags, builtins, requests, dupFlagged>>

\* Lines 194-216: getLoadFile may or may not open the file; unless the
\* level's flags say DUPLICATE, a cached key returns
\* chooseRelevantFromFound and a miss asks handleSearchFail, whose
\* non-empty bundle is returned uncached; then no file means an empty
\* bundle, and a file goes to the per-extension loaders.
Open ==
    LET miss == HasFlag(Top.level, ECF_DUPLICATE_TOP_LEVEL) \/ cache[Top.file] = 0 IN
    /\ frames # <<>> /\ Top.pc = "open"
    /\ \/ ~miss /\ Return                                   \* chooseRelevantFromFound
       \/ miss /\ Return                  \* handleSearchFail's bundle, or no file
       \/ miss /\ SetTop([Top EXCEPT !.pc = "perExt", !.idx = 1])
    /\ UNCHANGED <<cache, cacheFlags, builtins, requests, dupFlagged>>

\* The loader loops without advancing past a loader that rejects the file.
TryLoaderNoAdvance ==
    /\ frames # <<>> /\ Top.pc \in {"perExt", "all"}
    /\ LET seq == IF Top.pc = "perExt" THEN PerExt[Top.file] ELSE Loaders IN
        \/ Top.idx > Len(seq) /\ Top.pc = "perExt"
           /\ SetTop([Top EXCEPT !.pc = "all", !.idx = 1])
        \/ Top.idx > Len(seq) /\ Top.pc = "all"
           /\ SetTop([Top EXCEPT !.pc = "loadFail"])
        \/ Top.idx <= Len(seq) /\ seq[Top.idx] \notin Loadable[Top.file]
           /\ SetTop(Top)
        \/ Top.idx <= Len(seq) /\ seq[Top.idx] \in Loadable[Top.file]
           /\ SetTop([Top EXCEPT !.phase = Top.pc, !.pc = "load", !.dep = 1])
    /\ UNCHANGED <<cache, cacheFlags, builtins, requests, dupFlagged>>

\* Lines 219-230, one iteration of either loader loop: the loader at idx
\* (of the extension's range, then of the whole vector) is skipped unless
\* it accepts the file, else its loadAsset starts; past the end of the
\* range the whole vector is tried, past its end handleLoadFail follows.
TryLoader ==
    /\ frames # <<>> /\ Top.pc \in {"perExt", "all"}
    /\ LET seq == IF Top.pc = "perExt" THEN PerExt[Top.file] ELSE Loaders IN
        \/ Top.idx > Len(seq) /\ Top.pc = "perExt"
           /\ SetTop([Top EXCEPT !.pc = "all", !.idx = 1])
        \/ Top.idx > Len(seq) /\ Top.pc = "all"
           /\ SetTop([Top EXCEPT !.pc = "loadFail"])
        \/ Top.idx <= Len(seq) /\ seq[Top.idx] \notin Loadable[Top.file]
           /\ SetTop([Top EXCEPT !.idx = @ + 1])
        \/ Top.idx <= Len(seq) /\ seq[Top.idx] \in Loadable[Top.file]
           /\ SetTop([Top EXCEPT !.phase = Top.pc, !.pc = "load", !.dep = 1])
    /\ UNCHANGED <<cache, cacheFlags, builtins, requests, dupFlagged>>

\* loadAsset: the loader asks for the file's next dependency at the next
\* hierarchy level (the same params), or, having asked for all of them,
\* returns a bundle or an empty one.  A bundle goes into the cache unless
\* the level's flags say DONT_CACHE or DUPLICATE (lines 232-237); an empty
\* one sends the loop on to its next loader.
Load ==
    /\ frames # <<>> /\ Top.pc = "load"
    /\ \/ /\ Top.dep <= Len(Deps[Top.file])
          /\ frames' = <<[file |-> Deps[Top.file][Top.dep], level |-> Top.level + 1,
                          pc |-> "open", phase |-> "perExt",
                          idx |-> 1, dep |-> 1]>> \o frames
          /\ UNCHANGED cache
       \/ /\ Top.dep > Len(Deps[Top.file])
          /\ IF ~HasFlag(Top.level, ECF_DONT_CACHE_TOP_LEVEL)
                /\ ~HasFlag(Top.level, ECF_DUPLICATE_TOP_LEVEL)
             THEN Insert({Top.file}) ELSE UNCHANGED cache
          /\ Return
       \/ /\ Top.dep > Len(Deps[Top.file])
          /\ SetTop([Top EXCEPT !.pc = Top.phase, !.idx = @ + 1])
          /\ UNCHANGED cache
    /\ UNCHANGED <<cacheFlags, builtins, requests, dupFlagged>>

\* Lines 238-244: every loader failed; handleLoadFail may hand back a
\* bundle and ask for it to be cached, whatever the level's flags.
LoadFail ==
    /\ frames # <<>> /\ Top.pc = "loadFail"
    /\ \/ Insert({Top.file})
       \/ UNCHANGED cache
    /\ Return
    /\ UNCHANGED <<cacheFlags, builtins, requests, dupFlagged>>

AMInit ==
    /\ frames = <<>>
    /\ cache = [f \in Files |-> 0]
    /\ cacheFlags = 0
    /\ builtins = FALSE
    /\ requests = 0
    /\ dupFlagged = FALSE

\* The steps of a call in progress, run by the calling thread.
Step == Open \/ TryLoader \/ Load \/ LoadFail

AMNext == InsertBuiltinAssets \/ GetAsset \/ Step

AMFairness == WF_amvars(Step)

AMSpec == AMInit /\ [][AMNext]_amvars /\ AMFairness

-----------------------------------------------------------------------------

AMTypeOK ==
    /\ frames \in Seq(Frame)
    /\ cache \in [Files -> Nat]
    /\ builtins \in BOOLEAN /\ dupFlagged \in BOOLEAN
    /\ requests \in 0..MaxRequests

\* getAssetInHierarchy_impl looks a key up before loading it and inserts
\* only what it loaded after a miss, across the whole recursion of a
\* hierarchy and across calls: unless some call passed a DUPLICATE bit,
\* the cache never holds two bundles under one key.
UniqueKeys == ~dupFlagged => \A f \in Files : cache[f] <= 1

\* Every getAsset call returns: the recursion through the loaders'
\* dependencies and both loader loops end, for an acyclic dependency graph.
LoadReturns == (frames # <<>>) ~> (frames = <<>>)
=============================================================================
