------------------------------ MODULE ObjectCache ------------------------------
(***************************************************************************)
(* The object caches of include/CObjectCache.h, by container:             *)
(*   "vector"        CObjectCache<K,T>            (sorted std::vector)     *)
(*   "multi_vector"  CMultiObjectCache<K,T>       (sorted std::vector)     *)
(*   "map"           CObjectCache<K,T,std::map>                            *)
(*   "multimap"      CMultiObjectCache<K,T,std::multimap>                  *)
(* All keep <<key, T*>> pairs ordered by key (the ordered containers do    *)
(* so themselves; the vector caches insert at the binary-search position)  *)
(* and call the user's greeting function when a pointer is taken into the *)
(* cache and the disposal function when it is let go (typically grab /    *)
(* drop of a reference count).  refs[v] counts greet(v) minus dispose(v):  *)
(* the number of references the cache has taken on v.  The unordered       *)
(* containers are not modelled.                                            *)
(***************************************************************************)
EXTENDS Integers, Sequences, SequencesExt, FiniteSets

CONSTANTS
    Keys,        \* key values, compared with < as the code does
    Objects,     \* non-null object pointers (model values)
    NULL,        \* nullptr
    Kinds,       \* the cache classes a run instantiates (see above)
    Ops,         \* the operations a run lets the client call
    MaxEntries,  \* bound: longest container the model lets the client build
    MaxRefs      \* bound: most references the cache may hold on one value

ASSUME Keys \subseteq Int /\ NULL \notin Objects /\ Kinds \subseteq {"vector", "multi_vector", "map", "multimap"}
ASSUME Ops \subseteq {"insert", "swap", "reserve", "remove", "destroy"}
ASSUME MaxEntries \in Nat /\ MaxRefs \in Nat

Values == Objects \cup {NULL}
Entry  == [key : Keys, val : Values]

VARIABLES
    container,   \* m_container: sequence of entries
    refs,        \* greet(v) calls minus dispose(v) calls, per pointer v
    ret,         \* value returned by the last call (NULL after a void call)
    alive,       \* FALSE once the destructor ran
    kind         \* the cache class

vars == <<container, refs, ret, alive, kind>>

\* CMultiCache_tag: the multi caches; is_assoc_container and
\* is_multi_container: the ordered-map containers.
Multi == kind \in {"multi_vector", "multimap"}
Assoc == kind \in {"map", "multimap"}

-----------------------------------------------------------------------------
(* Helpers: the standard algorithms the code calls on the vector.          *)

\* std::lower_bound comparing keys only: first position whose key is not
\* below k, Len+1 (end) if none.  On a sorted vector this is the binary
\* search's answer.
LowerBound(s, k) ==
    LET i == SelectInSeq(s, LAMBDA e : ~(e.key < k))
    IN  IF i = 0 THEN Len(s) + 1 ELSE i

\* std::upper_bound comparing keys only: first position whose key is above k.
UpperBound(s, k) ==
    LET i == SelectInSeq(s, LAMBDA e : k < e.key)
    IN  IF i = 0 THEN Len(s) + 1 ELSE i

\* Count of entries holding pointer v.
Holding(s, v) == Cardinality({i \in DOMAIN s : s[i].val = v})

\* greet(v) n times / dispose(v) once, as updates of the reference ledger.
Greeted(r, v, n) == [r EXCEPT ![v] = @ + n]
Disposed(r, v)   == [r EXCEPT ![v] = @ - 1]

\* Model bound on the ledger, so that leaking runs stay finite.
CanGreet(v, n) == refs[v] + n <= MaxRefs

\* Room for one more entry (model bound MaxEntries).
HasRoom == Len(container) < MaxEntries

\* Position range [first, second) findRange(k) answers.
\* CUniqObjectCacheBase<true>::findRange: lower_bound of the pair {k,nullptr}
\* (pair order: nullptr is below every pointer, so this is the key-only
\* lower bound), then a range of at most one element.
UniqFindRange(s, k) ==
    LET it == LowerBound(s, k)
    IN  IF it > Len(s) \/ s[it].key > k
        THEN [first |-> it, second |-> it]
        ELSE [first |-> it, second |-> it + 1]

\* CMultiObjectCacheBase<false>::findRange_internal: lower_bound, and if a
\* key was hit the upper_bound after it.
MultiFindRange(s, k) ==
    LET lo == LowerBound(s, k)
    IN  IF lo > Len(s) \/ k < s[lo].key
        THEN [first |-> lo, second |-> lo]
        ELSE [first |-> lo, second |-> UpperBound(s, k)]

FindRange(s, k) == IF Multi THEN MultiFindRange(s, k) ELSE UniqFindRange(s, k)

RangeIdx(r) == r.first .. (r.second - 1)

\* Where insert() puts a new pair: the vector caches at the lower_bound
\* (INSERT_IMPL_VEC), std::multimap::insert at the upper end of the equal
\* range; std::map only inserts an absent key, where both coincide.
InsertPos(s, k) == IF Multi /\ Assoc THEN UpperBound(s, k) ELSE LowerBound(s, k)

-----------------------------------------------------------------------------
(* Operations.  Every one runs under the caller's thread with no lock: the *)
(* cache is not thread-safe, so each call is one atomic step.              *)

Init ==
    /\ container = << >>
    /\ refs = [v \in Values |-> 0]
    /\ ret = NULL
    /\ alive = TRUE
    /\ kind \in Kinds

\* Faulty variant of Insert: appends at the end instead of at the
\* lower_bound position, so the vector stops being sorted by key.
InsertPushBack(k, v) ==
    LET verified == Multi \/ ~\E i \in DOMAIN container : container[i].key = k
    IN  /\ "insert" \in Ops /\ alive /\ HasRoom /\ CanGreet(v, 1)
        /\ IF verified
           THEN /\ container' = Append(container, [key |-> k, val |-> v])
                /\ refs' = Greeted(refs, v, 1)
           ELSE UNCHANGED <<container, refs>>
        /\ ret' = verified
        /\ UNCHANGED <<alive, kind>>

\* insert(_key, _val) via INSERT_IMPL_VEC or INSERT_IMPL_ASSOC.  The unique
\* caches' CPreInsertionVerifier rejects a key already present (the vector
\* one by comparing with the lower_bound, the map one by insert's bool);
\* the multi caches' verifier accepts everything.  greet happens only on
\* insertion.
Insert(k, v) ==
    LET it       == LowerBound(container, k)
        verified == Multi \/ ~(it <= Len(container) /\ ~(k < container[it].key))
    IN  /\ "insert" \in Ops /\ alive /\ HasRoom /\ CanGreet(v, 1)
        /\ IF verified
           THEN /\ container' = InsertAt(container, InsertPos(container, k), [key |-> k, val |-> v])
                /\ refs' = Greeted(refs, v, 1)
           ELSE UNCHANGED <<container, refs>>
        /\ ret' = verified
        /\ UNCHANGED <<alive, kind>>

\* Faulty variant of UniqSwapObjectValue: the new value is not greeted.
UniqSwapNoGreet(k, o, v) ==
    LET r  == UniqFindRange(container, k)
        it == r.first
    IN  IF r.second > r.first /\ container[it].val = o
        THEN /\ container' = [container EXCEPT ![it].val = v]
             /\ refs' = Disposed(refs, o)
             /\ ret' = FALSE
        ELSE /\ container' = IF Assoc /\ r.second > r.first THEN container
                             ELSE InsertAt(container, it, [key |-> k, val |-> v])
             /\ UNCHANGED refs
             /\ ret' = TRUE

\* CUniqObjectCacheBaseExt::swapObjectValue: greet the new value first,
\* replace the found entry if it holds _obj, otherwise insert at range.first:
\* the vector inserts there whatever it holds; std::map's hinted insert is
\* ignored when the key is present.
UniqSwapObjectValue(k, o, v) ==
    LET r  == UniqFindRange(container, k)
        it == r.first
    IN  IF r.second > r.first /\ container[it].val = o
        THEN /\ container' = [container EXCEPT ![it].val = v]
             /\ refs' = Disposed(Greeted(refs, v, 1), o)
             /\ ret' = FALSE
        ELSE /\ container' = IF Assoc /\ r.second > r.first THEN container
                             ELSE InsertAt(container, it, [key |-> k, val |-> v])
             /\ refs' = Greeted(refs, v, 1)
             /\ ret' = TRUE

\* CMultiObjectCacheBaseExt::swapObjectValue: greet the new value first; if
\* an entry of the key range holds _obj replace it; otherwise insert at
\* range.second, or, when the range ends at the container's end, through
\* insert(), which greets the value a second time.
MultiSwapObjectValue(k, o, v) ==
    LET r     == MultiFindRange(container, k)
        hits  == {i \in RangeIdx(r) : container[i].val = o}
        found == CHOOSE i \in hits : \A j \in hits : i <= j
        e     == [key |-> k, val |-> v]
    IN  IF hits # {}
        THEN /\ container' = [container EXCEPT ![found].val = v]
             /\ refs' = Disposed(Greeted(refs, v, 1), o)
             /\ ret' = FALSE
        ELSE /\ IF r.second <= Len(container)
                THEN /\ container' = InsertAt(container, r.second, e)
                     /\ refs' = Greeted(refs, v, 1)
                ELSE /\ container' = InsertAt(container, InsertPos(container, k), e)
                     /\ refs' = Greeted(refs, v, 2)
             /\ ret' = TRUE

SwapObjectValue(k, o, v) ==
    /\ "swap" \in Ops /\ alive /\ HasRoom /\ CanGreet(v, 2)
    /\ IF Multi THEN MultiSwapObjectValue(k, o, v) ELSE UniqSwapObjectValue(k, o, v)
    /\ UNCHANGED <<alive, kind>>

\* getKeyRangeOrReserve(_outrange, _key): when no entry has the key, reserve
\* one holding nullptr and greet nullptr.  The unique cache inserts into the
\* vector directly; the multi cache calls insert(), which greets nullptr
\* itself, and then greets it again.
GetKeyRangeOrReserve(k) ==
    LET r == FindRange(container, k)
    IN  /\ "reserve" \in Ops /\ alive /\ HasRoom /\ CanGreet(NULL, 2)
        /\ IF r.second = r.first
           THEN /\ container' = InsertAt(container, r.first, [key |-> k, val |-> NULL])
                /\ refs' = Greeted(refs, NULL, IF Multi THEN 2 ELSE 1)
                /\ ret' = FALSE
           ELSE /\ UNCHANGED <<container, refs>>
                /\ ret' = TRUE
        /\ UNCHANGED <<alive, kind>>

\* Faulty variant of UniqRemoveObject: erases without disposing.
UniqRemoveNoDispose(o, k) ==
    LET r == UniqFindRange(container, k)
    IN  IF r.second > r.first /\ container[r.first].val = o
        THEN /\ container' = RemoveAt(container, r.first)
             /\ UNCHANGED refs
        ELSE UNCHANGED <<container, refs>>

\* Faulty variant of UniqRemoveObject: disposes _obj whether or not the
\* entry under _key held it.
UniqRemoveDisposeAlways(o, k) ==
    LET r == UniqFindRange(container, k)
    IN  /\ IF r.second > r.first /\ container[r.first].val = o
           THEN container' = RemoveAt(container, r.first)
           ELSE UNCHANGED container
        /\ refs' = Disposed(refs, o)

\* removeObject(_obj, _key).  The unique cache disposes the entry it erases;
\* the multi cache erases the first entry of the range holding _obj and
\* does not dispose it.
UniqRemoveObject(o, k) ==
    LET r == UniqFindRange(container, k)
    IN  IF r.second > r.first /\ container[r.first].val = o
        THEN /\ container' = RemoveAt(container, r.first)
             /\ refs' = Disposed(refs, o)
        ELSE UNCHANGED <<container, refs>>

MultiRemoveObject(o, k) ==
    LET hits == {i \in RangeIdx(MultiFindRange(container, k)) : container[i].val = o}
    IN  IF hits # {}
        THEN /\ container' = RemoveAt(container, CHOOSE i \in hits : \A j \in hits : i <= j)
             /\ UNCHANGED refs
        ELSE UNCHANGED <<container, refs>>

RemoveObject(o, k) ==
    /\ "remove" \in Ops /\ alive
    /\ IF Multi THEN MultiRemoveObject(o, k) ELSE UniqRemoveObject(o, k)
    /\ ret' = NULL
    /\ UNCHANGED <<alive, kind>>

\* ~CObjectCacheBase: dispose every stored pointer; the object is gone.
Destroy ==
    /\ "destroy" \in Ops /\ alive
    /\ refs' = [v \in Values |-> refs[v] - Holding(container, v)]
    /\ container' = << >>
    /\ ret' = NULL
    /\ alive' = FALSE
    /\ UNCHANGED kind

Next ==
    \/ \E k \in Keys, v \in Values : Insert(k, v)
    \/ \E k \in Keys, o, v \in Values : SwapObjectValue(k, o, v)
    \/ \E k \in Keys : GetKeyRangeOrReserve(k)
    \/ \E k \in Keys, o \in Values : RemoveObject(o, k)
    \/ Destroy

Spec == Init /\ [][Next]_vars

-----------------------------------------------------------------------------
(* Properties.                                                             *)

\* Type of every variable; in particular the cache never disposes a pointer
\* more often than it greeted it (no ledger goes below zero), which a
\* drop of a pointer the cache does not hold would cause.
TypeOK ==
    /\ container \in Seq(Entry) /\ Len(container) <= MaxEntries
    /\ refs \in [Values -> 0 .. MaxRefs]
    /\ ret \in BOOLEAN \cup {NULL}
    /\ alive \in BOOLEAN
    /\ kind \in Kinds

\* The greeting and disposal callbacks stay balanced: for every pointer, the
\* references the cache took (greet) minus those it gave back (dispose)
\* equal the number of entries holding it, through insert, swapObjectValue,
\* getKeyRangeOrReserve, removeObject and the destructor.  A surplus is a
\* reference the cache leaks; a deficit is a drop of a pointer it holds.
RefsBalanced ==
    \A v \in Values : refs[v] = Holding(container, v)

\* Every pointer the cache holds is covered by a reference it took: for each
\* pointer, greet calls minus dispose calls are at least the entries
\* holding it, in every cache class and through every operation, so no
\* stored pointer can be dropped (and freed) under the cache.  Leaks (a
\* surplus) are allowed here; RefsBalanced is the exact ledger.
RefsCover ==
    \A v \in Values : refs[v] >= Holding(container, v)

\* CObjectCache over a vector keeps the exact ledger.
VectorRefsBalanced == kind = "vector" => RefsBalanced

\* Every stored entry can be found again: it lies in the range findRange
\* answers for its key, so lookups, swapObjectValue and removeObject reach
\* it.  For the unique cache the range has one element, so this also says
\* no key is stored twice.
EntriesReachable ==
    \A i \in DOMAIN container :
        i \in RangeIdx(FindRange(container, container[i].key))

\* The caches other than CObjectCache over a vector keep every entry
\* reachable: the multi caches insert inside or at the end of the key's
\* range, and std::map ignores a swap's insert of a key it holds.
OthersEntriesReachable == kind # "vector" => EntriesReachable

=============================================================================
