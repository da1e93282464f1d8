----------------------------- MODULE CommandPool -----------------------------
(***************************************************************************)
(* The OpenGL backend's command recording and replay: COpenGLCommandPool   *)
(* (src/src/nbl/video/COpenGLCommandPool.h), whose emplace_n / free_n      *)
(* share one arena under the pool mutex, the commands COpenGLQueryPool     *)
(* (src/src/nbl/video/COpenGLQueryPool.h) records into it and applies at   *)
(* replay, and CProgramUniformCmd's push-constant cache.                   *)
(*                                                                         *)
(* Each command buffer is recorded by its own thread; several threads      *)
(* record into one pool at once.  A recording call emplaces its commands   *)
(* one by one, each emplace taking the mutex, asking the allocator for a   *)
(* record and appending it to the buffer's segment list.  GL contexts (one *)
(* per queue thread, ctxid = queue index) replay submitted buffers one     *)
(* command per step.  The command-buffer side (begin/end/submit/reset,     *)
(* pushConstants, the dispatch that flushes push constants) and the        *)
(* operator() of the query commands are not in this source tree; they are *)
(* modelled from the specification (section 4.6).                          *)
(* The arena is abstracted to record slots, a command to its opcode and    *)
(* the operands the properties tell apart.                                 *)
(***************************************************************************)
EXTENDS Integers, Sequences, FiniteSets, FiniteSetsExt

CONSTANTS
    Buffers,     \* command buffers of the pool; buffer b is recorded by thread b
    Ctxs,        \* GL context ids, 0 .. n-1, also the queue index of m_queries
    MaxQueues,   \* IOpenGLPhysicalDeviceBase::MaxQueues
    QueryCount,  \* params.queryCount of the query pool
    Slots,       \* arena capacity in records (BLOCK_SIZE * MAX_BLOCK_COUNT / MIN_ALLOC_SZ)
    Values,      \* push-constant contents
    MaxCmds,     \* bound: a recording call starts only on a list shorter than this
    NoOwner,     \* the mutex is free
    Locked,      \* an emplace holds the mutex and has not been given a record yet
    None

ASSUME Ctxs \subseteq 0 .. MaxQueues - 1

Queries == 0 .. QueryCount - 1
\* A value of lastQueueToUseArray never written: any uint32; MaxQueues
\* stands for every value at or above it.
QueueIds == 0 .. MaxQueues

\* Commands as recorded; CEndQueryCmd carries GL_SAMPLES_PASSED only.
QueryCmd   == [op : {"BeginQuery", "QueryCounter", "ResetQuery"}, q : Queries]
EndCmd     == [op : {"EndQuery"}]
UniformCmd == [op : {"ProgramUniform"}, packed : Values]
Command    == QueryCmd \cup EndCmd \cup UniformCmd
Record     == [cmd : Command, slot : Slots]

VARIABLES
    workload,     \* "queries" or "uniforms": the recording calls the clients make
    queryType,    \* params.queryType of the query pool
    lock,         \* COpenGLCommandPool::mutex: its owner or NoOwner
    arena,        \* slots the pool's CMemoryPool has handed out
    state,        \* command buffer state (section 4.6)
    cmds,         \* cmds[b]: b's segment list
    todo,         \* todo[b]: commands of b's recording call not yet emplaced
    grab,         \* grab[b]: None, Locked, or the slot the allocator returned
    failed,       \* failed[b]: an emplace of b's list returned nullptr since the last reset
    pushMem,      \* pushMem[b]: b's push-constant memory, where m_baseOffset points
    running,      \* running[c]: buffer replaying on context c, None if idle
    pc,           \* pc[c]: position of the next command to replay on c
    lastQueue,    \* lastQueueToUseArray
    active,       \* active[c]: query begun and not ended on c, None if none
    result,       \* result[c][q]: GL query object (c, q) holds a result
    glUniform,    \* the uniform's value in the program on context c, None if unset
    pcCache,      \* getPushConstantsStateForStage(stage, c): cached contents
    everSet,      \* haveUniformsBeenEverSet(stage, c)
    latestEnd     \* latestEnd[q]: context of the completed submission that last ended q

poolVars  == <<lock, arena, grab>>
glVars    == <<lastQueue, active, result, glUniform, pcCache, everSet>>
ghostVars == <<latestEnd>>
vars == <<workload, queryType, state, cmds, todo, failed, pushMem, running, pc,
          poolVars, glVars, ghostVars>>

-----------------------------------------------------------------------------
(* COpenGLQueryPool's lookups.                                             *)

\* getQueryAt(queueIdx, query): the GL name of query `query` of queue
\* queueIdx, GL_NONE (after a failed assert) when either is out of range.
GetQueryAt(queueIdx, query) ==
    IF queueIdx < MaxQueues /\ query \in Queries THEN <<queueIdx, query>> ELSE "GL_NONE"

\* getLatestQueryAt(query): the query of the queue that last used it.
GetLatestQueryAt(query) == GetQueryAt(lastQueue[query], query)

\* Queries a command list uses.
TouchedBy(list) == {list[i].cmd.q : i \in {j \in DOMAIN list : list[j].cmd \in QueryCmd}}

\* Queries a command list ends: each CBeginQueryCmd is closed by a
\* CEndQueryCmd (End requires it), and a CQueryCounterCmd writes its query.
Ends(list) ==
    {list[i].cmd.q : i \in {j \in DOMAIN list : list[j].cmd.op \in {"BeginQuery", "QueryCounter"}}}

-----------------------------------------------------------------------------
Init ==
    /\ workload \in {"queries", "uniforms"}
    /\ queryType \in {"OCCLUSION", "TIMESTAMP"}
    /\ lock = NoOwner
    /\ arena = {}
    /\ state = [b \in Buffers |-> "INITIAL"]
    /\ cmds = [b \in Buffers |-> << >>]
    /\ todo = [b \in Buffers |-> << >>]
    /\ grab = [b \in Buffers |-> None]
    /\ failed = [b \in Buffers |-> FALSE]
    \* Whatever the memory holds; the queries workload never reads it, so
    \* one content stands for all there.
    /\ pushMem \in [Buffers -> Values]
    /\ workload = "queries" => pushMem = [b \in Buffers |-> CHOOSE v \in Values : TRUE]
    /\ running = [c \in Ctxs |-> None]
    /\ pc = [c \in Ctxs |-> 1]
    \* _NBL_ALIGNED_MALLOC leaves lastQueueToUseArray uninitialised.
    /\ lastQueue \in [Queries -> QueueIds]
    /\ active = [c \in Ctxs |-> None]
    /\ result = [c \in Ctxs |-> [q \in Queries |-> FALSE]]
    /\ glUniform = [c \in Ctxs |-> None]
    \* Not read before the first upload: haveUniformsBeenEverSet is false.
    /\ pcCache = [c \in Ctxs |-> None]
    /\ everSet = [c \in Ctxs |-> FALSE]
    /\ latestEnd = [q \in Queries |-> None]

-----------------------------------------------------------------------------
(* emplace_n: lock the pool mutex, ask the CMemoryPool for a record, and   *)
(* (in IGPUCommandPool::emplace) append it to the buffer's segment list.   *)
(* The allocator reads its free list and then updates it: the mutex is    *)
(* what makes the two one step for other threads.                         *)

\* Faulty variant of EmplaceLock: the record is allocated without the mutex.
EmplaceLockUnchecked(b) ==
    /\ todo[b] # << >>
    /\ grab[b] = None
    /\ lock' = b
    /\ grab' = [grab EXCEPT ![b] = Locked]
    /\ UNCHANGED <<workload, queryType, state, cmds, todo, failed, pushMem, running, pc,
                   arena, glVars, ghostVars>>

\* std::unique_lock<std::mutex> lk(mutex).
EmplaceLock(b) ==
    /\ todo[b] # << >>
    /\ grab[b] = None
    /\ lock = NoOwner
    /\ lock' = b
    /\ grab' = [grab EXCEPT ![b] = Locked]
    /\ UNCHANGED <<workload, queryType, state, cmds, todo, failed, pushMem, running, pc,
                   arena, glVars, ghostVars>>

\* mempool.emplace_n: the allocator picks a free record; with none left it
\* returns nullptr, the emplace fails, the lock is released and the
\* recording call returns false, keeping what it emplaced before.
EmplaceAlloc(b) ==
    /\ grab[b] = Locked
    /\ IF Slots \ arena = {}
       THEN /\ lock' = NoOwner
            /\ grab' = [grab EXCEPT ![b] = None]
            /\ todo' = [todo EXCEPT ![b] = << >>]
            /\ failed' = [failed EXCEPT ![b] = TRUE]
       ELSE /\ grab' = [grab EXCEPT ![b] = Min(Slots \ arena)]
            /\ UNCHANGED <<lock, todo, failed>>
    /\ UNCHANGED <<workload, queryType, state, cmds, pushMem, running, pc, arena,
                   glVars, ghostVars>>

\* The allocator's update, the append to the segment list, and the unlock.
EmplaceCommit(b) ==
    /\ grab[b] \in Slots
    /\ arena' = arena \cup {grab[b]}
    /\ cmds' = [cmds EXCEPT ![b] = Append(@, [cmd |-> Head(todo[b]), slot |-> grab[b]])]
    /\ todo' = [todo EXCEPT ![b] = Tail(@)]
    /\ grab' = [grab EXCEPT ![b] = None]
    /\ lock' = NoOwner
    /\ UNCHANGED <<workload, queryType, state, failed, pushMem, running, pc, glVars, ghostVars>>

-----------------------------------------------------------------------------
(* Recording calls.  A call starts when the previous one is done; the     *)
(* query-pool calls check the pool's type and range first and return      *)
(* false without emplacing anything.  The clients of a behaviour use the *)
(* query pool or push constants (`workload`): the two touch disjoint      *)
(* state, so each is checked without the product of the other.            *)

\* b's thread may make its next recording call.
CanRecord(b) ==
    /\ state[b] = "RECORDING"
    /\ todo[b] = << >>
    /\ grab[b] = None
    /\ Len(cmds[b]) < MaxCmds

StartCall(b, list) ==
    /\ CanRecord(b)
    /\ todo' = [todo EXCEPT ![b] = list]
    /\ UNCHANGED <<workload, queryType, state, cmds, failed, pushMem, running, pc, poolVars,
                   glVars, ghostVars>>

\* The query b's list has begun and not ended, None if none.  A client
\* begins a query only when none is open and ends the one it began (valid
\* usage of vkCmdBeginQuery / vkCmdEndQuery).
OpenQuery(list) ==
    LET begins == {i \in DOMAIN list : list[i].cmd.op = "BeginQuery"}
        ends   == {i \in DOMAIN list : list[i].cmd.op = "EndQuery"}
    IN  IF begins # {} /\ \A e \in ends : e < Max(begins)
        THEN list[Max(begins)].cmd.q ELSE None

\* beginQuery(queryIndex, flags, cmdpool, ...): one CBeginQueryCmd.
BeginQueryCall(b, q) ==
    /\ workload = "queries"
    /\ OpenQuery(cmds[b]) = None
    /\ StartCall(b, IF queryType = "OCCLUSION"
                 THEN << [op |-> "BeginQuery", q |-> q] >> ELSE << >>)

\* Faulty variant of EndQueryCall: only the CEndQueryCmd is emplaced.
EndQueryCallNoReset(b, q) ==
    /\ workload = "queries"
    /\ OpenQuery(cmds[b]) = q
    /\ StartCall(b, IF queryType = "OCCLUSION" THEN << [op |-> "EndQuery"] >> ELSE << >>)

\* endQuery(queryIndex, cmdpool, ...): CEndQueryCmd, then a CResetQueryCmd
\* for the index, which CEndQueryCmd does not carry.
EndQueryCall(b, q) ==
    /\ workload = "queries"
    /\ OpenQuery(cmds[b]) = q
    /\ StartCall(b, IF queryType = "OCCLUSION"
                 THEN << [op |-> "EndQuery"], [op |-> "ResetQuery", q |-> q] >> ELSE << >>)

\* writeTimestamp(queryIndex, cmdpool, ...): CQueryCounterCmd, then a
\* CResetQueryCmd for the index.
WriteTimestampCall(b, q) ==
    /\ workload = "queries"
    /\ StartCall(b, IF queryType = "TIMESTAMP"
                    THEN << [op |-> "QueryCounter", q |-> q], [op |-> "ResetQuery", q |-> q] >>
                    ELSE << >>)

\* Faulty variant of ResetQueriesCall: the range is not checked.
ResetQueriesCallUnchecked(b, q, n) ==
    /\ workload = "queries"
    /\ StartCall(b, [i \in 1 .. n |-> [op |-> "ResetQuery", q |-> q + i - 1]])

\* resetQueries(query, queryCount, cmdpool, ...): one CResetQueryCmd per
\* query of the range, if the range lies within the pool.
ResetQueriesCall(b, q, n) ==
    /\ workload = "queries"
    /\ StartCall(b, IF q + n <= QueryCount
                    THEN [i \in 1 .. n |-> [op |-> "ResetQuery", q |-> q + i - 1]] ELSE << >>)

\* pushConstants: the values land in b's push-constant memory; nothing is
\* emplaced until a draw or dispatch flushes them.
PushConstantsCall(b, v) ==
    /\ workload = "uniforms"
    /\ CanRecord(b)
    /\ pushMem' = [pushMem EXCEPT ![b] = v]
    /\ UNCHANGED <<workload, queryType, state, cmds, todo, failed, running, pc, poolVars,
                   glVars, ghostVars>>

\* A dispatch flushes the push constants: a CProgramUniformCmd carrying
\* the packed values, with m_baseOffset pointing into b's memory.
DispatchCall(b) ==
    /\ workload = "uniforms"
    /\ StartCall(b, << [op |-> "ProgramUniform", packed |-> pushMem[b]] >>)

-----------------------------------------------------------------------------
(* The command buffer's life cycle (IGPUCommandBuffer, from section 4.6).  *)

Begin(b) ==
    /\ state[b] = "INITIAL"
    /\ state' = [state EXCEPT ![b] = "RECORDING"]
    /\ UNCHANGED <<workload, queryType, cmds, todo, failed, pushMem, running, pc, poolVars,
                   glVars, ghostVars>>

\* A client ends the buffer with no query left open, unless a recording
\* call failed (the list is then only reset).
End(b) ==
    /\ state[b] = "RECORDING"
    /\ todo[b] = << >>
    /\ grab[b] = None
    /\ OpenQuery(cmds[b]) = None \/ failed[b]
    /\ state' = [state EXCEPT ![b] = "EXECUTABLE"]
    /\ UNCHANGED <<workload, queryType, cmds, todo, failed, pushMem, running, pc, poolVars,
                   glVars, ghostVars>>

\* Submission to the queue of context c.  The client does not submit a
\* list a failed emplace left partial (section 4.6), nor use a query in two
\* pending submissions at once (valid usage across queues); the results a
\* query had are superseded by this submission.  The push-constant cache
\* is kept per context and shares nothing across contexts, so the
\* uniforms workload submits to context 0 only.
Submit(b, c) ==
    /\ state[b] = "EXECUTABLE"
    /\ workload = "uniforms" => c = 0
    /\ ~failed[b]
    /\ running[c] = None
    /\ \A o \in Buffers \ {b} :
          state[o] = "PENDING" => TouchedBy(cmds[o]) \cap TouchedBy(cmds[b]) = {}
    /\ state' = [state EXCEPT ![b] = "PENDING"]
    /\ running' = [running EXCEPT ![c] = b]
    /\ pc' = [pc EXCEPT ![c] = 1]
    /\ latestEnd' = [q \in Queries |-> IF q \in TouchedBy(cmds[b]) THEN None ELSE latestEnd[q]]
    /\ UNCHANGED <<workload, queryType, cmds, todo, failed, pushMem, poolVars, glVars>>

\* The last command has been replayed: b can be resubmitted.
Complete(c) ==
    LET b == running[c]
    IN  /\ b # None
        /\ pc[c] > Len(cmds[b])
        /\ state' = [state EXCEPT ![b] = "EXECUTABLE"]
        /\ running' = [running EXCEPT ![c] = None]
        /\ latestEnd' = [q \in Queries |-> IF q \in Ends(cmds[b]) THEN c ELSE latestEnd[q]]
        /\ UNCHANGED <<workload, queryType, cmds, todo, failed, pushMem, pc, poolVars, glVars>>

\* reset: every command's record goes back to the arena through free_n,
\* which takes the pool mutex.
Reset(b) ==
    /\ state[b] # "PENDING"
    /\ todo[b] = << >>
    /\ grab[b] = None
    /\ lock = NoOwner
    /\ arena' = arena \ {cmds[b][i].slot : i \in DOMAIN cmds[b]}
    /\ cmds' = [cmds EXCEPT ![b] = << >>]
    /\ state' = [state EXCEPT ![b] = "INITIAL"]
    /\ failed' = [failed EXCEPT ![b] = FALSE]
    /\ UNCHANGED <<workload, queryType, todo, pushMem, running, pc, lock, grab, glVars, ghostVars>>

-----------------------------------------------------------------------------
(* Replay: context c applies the next command of the buffer it runs.      *)

NextCmd(c) == cmds[running[c]][pc[c]].cmd

Replaying(c, op) ==
    /\ running[c] # None
    /\ pc[c] <= Len(cmds[running[c]])
    /\ NextCmd(c).op = op
    /\ pc' = [pc EXCEPT ![c] = @ + 1]

\* CBeginQueryCmd -> beginQuery(gl, ctxid, queryIndex, flags): an occlusion
\* pool begins GL_SAMPLES_PASSED on getQueryAt(ctxid, queryIndex).
ReplayBeginQuery(c) ==
    /\ Replaying(c, "BeginQuery")
    /\ active' = [active EXCEPT ![c] = IF queryType = "OCCLUSION" THEN NextCmd(c).q ELSE @]
    /\ UNCHANGED <<workload, queryType, state, cmds, todo, failed, pushMem, running, poolVars,
                   lastQueue, result, glUniform, pcCache, everSet,
                   latestEnd>>

\* CEndQueryCmd: glEndQuery(GL_SAMPLES_PASSED) ends the query active on
\* the context (a GL error and no effect if none is); lastQueueToUseArray
\* is not touched (the command has no index).
ReplayEndQuery(c) ==
    /\ Replaying(c, "EndQuery")
    /\ IF active[c] # None
       THEN /\ result' = [result EXCEPT ![c][active[c]] = TRUE]
            /\ active' = [active EXCEPT ![c] = None]
       ELSE UNCHANGED <<result, active>>
    /\ UNCHANGED <<workload, queryType, state, cmds, todo, failed, pushMem, running, poolVars,
                   lastQueue, glUniform, pcCache, everSet, latestEnd>>

\* CQueryCounterCmd -> writeTimestamp(gl, ctxid, queryIndex): a timestamp
\* pool writes GL_TIMESTAMP into getQueryAt(ctxid, queryIndex) and records
\* ctxid as the query's last queue.
ReplayQueryCounter(c) ==
    LET q == NextCmd(c).q
    IN  /\ Replaying(c, "QueryCounter")
        /\ queryType = "TIMESTAMP"
        /\ result' = [result EXCEPT ![c][q] = TRUE]
        /\ lastQueue' = [lastQueue EXCEPT ![q] = c]
        /\ UNCHANGED <<workload, queryType, state, cmds, todo, failed, pushMem, running, poolVars,
                       active, glUniform, pcCache, everSet, latestEnd>>

\* CResetQueryCmd -> resetQueries(gl, ctxid, queryIndex, 1): no GL call,
\* only lastQueueToUseArray[queryIndex] = ctxid.
ReplayResetQuery(c) ==
    LET q == NextCmd(c).q
    IN  /\ Replaying(c, "ResetQuery")
        /\ lastQueue' = [lastQueue EXCEPT ![q] = IF q + 1 <= QueryCount THEN c ELSE @]
        /\ UNCHANGED <<workload, queryType, state, cmds, todo, failed, pushMem, running, poolVars,
                       active, result, glUniform, pcCache, everSet,
                       latestEnd>>

\* CProgramUniformCmd::operator(): compare the memory at m_baseOffset, read
\* now, with the context's cached push constants; if they differ, or the
\* stage's uniforms were never set on this context, upload m_packedData
\* (packed at record time) and copy the memory at m_baseOffset into the
\* cache.  Otherwise nothing is uploaded.
ReplayProgramUniform(c) ==
    LET mem == pushMem[running[c]]
    IN  /\ Replaying(c, "ProgramUniform")
        /\ IF mem # pcCache[c] \/ ~everSet[c]
           THEN /\ glUniform' = [glUniform EXCEPT ![c] = NextCmd(c).packed]
                /\ pcCache' = [pcCache EXCEPT ![c] = mem]
           ELSE UNCHANGED <<glUniform, pcCache>>
        /\ UNCHANGED <<workload, queryType, state, cmds, todo, failed, pushMem, running, poolVars,
                       lastQueue, active, result, everSet, latestEnd>>

\* IOpenGLPipeline marks the stage's uniforms as set on the context once
\* they have been uploaded there (outside this source tree).
AfterUniformsSet(c) ==
    /\ glUniform[c] # None
    /\ ~everSet[c]
    /\ everSet' = [everSet EXCEPT ![c] = TRUE]
    /\ UNCHANGED <<workload, queryType, state, cmds, todo, failed, pushMem, running, pc, poolVars,
                   lastQueue, active, result, glUniform, pcCache, ghostVars>>

-----------------------------------------------------------------------------
Next ==
    \/ \E b \in Buffers :
          \/ Begin(b) \/ End(b) \/ Reset(b)
          \/ EmplaceLock(b) \/ EmplaceAlloc(b) \/ EmplaceCommit(b)
          \/ DispatchCall(b)
          \/ \E v \in Values : PushConstantsCall(b, v)
          \/ \E q \in Queries :
                \/ BeginQueryCall(b, q) \/ EndQueryCall(b, q) \/ WriteTimestampCall(b, q)
          \/ \E q \in Queries, n \in 1 .. QueryCount + 1 : ResetQueriesCall(b, q, n)
          \/ \E c \in Ctxs : Submit(b, c)
    \/ \E c \in Ctxs :
          \/ ReplayBeginQuery(c) \/ ReplayEndQuery(c) \/ ReplayQueryCounter(c)
          \/ ReplayResetQuery(c) \/ ReplayProgramUniform(c)
          \/ Complete(c) \/ AfterUniformsSet(c)

Spec == Init /\ [][Next]_vars

-----------------------------------------------------------------------------
(* Properties.                                                             *)

\* The records on the segment lists, as <<buffer, position>>.
Entries == UNION {{<<b, i>> : i \in DOMAIN cmds[b]} : b \in Buffers}
SlotOf(e) == cmds[e[1]][e[2]].slot

TypeOK ==
    /\ workload \in {"queries", "uniforms"}
    /\ queryType \in {"OCCLUSION", "TIMESTAMP"}
    /\ lock \in Buffers \cup {NoOwner}
    /\ arena \subseteq Slots
    /\ state \in [Buffers -> {"INITIAL", "RECORDING", "EXECUTABLE", "PENDING"}]
    /\ cmds \in [Buffers -> Seq(Record)]
    /\ todo \in [Buffers -> Seq(Command)]
    /\ grab \in [Buffers -> Slots \cup {None, Locked}]
    \* Whatever the memory holds; the queries workload never reads it, so
    \* one content stands for all there.
    /\ pushMem \in [Buffers -> Values]
    /\ workload = "queries" => pushMem = [b \in Buffers |-> CHOOSE v \in Values : TRUE]
    /\ running \in [Ctxs -> Buffers \cup {None}]
    /\ lastQueue \in [Queries -> QueueIds]
    /\ active \in [Ctxs -> Queries \cup {None}]
    /\ glUniform \in [Ctxs -> Values \cup {None}]
    /\ failed \in [Buffers -> BOOLEAN]
    /\ latestEnd \in [Queries -> Ctxs \cup {None}]

\* emplace_n and free_n keep the pool's arena exact while several threads
\* record at once: no record is on two segment lists (or twice on one),
\* and the records handed out are exactly those on the lists.  Two
\* threads allocating outside the pool mutex hand out one record twice.
ArenaExclusive ==
    /\ \A e, f \in Entries : e # f => SlotOf(e) # SlotOf(f)
    /\ arena = {SlotOf(e) : e \in Entries}

\* Once the submission that ended query q (endQuery on an occlusion pool,
\* writeTimestamp on a timestamp pool) has completed on context c, and
\* until q is submitted again, getLatestQueryAt(q) names the query object
\* of c's queue, and that object holds the result.  CEndQueryCmd does not
\* know its query: only the CResetQueryCmd that endQuery emplaces after it
\* records the queue.
QueryReadsLastEnded ==
    \A q \in Queries :
        latestEnd[q] # None =>
            /\ GetLatestQueryAt(q) = <<latestEnd[q], q>>
            /\ result[latestEnd[q]][q]

\* Positions of b's list holding a CProgramUniformCmd replayed on c so far.
UniformsReplayed(c) ==
    {i \in 1 .. pc[c] - 1 : cmds[running[c]][i].cmd.op = "ProgramUniform"}

\* While a buffer replays, the program's uniform on the context holds the
\* values (m_packedData) of the last CProgramUniformCmd replayed there: a
\* command the push-constant cache skips must carry what is already set.
UniformMatchesRecorded ==
    \A c \in Ctxs :
        running[c] # None /\ UniformsReplayed(c) # {} =>
            glUniform[c] = cmds[running[c]][Max(UniformsReplayed(c))].cmd.packed

=============================================================================
