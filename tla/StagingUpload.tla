---------------------------- MODULE StagingUpload ----------------------------
(***************************************************************************)
(* IUtilities::updateImageViaStagingBuffer                                 *)
(* (src/nbl/video/utilities/IUtilities.cpp) against the GPU that runs its  *)
(* submissions.  The image data is abstracted to rows of rowPitch units    *)
(* (the smallest transferable unit the region iterator copies); the        *)
(* default upload buffer to a number of free units and the frees latched   *)
(* on a scratch semaphore value; a command buffer's copies to records      *)
(* tagged with the semaphore value of the submission that carries them.   *)
(*                                                                         *)
(* One loop iteration is one step: allocate; on failure flush, overflow-   *)
(* submit and block on the scratch semaphore; on success copy as many rows *)
(* as fit, record the copy and free the block latched on the future        *)
(* scratch value.  The GPU executes submitted copies and signals the       *)
(* semaphore in submission order.                                          *)
(***************************************************************************)
EXTENDS Integers, Sequences, FiniteSets, FiniteSetsExt

CONSTANTS
    BufferSize,     \* m_defaultUploadBuffer->get_total_size(), in units
    MaxResident,    \* maxResidentImageTransferSize (at most BufferSize / 4)
    CallParams,     \* calls the client may make: rejection reason, rows, rowPitch
    ManualFlush,    \* needsManualFlushOrInvalidate() of the upload buffer
    MaxCalls,       \* bound: calls the client makes
    MaxSubmits,     \* bound: submissions the client makes itself
    MaxOverflows,   \* bound: overflow submissions of all calls together
    None

VARIABLES
    pc,         \* "idle" (no call running), "loop", "block"
    call,       \* the running call's parameters
    rowsLeft,   \* rows the region iterator has not copied yet
    ret,        \* return value of the last call
    calls,      \* calls made
    free,       \* free units of the upload buffer
    pending,    \* blocks freed latched on a semaphore value: [id, size, latch]
    copies,     \* recorded copies the GPU has not executed: [id, size, at]
    unflushed,  \* ids of copies whose staging writes are not flushed yet
    nextId,     \* allocations made
    queue,      \* submitted, unsignalled submissions: [value, copyMask]
    submitted,  \* scratch semaphore value of the last submission
    gpu,        \* scratch semaphore value the GPU has signalled
    mask,       \* COPY_BIT is in scratchSemaphore.stageMask
    oldMask,    \* oldScratchStage has COPY_BIT
    waitFor     \* value blockForSemaphores waits for

vars == <<pc, call, rowsLeft, ret, calls, free, pending, copies, unflushed, nextId,
          queue, submitted, gpu, mask, oldMask, waitFor>>

-----------------------------------------------------------------------------

\* getAllocationSizeForStreamingBuffer: as much as remains, but at least the
\* lower bound and otherwise the largest free block.
AllocationSize(needed, maxFree, lowerBound) ==
    Min({needed, Max({lowerBound, maxFree})})

\* Blocks whose latch the GPU has signalled (what cull_frees returns).
Reclaimable == {p \in pending : p.latch <= gpu}
Units(S) == MapThenSumSet(LAMBDA p : p.size, S)

\* The scratch semaphore values the model may reach.
SubmitCap == MaxSubmits + MaxOverflows

Init ==
    /\ pc = "idle" /\ call = None /\ rowsLeft = 0 /\ ret = None /\ calls = 0
    /\ free = BufferSize /\ pending = {} /\ copies = {} /\ unflushed = {} /\ nextId = 0
    /\ queue = << >> /\ submitted = 0 /\ gpu = 0
    /\ mask \in BOOLEAN /\ oldMask = FALSE /\ waitFor = 0

\* Faulty variant of Start: oldScratchStage is read before |= sets COPY_BIT.
StartMaskBefore(c) ==
    /\ pc = "idle" /\ calls < MaxCalls
    /\ calls' = calls + 1
    /\ IF c.reject # "none"
       THEN /\ ret' = FALSE
            /\ UNCHANGED <<pc, call, rowsLeft, mask, oldMask>>
       ELSE /\ pc' = "loop" /\ call' = c /\ rowsLeft' = c.rows /\ ret' = None
            /\ mask' = TRUE /\ oldMask' = mask
    /\ UNCHANGED <<free, pending, copies, unflushed, nextId, queue, submitted, gpu, waitFor>>

\* Lines 8-83: the early returns change nothing; a call that passes them
\* sets COPY_BIT in the scratch stage mask and keeps the result of |=.
Start(c) ==
    /\ pc = "idle" /\ calls < MaxCalls
    /\ calls' = calls + 1
    /\ IF c.reject # "none"
       THEN /\ ret' = FALSE
            /\ UNCHANGED <<pc, call, rowsLeft, mask, oldMask>>
       ELSE /\ pc' = "loop" /\ call' = c /\ rowsLeft' = c.rows /\ ret' = None
            /\ mask' = TRUE /\ oldMask' = TRUE
    /\ UNCHANGED <<free, pending, copies, unflushed, nextId, queue, submitted, gpu, waitFor>>

\* Faulty variants of Overflow: the flush dropped; the overflow submit dropped.
OverflowNoFlush(avail) ==
    /\ submitted < SubmitCap
    /\ queue' = Append(queue, [value |-> submitted + 1, copyMask |-> mask])
    /\ submitted' = submitted + 1 /\ mask' = TRUE /\ waitFor' = submitted + 1
    /\ pc' = "block"
    /\ free' = avail /\ pending' = pending \ Reclaimable
    /\ UNCHANGED <<rowsLeft, copies, nextId, unflushed>>

OverflowNoSubmit(avail) ==
    /\ submitted < SubmitCap
    /\ unflushed' = {}
    /\ mask' = TRUE /\ waitFor' = submitted + 1
    /\ pc' = "block"
    /\ free' = avail /\ pending' = pending \ Reclaimable
    /\ UNCHANGED <<rowsLeft, copies, nextId, queue, submitted>>

\* Lines 104-122, the allocation failed: flush the ranges written so far,
\* overflowSubmit (signalling the future scratch value with the caller's
\* stage mask), leave COPY_BIT only in the mask, block for that value.
\* multi_allocate has culled the signalled frees.
Overflow(avail) ==
    /\ submitted < SubmitCap
    /\ unflushed' = {}
    /\ queue' = Append(queue, [value |-> submitted + 1, copyMask |-> mask])
    /\ submitted' = submitted + 1 /\ mask' = TRUE /\ waitFor' = submitted + 1
    /\ pc' = "block"
    /\ free' = avail /\ pending' = pending \ Reclaimable
    /\ UNCHANGED <<rowsLeft, copies, nextId>>

\* Faulty variant of CopyRows: the culled frees are not returned to the
\* free space before the block is taken from it.
CopyRowsNoCull(size, avail, rows, id) ==
    /\ rowsLeft' = rowsLeft - rows
    /\ copies' = IF rows > 0
                 THEN copies \cup {[id |-> id, size |-> rows * call.rowPitch, at |-> submitted + 1]}
                 ELSE copies
    /\ unflushed' = IF ManualFlush /\ rows > 0 THEN unflushed \cup {id} ELSE unflushed
    /\ free' = free - size
    /\ pending' = (pending \ Reclaimable) \cup {[id |-> id, size |-> size, latch |-> submitted + 1]}
    /\ nextId' = id
    /\ UNCHANGED <<queue, submitted, mask, waitFor, pc>>

\* Lines 123-155, the allocation succeeded: the region iterator copies the
\* rows that fit into the block, the copy is recorded in the scratch
\* command buffer (carried by the next submission), its range queued for
\* flushing, and the block freed latched on the future scratch value.
CopyRows(size, avail, rows, id) ==
    /\ rowsLeft' = rowsLeft - rows
    /\ copies' = IF rows > 0
                 THEN copies \cup {[id |-> id, size |-> rows * call.rowPitch, at |-> submitted + 1]}
                 ELSE copies
    /\ unflushed' = IF ManualFlush /\ rows > 0 THEN unflushed \cup {id} ELSE unflushed
    /\ free' = avail - size
    /\ pending' = (pending \ Reclaimable) \cup {[id |-> id, size |-> size, latch |-> submitted + 1]}
    /\ nextId' = id
    /\ UNCHANGED <<queue, submitted, mask, waitFor, pc>>

\* Lines 84-155, one iteration of the loop.
Iterate ==
    /\ pc = "loop" /\ rowsLeft > 0
    /\ LET lb    == Max({MaxResident, call.rowPitch})
           size  == AllocationSize(rowsLeft * call.rowPitch, free, lb)
           avail == free + Units(Reclaimable)
       IN  IF size > avail
           THEN Overflow(avail)
           ELSE CopyRows(size, avail, Min({rowsLeft, size \div call.rowPitch}), nextId + 1)
    /\ UNCHANGED <<call, ret, calls, gpu, oldMask>>

\* Lines 119-121: blockForSemaphores returns, then cull_frees.
Unblock ==
    /\ pc = "block" /\ gpu >= waitFor
    /\ pc' = "loop"
    /\ free' = free + Units(Reclaimable) /\ pending' = pending \ Reclaimable
    /\ UNCHANGED <<call, rowsLeft, ret, calls, copies, unflushed, nextId, queue,
                   submitted, gpu, mask, oldMask, waitFor>>

\* Lines 156-159: restore the stage mask, flush, return true.
Finish ==
    /\ pc = "loop" /\ rowsLeft = 0
    /\ pc' = "idle" /\ ret' = TRUE /\ call' = None
    /\ mask' = oldMask /\ unflushed' = {}
    /\ UNCHANGED <<rowsLeft, calls, free, pending, copies, nextId, queue, submitted,
                   gpu, oldMask, waitFor>>

\* The client submits intendedNextSubmit between calls.
ClientSubmit ==
    /\ pc = "idle" /\ submitted < MaxSubmits
    /\ queue' = Append(queue, [value |-> submitted + 1, copyMask |-> mask])
    /\ submitted' = submitted + 1
    /\ UNCHANGED <<pc, call, rowsLeft, ret, calls, free, pending, copies, unflushed,
                   nextId, gpu, mask, oldMask, waitFor>>

\* The GPU executes the copies of the oldest submission that has any.
ExecuteCopies ==
    /\ \E c \in copies : c.at <= submitted
    /\ LET v == Min({c.at : c \in {c \in copies : c.at <= submitted}})
       IN  copies' = {c \in copies : c.at # v}
    /\ UNCHANGED <<pc, call, rowsLeft, ret, calls, free, pending, unflushed, nextId,
                   queue, submitted, gpu, mask, oldMask, waitFor>>

\* The GPU signals the oldest submission's value; with COPY_BIT in its
\* stage mask only after that submission's copies have executed.
Signal ==
    /\ queue # << >>
    /\ Head(queue).copyMask => ~\E c \in copies : c.at <= Head(queue).value
    /\ gpu' = Head(queue).value /\ queue' = Tail(queue)
    /\ UNCHANGED <<pc, call, rowsLeft, ret, calls, free, pending, copies, unflushed,
                   nextId, submitted, mask, oldMask, waitFor>>

Next ==
    \/ \E c \in CallParams : Start(c)
    \/ Iterate
    \/ Unblock
    \/ Finish
    \/ ClientSubmit
    \/ ExecuteCopies
    \/ Signal

\* The upload loop runs on the calling thread and the GPU keeps executing
\* what was submitted; the client is free to never submit again.
Fairness ==
    /\ WF_vars(Iterate) /\ WF_vars(Unblock) /\ WF_vars(Finish)
    /\ WF_vars(ExecuteCopies) /\ WF_vars(Signal)

Spec == Init /\ [][Next]_vars /\ Fairness

-----------------------------------------------------------------------------
(* Properties.                                                             *)

MaxRows == Max({c.rows : c \in CallParams})

TypeOK ==
    /\ pc \in {"idle", "loop", "block"}
    /\ rowsLeft \in 0 .. MaxRows /\ ret \in {None, TRUE, FALSE} /\ calls \in 0 .. MaxCalls
    /\ free \in 0 .. BufferSize
    /\ \A p \in pending : p.size \in 1 .. BufferSize /\ p.latch \in 1 .. SubmitCap + 1
    /\ \A c \in copies : c.size \in 1 .. BufferSize /\ c.at \in 1 .. SubmitCap + 1
    /\ unflushed \subseteq 1 .. nextId
    /\ gpu \in 0 .. submitted /\ submitted \in 0 .. SubmitCap
    /\ {mask, oldMask} \subseteq BOOLEAN

\* Staging memory a recorded copy reads stays allocated (in use or latched
\* on the scratch semaphore) until the GPU has executed the copy: the free
\* is latched on the future scratch value, the submission carrying the
\* copy signals that value, and its stage mask keeps COPY_BIT, also for
\* the client's submit after the call returned.
NoReuseBeforeCopy == \A c \in copies : \E p \in pending : p.id = c.id

\* On non-coherent memory every copy the GPU may run has had its staging
\* writes flushed: the ranges are flushed before each overflow submit and
\* before the call returns.
FlushedBeforeSubmit == \A c \in copies : c.at <= submitted => c.id \notin unflushed

\* Scenario 4: a call that passed validation makes progress through the
\* allocate / flush / overflow / block / retry cycles and returns true,
\* even when its data is larger than the whole upload buffer.
CallReturns == pc = "loop" ~> (pc = "idle" /\ ret = TRUE)

=============================================================================
