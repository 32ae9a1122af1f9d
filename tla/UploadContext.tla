---------------------------- MODULE UploadContext ----------------------------
(***************************************************************************)
(* renderer/upload_context: texture data is written into slices of a       *)
(* staging buffer that the GPU reads later, when it executes the copies    *)
(* recorded for them.  A slice that does not fit makes the context wait    *)
(* for the GPU, through a fence that is signalled again at every flush,    *)
(* and start the buffer anew; one larger than the buffer gets a buffer of  *)
(* its own until the next flush.                                           *)
(*                                                                         *)
(* The caller is texture_uploader: it fills a slice and records its copy   *)
(* before it takes the next.  The GPU runs beside it and executes commands *)
(* in the order they were recorded: with OpenGL the queue is the context   *)
(* itself, and submit_command_queue does nothing.                          *)
(***************************************************************************)
EXTENDS Integers, Sequences

CONSTANTS Align,                \* 256: what slice aligns its offsets to
          k_stage_buffer_size,  \* 64 MiB
          Size,                 \* sizes of the uploads
          MaxUploads            \* bound on the number of uploads

ASSUME UploadAssumption == /\ Align \in Nat \ {0}
                           /\ k_stage_buffer_size \in Nat \ {0}
                           /\ Size \subseteq Nat \ {0}
                           /\ MaxUploads \in Nat

VARIABLES capacity,   \* m_stage_buffer.capacity(): 0 before the first slice
          m_cursor,   \* m_stage_buffer: the first free byte
          large,      \* m_large_stage_buffer.capacity(): 0 when there is none
          recording,  \* m_current_upload_queue is set
          m_fence,    \* the fence object: none yet, pending in the queue, or signaled
          commands,   \* recorded and not yet executed by the GPU
          memory,     \* for each byte of the two buffers, the upload that wrote it last
          op,         \* the call the caller is in
          wanted,     \* size of the slice it waits for
          batch,      \* the slice in the caller's hands
          recorded, landed, flushed  \* history, see UploadStream

gpu   == <<commands, landed>>
stage == <<capacity, m_cursor, large, recording>>
upVars == <<stage, m_fence, gpu, memory, op, wanted, batch, recorded, flushed>>

Buffer  == {"stage", "large"}
Byte    == Nat
Upload  == 1 .. MaxUploads
NoBatch == [buffer |-> "none", offset |-> 0, size |-> 0]
Fence   == [kind |-> "fence"]
Copy(n, b) == [kind |-> "copy", upload |-> n, batch |-> b]

\* The bytes of a batch.
Bytes(b) == {<<b.buffer, i>> : i \in b.offset .. b.offset + b.size - 1}

UpInit == /\ capacity = 0 /\ m_cursor = 0 /\ large = 0 /\ recording = FALSE
          /\ m_fence = "none"
          /\ commands = <<>>
          /\ memory = <<>>
          /\ op = "idle" /\ wanted = 0 /\ batch = NoBatch
          /\ recorded = 0 /\ landed = <<>> /\ flushed = 0
-----------------------------------------------------------------------------
\* Mutant: rounding down.
AlignDown(n) == (n \div Align) * Align

AlignUp(n) == ((n + Align - 1) \div Align) * Align

\* remaining() >= size: the alignment is not counted.
Remains(size) == k_stage_buffer_size - m_cursor >= size

InBounds(size) == AlignUp(m_cursor) + size <= k_stage_buffer_size

\* gpu_persistent_buffer::slice on the staging buffer.
StageSlice(size) ==
    /\ batch' = [buffer |-> "stage", offset |-> AlignUp(m_cursor), size |-> size]
    /\ m_cursor' = AlignUp(m_cursor) + size
    /\ op' = "upload"

\* The assertion of slice: a debug build stops, a release build goes on with an empty view
\* and copies the texture to a null pointer.
StageSliceFails == op' = "aborted" /\ UNCHANGED <<batch, m_cursor>>

SliceOfStage(size) ==
    \/ InBounds(size) /\ StageSlice(size)
    \/ ~ InBounds(size) /\ StageSliceFails

\* slice, when the staging buffer has the room: initialised on the first call.
SliceFits(size) ==
    /\ op = "idle"
    /\ recorded < MaxUploads
    /\ Remains(size)
    /\ capacity' = k_stage_buffer_size
    /\ recording' = TRUE
    /\ SliceOfStage(size)
    /\ UNCHANGED <<large, m_fence, gpu, memory, wanted, recorded, flushed>>

\* Mutant: a fence object that exists is used again without a new sync object.
SignalOnce == /\ m_fence' = IF m_fence = "none" THEN "pending" ELSE m_fence
              /\ commands' = IF m_fence = "none" THEN Append(commands, Fence) ELSE commands
              /\ UNCHANGED landed

\* signal_fence: the old sync object is deleted, a new one follows the commands.
SignalFence == /\ m_fence' = "pending"
               /\ commands' = Append(commands, Fence)
               /\ UNCHANGED landed

\* slice, when it does not: flush first, which does nothing without a queue.
SliceFlushes(size) ==
    /\ op = "idle"
    /\ recorded < MaxUploads
    /\ ~ Remains(size)
    /\ capacity' = k_stage_buffer_size
    /\ wanted' = size
    /\ \/ recording /\ op' = "slice" /\ SignalFence
       \/ ~ recording /\ op' = "retry" /\ UNCHANGED <<m_fence, gpu>>
    /\ UNCHANGED <<m_cursor, large, recording, memory, batch, recorded, flushed>>

\* Mutant: the separate buffer is as large as the staging buffer.
LargeSliceUnsized == /\ large' = k_stage_buffer_size
                     /\ batch' = [buffer |-> "large", offset |-> 0, size |-> wanted]

\* m_large_stage_buffer.init and slice.
LargeSlice == /\ large' = wanted
              /\ batch' = [buffer |-> "large", offset |-> 0, size |-> wanted]

\* The second attempt of slice, and the buffer of its own.
SliceRetries ==
    /\ op = "retry"
    /\ recording' = TRUE
    /\ \/ Remains(wanted) /\ SliceOfStage(wanted) /\ UNCHANGED large
       \/ ~ Remains(wanted) /\ LargeSlice /\ op' = "upload" /\ UNCHANGED m_cursor
    /\ wanted' = 0
    /\ UNCHANGED <<capacity, m_fence, gpu, memory, recorded, flushed>>

\* upload_2d_level: fills the slice and records the copy.
Record ==
    /\ op = "upload"
    /\ recorded' = recorded + 1
    /\ memory' = [p \in DOMAIN memory \cup Bytes(batch) |->
                      IF p \in Bytes(batch) THEN recorded + 1 ELSE memory[p]]
    /\ commands' = Append(commands, Copy(recorded + 1, batch))
    /\ batch' = NoBatch
    /\ op' = "idle"
    /\ UNCHANGED <<stage, m_fence, landed, wanted, flushed>>

FlushIdle == op = "idle" /\ ~ recording /\ UNCHANGED upVars

\* flush, or the destructor, up to the wait.
Flush(call) ==
    /\ op = "idle"
    /\ recording
    /\ op' = call
    /\ SignalFence
    /\ UNCHANGED <<stage, memory, wanted, batch, recorded, flushed>>

\* Mutant: the memory is reused as soon as the commands are submitted.
FlushedWithoutWait ==
    /\ op \in {"flush", "slice", "destroy"}
    /\ m_cursor' = 0 /\ large' = 0 /\ recording' = FALSE
    /\ memory' = [p \in {q \in DOMAIN memory : q[1] = "stage"} |-> memory[p]]
    /\ op' = CASE op = "flush" -> "idle" [] op = "slice" -> "retry" [] op = "destroy" -> "destroyed"
    /\ flushed' = recorded
    /\ UNCHANGED <<capacity, m_fence, gpu, wanted, batch, recorded>>

\* The wait is over: the staging buffer starts anew, the separate one is gone.
Flushed ==
    /\ op \in {"flush", "slice", "destroy"}
    /\ m_fence = "signaled"
    /\ m_cursor' = 0 /\ large' = 0 /\ recording' = FALSE
    /\ memory' = [p \in {q \in DOMAIN memory : q[1] = "stage"} |-> memory[p]]
    /\ op' = CASE op = "flush" -> "idle" [] op = "slice" -> "retry" [] op = "destroy" -> "destroyed"
    /\ flushed' = recorded
    /\ UNCHANGED <<capacity, m_fence, gpu, wanted, batch, recorded>>

\* The destructor of a context that has nothing to wait for.
DestroyIdle == /\ op = "idle"
               /\ ~ recording
               /\ op' = "destroyed"
               /\ UNCHANGED <<stage, m_fence, gpu, memory, wanted, batch, recorded, flushed>>

\* What the GPU finds where a copy reads; 0 for bytes that are gone.
Found(b) == {IF p \in DOMAIN memory THEN memory[p] ELSE 0 : p \in Bytes(b)}

\* The GPU executes its next command.
Execute ==
    /\ commands # <<>>
    /\ commands' = Tail(commands)
    /\ \/ Head(commands) = Fence /\ m_fence' = "signaled" /\ UNCHANGED landed
       \/ /\ Head(commands) # Fence
          /\ landed' = Append(landed, Found(Head(commands).batch))
          /\ UNCHANGED m_fence
    /\ UNCHANGED <<stage, memory, op, wanted, batch, recorded, flushed>>

Slice(size) == SliceFits(size) \/ SliceFlushes(size)

\* The steps a caller that has started goes on with by itself.
Continue == SliceRetries \/ Record \/ Flushed

UpNext == \/ \E size \in Size : Slice(size)
          \/ FlushIdle
          \/ \E call \in {"flush", "destroy"} : Flush(call)
          \/ DestroyIdle
          \/ Continue
          \/ Execute

\* The GPU works off its commands; the caller returns from a call that can.
UpSpec == UpInit /\ [][UpNext]_upVars /\ WF_upVars(Execute) /\ WF_upVars(Continue)
-----------------------------------------------------------------------------
Batch == {NoBatch} \cup [buffer : Buffer, offset : Nat, size : Size]

\* Types: a slice lies inside its buffer.
UpTypeOK == /\ capacity \in {0, k_stage_buffer_size}
            /\ m_cursor \in 0 .. capacity
            /\ large \in {0} \cup Size
            /\ recording \in BOOLEAN
            /\ m_fence \in {"none", "pending", "signaled"}
            /\ op \in {"idle", "slice", "retry", "upload", "flush", "destroy", "destroyed", "aborted"}
            /\ wanted \in {0} \cup Size
            /\ batch \in Batch
            /\ batch.offset + batch.size <= CASE batch.buffer = "none"  -> 0
                                              [] batch.buffer = "stage" -> capacity
                                              [] batch.buffer = "large" -> large
            /\ recorded \in 0 .. MaxUploads

\* Until the GPU has executed a copy, every byte it will read is still the one its upload
\* wrote: no slice overlaps it, no flush reuses or frees it too early.
StagedUntilExecuted ==
    \A k \in DOMAIN commands :
        commands[k] # Fence => Found(commands[k].batch) = {commands[k].upload}

\* Uploads land in order, each with its own bytes, and flush waits for all.
Stream == INSTANCE UploadStream
IsUploadStream == Stream!Spec

\* A call of slice or flush returns: the fence it waits for is signaled.
CallsReturn == op \in {"slice", "flush", "destroy"} ~> op \in {"idle", "destroyed", "upload", "aborted"}

\* The assertion gpu_persistent_buffer.hpp:98, offset + size_bytes <= m_data.size(): slice
\* is only called for what remaining() said would fit.
SliceAssertion == op # "aborted"

=============================================================================
