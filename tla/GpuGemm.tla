------------------------------ MODULE GpuGemm ------------------------------
(***************************************************************************)
(* The GPU offload of the prefill GEMM (models crate): HybridQMatMul's     *)
(* forward_gpu splits the rows of an activation matrix between a spawned   *)
(* GPU thread and the calling thread (qwen3_model.rs); GpuGemm multiplies  *)
(* its share in chunks through one pool of buffers (gpu_gemm.rs).          *)
(*                                                                         *)
(* Callers are threads that prefill prompts of their own, each in a        *)
(* session of its own and so with weights of its own; the context and the  *)
(* pool are the process's.  A row of an activation matrix is known by its  *)
(* caller and index, and the row of the product it gives by the same pair. *)
(***************************************************************************)
EXTENDS GemmShader, Sequences

CONSTANTS
    Caller,     \* threads that run a forward pass
    Rows,       \* the numbers of rows a matrix may have
    Zero,       \* what pads the activations
    MaxCalls,   \* bound on the calls of each caller
    None

VARIABLES
    adapter,    \* CONTEXT: init_context found a device, or not
    pipeline,   \* its kernel, SHADER_F16 or SHADER, by what it computes: the
                \* row of activations behind each row of the product
    healthy,    \* the context's flag
    offloadable,\* offloadable[c]: c's weights have a type the shader takes
    resident,   \* the OnceLock of their GPU copy: "unset", "none", "some"
    pool,       \* the caller whose GPU thread holds the pool's mutex, or None
    a_buf,      \* the activations' buffer, as the GPU's queue will see it:
                \* the chunk last written, before remains of longer ones
    read_buf,   \* the rows of products in the read buffer
    mapped,     \* the read buffer is mapped, or a mapping is under way
    pc,         \* where each calling thread is
    rows,       \* m: the rows of the matrix of each caller
    cpu,        \* its half: "todo", "ok", "error"
    gpu,        \* where its GPU thread is
    out,        \* `out` of that thread: the rows computed so far
    result,     \* what the call returned
    calls,      \* number of calls each caller has begun
    \* History, read by properties only:
    cpu_failed, \* CPU work of this call failed
    known,      \* a call whose dispatch failed has returned
    late        \* late[c]: c's call began after that

context == <<adapter, pipeline, healthy, offloadable, resident>>
buffers == <<pool, a_buf, read_buf, mapped>>
history == <<calls, cpu_failed, known, late>>
vars == <<context, buffers, pc, rows, cpu, gpu, out, result, history>>

ASSUME GemmAssumption ==
    /\ Rows \subseteq Nat \ {0}
    /\ \E most \in Rows : \A m \in Rows : m <= most    \* (a usize)
    /\ MaxCalls \in Nat
    /\ None \notin Caller

PC == {"idle", "context", "upload", "share", "cpu_only", "split",
       "recompute"}
GpuSteps == {"none", "lock", "stage", "compute", "read", "mark",
             "ok", "failed", "panicked"}
GpuEnded == {"ok", "failed", "panicked"}

(* The rows first to last of c's matrix, or of its product. *)
RowsOf(c, first, last) ==
    [i \in 1..(last - first + 1) |-> <<c, first + i - 1>>]

Product(c, m) == RowsOf(c, 1, m)

(* m * 3 / 5, aligned to tiles: the share of the GPU. *)
MGpu(m) == (((m * 3) \div 5) \div TileM) * TileM

(* The rows of the next chunk. *)
ChunkRows(c) ==
    IF MGpu(rows[c]) - Len(out[c]) < ChunkM THEN MGpu(rows[c]) - Len(out[c])
                                            ELSE ChunkM
-----------------------------------------------------------------------------
Init ==
    /\ adapter \in BOOLEAN
    /\ \E use_f16 \in BOOLEAN : pipeline = SourceRows(use_f16)
    /\ healthy = TRUE
    /\ offloadable \in [Caller -> BOOLEAN]
    /\ resident = [c \in Caller |-> "unset"]
    /\ pool = None
    /\ a_buf = <<>>
    /\ read_buf = <<>>
    /\ mapped = FALSE
    /\ pc = [c \in Caller |-> "idle"]
    /\ rows = [c \in Caller |-> CHOOSE m \in Rows : TRUE]
    /\ cpu = [c \in Caller |-> "todo"]
    /\ gpu = [c \in Caller |-> "none"]
    /\ out = [c \in Caller |-> <<>>]
    /\ result = [c \in Caller |-> None]
    /\ calls = [c \in Caller |-> 0]
    /\ cpu_failed = [c \in Caller |-> FALSE]
    /\ known = FALSE
    /\ late = [c \in Caller |-> FALSE]

GoTo(c, label) == pc' = [pc EXCEPT ![c] = label]
GpuGoTo(c, label) == gpu' = [gpu EXCEPT ![c] = label]

(* forward returns, or unwinds; the scope of forward_gpu is left. *)
EndCall(c, answer) ==
    /\ GoTo(c, "idle")
    /\ result' = [result EXCEPT ![c] = answer]
    /\ cpu' = [cpu EXCEPT ![c] = "todo"]
    /\ gpu' = [gpu EXCEPT ![c] = "none"]
    /\ out' = [out EXCEPT ![c] = <<>>]
    /\ known' = (known \/ gpu[c] = "failed")
    /\ UNCHANGED <<context, buffers, rows, calls, late>>

Ok(product) == [kind |-> "ok", rows |-> product]
Error == [kind |-> "error"]
Panicked == [kind |-> "panic"]

ASSUME GarbledAssumption == Garbled \notin Nat

ASSUME ResultAssumption == None \notin {Error, Panicked}

(* A prefill enters forward with a matrix of m rows. *)
Begin(c, m) ==
    /\ pc[c] = "idle"
    /\ calls[c] < MaxCalls
    /\ calls' = [calls EXCEPT ![c] = @ + 1]
    /\ late' = [late EXCEPT ![c] = known]
    /\ GoTo(c, "context")
    /\ rows' = [rows EXCEPT ![c] = m]
    /\ result' = [result EXCEPT ![c] = None]
    /\ cpu_failed' = [cpu_failed EXCEPT ![c] = FALSE]
    /\ UNCHANGED <<context, buffers, cpu, gpu, out, known>>

(* context(): a device, healthy at this moment.  What was read is used     *)
(* until the end of the call.                                              *)
CheckContext(c) ==
    /\ pc[c] = "context"
    /\ GoTo(c, IF adapter /\ healthy THEN "upload" ELSE "cpu_only")
    /\ UNCHANGED <<context, buffers, rows, cpu, gpu, out, result, history>>

(* gpu_weight.get_or_init(upload_weight), which refuses some weights. *)
Upload(c) ==
    /\ pc[c] = "upload"
    /\ resident' = [resident EXCEPT ![c] =
                        IF offloadable[c] THEN "some" ELSE "none"]
    /\ GoTo(c, IF offloadable[c] THEN "share" ELSE "cpu_only")
    /\ UNCHANGED <<adapter, pipeline, healthy, offloadable, buffers, rows, cpu,
                   gpu, out, result, history>>

(* wgpu cannot allocate the buffer and panics, in the calling thread: the  *)
(* OnceLock stays unset.                                                   *)
UploadPanics(c) ==
    /\ pc[c] = "upload"
    /\ resident[c] = "unset" /\ offloadable[c]
    /\ EndCall(c, Panicked)
    /\ UNCHANGED cpu_failed

(* The split of the rows: too few for a tile are all left to the CPU. *)
Share(c) ==
    /\ pc[c] = "share"
    /\ IF MGpu(rows[c]) = 0
       THEN GoTo(c, "cpu_only") /\ UNCHANGED gpu
       ELSE GoTo(c, "split") /\ GpuGoTo(c, "lock")
    /\ UNCHANGED <<context, buffers, rows, cpu, out, result, history>>

(* The activations cannot be made contiguous. *)
ShareFails(c) ==
    /\ pc[c] = "share"
    /\ EndCall(c, Error)
    /\ cpu_failed' = [cpu_failed EXCEPT ![c] = TRUE]

(* forward's second choice: dequantize, multiply all rows. *)
CpuOnly(c) ==
    /\ pc[c] = "cpu_only"
    /\ EndCall(c, Ok(Product(c, rows[c])))
    /\ UNCHANGED cpu_failed

CpuOnlyFails(c) ==
    /\ pc[c] = "cpu_only"
    /\ EndCall(c, Error)
    /\ cpu_failed' = [cpu_failed EXCEPT ![c] = TRUE]

(* The calling thread's half, at the same time as the GPU thread's. *)
CpuHalf(c) ==
    /\ pc[c] = "split"
    /\ cpu[c] = "todo"
    /\ \/ /\ cpu' = [cpu EXCEPT ![c] = "ok"]
          /\ UNCHANGED cpu_failed
       \/ /\ cpu' = [cpu EXCEPT ![c] = "error"]
          /\ cpu_failed' = [cpu_failed EXCEPT ![c] = TRUE]
    /\ UNCHANGED <<context, buffers, pc, rows, gpu, out, result,
                   calls, known, late>>
-----------------------------------------------------------------------------
(* The GPU thread: gemm, chunk by chunk, each in a dispatch under the      *)
(* pool's mutex, which is entered also if it is poisoned.                  *)
LockPool(c) ==
    /\ gpu[c] = "lock"
    /\ Len(out[c]) < MGpu(rows[c])
    /\ pool = None
    /\ pool' = c
    /\ GpuGoTo(c, "stage")
    /\ UNCHANGED <<context, a_buf, read_buf, mapped, pc, rows, cpu, out,
                   result, history>>

GemmReturns(c) ==
    /\ gpu[c] = "lock"
    /\ Len(out[c]) = MGpu(rows[c])
    /\ GpuGoTo(c, "ok")
    /\ UNCHANGED <<context, buffers, pc, rows, cpu, out, result, history>>

(* New rows behind those of earlier chunks. *)
AppendRows(buffer, new) == buffer \o new

(* The new rows lie before what a longer chunk left there. *)
Overwrite(buffer, new) == new \o SubSeq(buffer, Len(new) + 1, Len(buffer))

(* The chunk and its padding; it is staged transposed, as [k][mp]. *)
ChunkOf(c) ==
    RowsOf(c, Len(out[c]) + 1, Len(out[c]) + ChunkRows(c))
        \o [i \in 1..(Padded(ChunkRows(c)) - ChunkRows(c)) |-> Zero]

(* A read buffer of the size that this chunk needs, with nothing of use.   *)
NewBuffer(c) == [i \in 1..ChunkRows(c) |-> Garbled]

(* The chunk is written.  A chunk longer than those before may outgrow the *)
(* read buffer: a new one takes its place, which nobody has mapped.        *)
Stage(c) ==
    /\ gpu[c] = "stage"
    /\ a_buf' = ChunkOf(c)
    /\ \/ UNCHANGED <<read_buf, mapped>>
       \/ /\ ChunkRows(c) > Len(read_buf)
          /\ read_buf' = NewBuffer(c)
          /\ mapped' = FALSE
    /\ GpuGoTo(c, "compute")
    /\ UNCHANGED <<context, pool, pc, rows, cpu, out, result, history>>

(* The rows of products that the kernel leaves, each known by its source.  *)
(* In a chunk that is staged with another stride, it finds no row whole.   *)
Computed(c) ==
    [i \in 1..ChunkRows(c) |->
        LET r == pipeline[ChunkRows(c)][i] IN
        IF r # Garbled /\ Len(a_buf) = Padded(ChunkRows(c)) THEN a_buf[r + 1]
                                                            ELSE Garbled]

(* A lock that covers the submission only. *)
ComputeUnlocks(c) ==
    /\ gpu[c] = "compute"
    /\ ~mapped
    /\ read_buf' = Overwrite(read_buf, Computed(c))
    /\ pool' = None
    /\ GpuGoTo(c, "read")
    /\ UNCHANGED <<context, a_buf, mapped, pc, rows, cpu, out, result,
                   history>>

(* Submit, and the mapping request; wgpu refuses work on a mapped buffer.  *)
Compute(c) ==
    /\ gpu[c] = "compute"
    /\ ~mapped
    /\ read_buf' = Overwrite(read_buf, Computed(c))
    /\ mapped' = TRUE
    /\ GpuGoTo(c, "read")
    /\ UNCHANGED <<context, pool, a_buf, pc, rows, cpu, out, result, history>>

(* The mapping is awaited, the chunk's rows are copied out, unmap, unlock. *)
ReadBack(c) ==
    /\ gpu[c] = "read"
    /\ out' = [out EXCEPT ![c] = @ \o SubSeq(read_buf, 1, ChunkRows(c))]
    /\ mapped' = FALSE
    /\ pool' = None
    /\ GpuGoTo(c, "lock")
    /\ UNCHANGED <<context, a_buf, read_buf, pc, rows, cpu, result, history>>

(* poll, the mapping or the view fails: dispatch returns false, perhaps    *)
(* with the read buffer mapped, and frees the pool before the flag is set. *)
DispatchFails(c) ==
    /\ gpu[c] = "read"
    /\ mapped' \in BOOLEAN
    /\ pool' = None
    /\ GpuGoTo(c, "mark")
    /\ UNCHANGED <<context, a_buf, read_buf, pc, rows, cpu, out,
                   result, history>>

(* A failed dispatch that is not recorded. *)
NoMark(c) ==
    /\ gpu[c] = "mark"
    /\ GpuGoTo(c, "failed")
    /\ UNCHANGED <<context, buffers, pc, rows, cpu, out, result, history>>

MarkUnhealthy(c) ==
    /\ gpu[c] = "mark"
    /\ healthy' = FALSE
    /\ GpuGoTo(c, "failed")
    /\ UNCHANGED <<adapter, pipeline, offloadable, resident, buffers, pc, rows,
                   cpu, out, result, history>>

(* A panic that keeps the pool locked. *)
DispatchPanicsLocked(c) ==
    /\ gpu[c] \in {"stage", "compute", "read"}
    /\ GpuGoTo(c, "panicked")
    /\ UNCHANGED <<context, buffers, pc, rows, cpu, out, result, history>>

(* Errors that wgpu does not return it raises as a panic: an allocation    *)
(* that fails, a submission with the read buffer still mapped, a device    *)
(* lost while poll waits.  The thread unwinds, the pool is poisoned and    *)
(* free, the read buffer stays as mapped as it was.                        *)
DispatchPanics(c) ==
    /\ gpu[c] \in {"stage", "compute", "read"}
    /\ pool' = None
    /\ GpuGoTo(c, "panicked")
    /\ UNCHANGED <<context, a_buf, read_buf, mapped, pc, rows, cpu, out,
                   result, history>>
-----------------------------------------------------------------------------
Joinable(c) == pc[c] = "split" /\ cpu[c] # "todo" /\ gpu[c] \in GpuEnded

(* The rows that the calling thread multiplied. *)
CpuShare(c) == RowsOf(c, MGpu(rows[c]) + 1, rows[c])

JoinCpuError(c) ==
    /\ Joinable(c)
    /\ cpu[c] = "error"
    /\ EndCall(c, Error)
    /\ UNCHANGED cpu_failed

Merge(c) ==
    /\ Joinable(c)
    /\ cpu[c] = "ok"
    /\ gpu[c] = "ok"
    /\ EndCall(c, Ok(out[c] \o CpuShare(c)))
    /\ UNCHANGED cpu_failed

(* gpu_task.join().unwrap(): the GPU thread's panic goes on in the caller. *)
JoinUnwraps(c) ==
    /\ Joinable(c)
    /\ cpu[c] = "ok"
    /\ gpu[c] # "ok"
    /\ IF gpu[c] = "panicked"
       THEN EndCall(c, Panicked)
       ELSE /\ GoTo(c, "recompute")
            /\ UNCHANGED <<context, buffers, rows, cpu, gpu, out, result,
                           calls, known, late>>
    /\ UNCHANGED cpu_failed

(* None or a panic: the GPU's rows are computed again by the CPU. *)
JoinGpuFailure(c) ==
    /\ Joinable(c)
    /\ cpu[c] = "ok"
    /\ gpu[c] # "ok"
    /\ GoTo(c, "recompute")
    /\ UNCHANGED <<context, buffers, rows, cpu, gpu, out, result, history>>

Recompute(c) ==
    /\ pc[c] = "recompute"
    /\ EndCall(c, Ok(Product(c, MGpu(rows[c])) \o CpuShare(c)))
    /\ UNCHANGED cpu_failed

RecomputeFails(c) ==
    /\ pc[c] = "recompute"
    /\ EndCall(c, Error)
    /\ cpu_failed' = [cpu_failed EXCEPT ![c] = TRUE]
-----------------------------------------------------------------------------
Calling(c) ==
    \/ CheckContext(c) \/ Upload(c) \/ UploadPanics(c)
    \/ Share(c) \/ ShareFails(c)
    \/ CpuOnly(c) \/ CpuOnlyFails(c) \/ CpuHalf(c)
    \/ JoinCpuError(c) \/ Merge(c) \/ JoinGpuFailure(c)
    \/ Recompute(c) \/ RecomputeFails(c)

GpuThread(c) ==
    \/ LockPool(c) \/ GemmReturns(c) \/ Stage(c) \/ Compute(c) \/ ReadBack(c)
    \/ DispatchFails(c) \/ MarkUnhealthy(c) \/ DispatchPanics(c)

Next ==
    \E c \in Caller :
        \/ \E m \in Rows : Begin(c, m)
        \/ Calling(c) \/ GpuThread(c)

(* Threads run, and a free mutex is taken by one of those that wait. *)
Fairness == \A c \in Caller : WF_vars(Calling(c)) /\ WF_vars(GpuThread(c))

Spec == Init /\ [][Next]_vars /\ Fairness
-----------------------------------------------------------------------------
MaxRows == CHOOSE m \in Rows : \A n \in Rows : n <= m
IsRows(s) == s \in Seq((Caller \X (1..MaxRows)) \cup {Zero, Garbled})

TypeOK ==
    /\ adapter \in BOOLEAN
    /\ healthy \in BOOLEAN
    /\ offloadable \in [Caller -> BOOLEAN]
    /\ resident \in [Caller -> {"unset", "none", "some"}]
    /\ pool \in Caller \cup {None}
    /\ DOMAIN pipeline = DispatchRows
    /\ IsRows(a_buf) /\ Len(a_buf) \in DispatchRows \cup {0}
    /\ IsRows(read_buf) /\ Len(read_buf) <= ChunkM
    /\ mapped \in BOOLEAN
    /\ pc \in [Caller -> PC]
    /\ rows \in [Caller -> Rows]
    /\ cpu \in [Caller -> {"todo", "ok", "error"}]
    /\ gpu \in [Caller -> GpuSteps]
    /\ \A c \in Caller : /\ IsRows(out[c])
                          /\ \/ result[c] \in {None, Error, Panicked}
                             \/ result[c] = Ok(result[c].rows)
    /\ calls \in [Caller -> 0..MaxCalls]
    /\ cpu_failed \in [Caller -> BOOLEAN]
    /\ known \in BOOLEAN
    /\ late \in [Caller -> BOOLEAN]

(* Whatever the GPU does and whoever shares its buffers, a call that       *)
(* succeeds returns the product of each of its own rows, in order: those   *)
(* of both shares, of short last chunks over longer earlier ones, and of   *)
(* chunks that were computed again after a failure.  Each sum of the GPU's *)
(* share, by either kernel, is over exactly the activations of its row and *)
(* the weights of its column, each under the scales that the CPU takes.    *)
RowsAreOwn ==
    \A c \in Caller :
        result[c] # None /\ result[c].kind = "ok" =>
            result[c].rows = Product(c, rows[c])

(* A failure of the GPU's share never fails the call, whether a dispatch   *)
(* returned false or its thread panicked: a call that returns an error     *)
(* failed in work of its own on the CPU, and one that panics did so in its *)
(* upload, before it had a GPU thread, which leaves the OnceLock unset.    *)
GpuFailsSoftly ==
    \A c \in Caller :
        /\ result[c] = Error => cpu_failed[c]
        /\ result[c] = Panicked => resident[c] = "unset"

(* "From then on every call reports unavailable": a call that begins after *)
(* one with a failed dispatch has returned leaves the GPU alone.           *)
FailureIsRemembered ==
    \A c \in Caller :
        late[c] => gpu[c] = "none" /\ pc[c] \in {"idle", "context", "cpu_only"}

(* Every call ends, although the threads share one pool, dispatches fail   *)
(* or panic inside it, and buffers stay mapped.                            *)
EveryCallEnds == \A c \in Caller : pc[c] # "idle" ~> pc[c] = "idle"
=============================================================================
