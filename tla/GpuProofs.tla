----------------------------- MODULE GpuProofs ------------------------------
(***************************************************************************)
(* Proofs about the GPU offload, for any number of threads, calls, rows    *)
(* and chunks: what a failure of the GPU may and may not do, that each     *)
(* call gets the products of its own rows, and how many steps it may take. *)
(***************************************************************************)
EXTENDS GpuGemm, IndexArithmetic, SequenceTheorems, TLAPS

(* The types that the proofs need. *)
StepTypes ==
    /\ healthy \in BOOLEAN
    /\ resident \in [Caller -> {"unset", "none", "some"}]
    /\ pc \in [Caller -> PC]
    /\ cpu \in [Caller -> {"todo", "ok", "error"}]
    /\ gpu \in [Caller -> GpuSteps]
    /\ result = [c \in Caller |-> result[c]]
    /\ cpu_failed \in [Caller -> BOOLEAN]
    /\ known \in BOOLEAN
    /\ late \in [Caller -> BOOLEAN]

(* A GPU thread, and work of the CPU's half, exist inside a split only;    *)
(* whoever knows of a failed dispatch can see it in the flag; a call under *)
(* way has returned nothing.                                               *)
FailureInv(c) ==
    /\ gpu[c] # "none" \/ cpu[c] # "todo" => pc[c] \in {"split", "recompute"}
    /\ gpu[c] = "failed" => ~healthy
    /\ cpu[c] = "error" => cpu_failed[c]
    /\ late[c] => known /\ pc[c] \in {"idle", "context", "cpu_only"}
    /\ pc[c] # "idle" => result[c] = None
    /\ result[c] = Error => cpu_failed[c]
    /\ result[c] = Panicked => resident[c] = "unset"

FailuresInv ==
    /\ StepTypes
    /\ known => ~healthy
    /\ \A c \in Caller : FailureInv(c)

LEMMA InitFailures == Init => FailuresInv
<1> SUFFICES ASSUME Init PROVE FailuresInv
  OBVIOUS
<1>1. StepTypes
  BY DEF Init, StepTypes, PC, GpuSteps
<1>2. ASSUME NEW c \in Caller PROVE FailureInv(c)
  BY ResultAssumption DEF Init, FailureInv
<1> QED BY <1>1, <1>2 DEF Init, FailuresInv

LEMMA ResultKinds ==
    /\ \A product : Ok(product) # Error /\ Ok(product) # Panicked
    /\ Panicked # Error
<1>1. ASSUME NEW product
      PROVE  Ok(product).kind = "ok" /\ Ok(product) # Error
             /\ Ok(product) # Panicked
  <2>1. /\ Ok(product).kind = "ok" /\ Error.kind = "error"
        /\ Panicked.kind = "panic"
    BY DEF Ok, Error, Panicked
  <2> QED BY <2>1
<1>2. Panicked # Error
  <2>1. Panicked.kind = "panic" /\ Error.kind = "error"
    BY DEF Panicked, Error
  <2> QED BY <2>1
<1> QED BY <1>1, <1>2

(* The end of a call keeps the invariant; an error must be of the CPU, a   *)
(* panic of the upload.                                                    *)
LEMMA EndKeeps ==
    ASSUME FailuresInv, NEW c \in Caller, NEW answer, EndCall(c, answer),
           cpu_failed' \in [Caller -> BOOLEAN],
           \A d \in Caller \ {c} : cpu_failed'[d] = cpu_failed[d],
           answer = Error => cpu_failed'[c],
           answer = Panicked => resident[c] = "unset"
    PROVE  FailuresInv'
BY DEF EndCall, GoTo, FailuresInv, FailureInv, StepTypes, PC, GpuSteps,
       context, history, buffers

(* One step of Next after the other. *)
LEMMA FailuresKept == FailuresInv /\ [Next]_vars => FailuresInv'
<1> SUFFICES ASSUME FailuresInv, [Next]_vars PROVE FailuresInv'
  OBVIOUS
<1> USE DEF FailuresInv, StepTypes, PC, GpuSteps, GpuEnded
<1>1. ASSUME NEW c \in Caller, NEW m \in Rows, Begin(c, m) PROVE FailuresInv'
  BY <1>1, ResultAssumption DEF Begin, GoTo, FailureInv, context, buffers
<1>2. ASSUME NEW c \in Caller, CheckContext(c) PROVE FailuresInv'
  BY <1>2 DEF CheckContext, GoTo, FailureInv, context, buffers, history
<1>3. ASSUME NEW c \in Caller, Upload(c) PROVE FailuresInv'
  BY <1>3, ResultAssumption DEF Upload, GoTo, FailureInv, buffers, history
<1>4. ASSUME NEW c \in Caller, UploadPanics(c) PROVE FailuresInv'
  BY <1>4, EndKeeps, ResultKinds DEF UploadPanics
<1>5. ASSUME NEW c \in Caller, Share(c) PROVE FailuresInv'
  BY <1>5 DEF Share, GoTo, GpuGoTo, FailureInv, context, buffers, history
<1>6. ASSUME NEW c \in Caller, ShareFails(c) PROVE FailuresInv'
  BY <1>6, EndKeeps, ResultKinds DEF ShareFails
<1>7. ASSUME NEW c \in Caller, CpuOnly(c) PROVE FailuresInv'
  BY <1>7, EndKeeps, ResultKinds DEF CpuOnly
<1>8. ASSUME NEW c \in Caller, CpuOnlyFails(c) PROVE FailuresInv'
  BY <1>8, EndKeeps, ResultKinds DEF CpuOnlyFails
<1>9. ASSUME NEW c \in Caller, CpuHalf(c) PROVE FailuresInv'
  BY <1>9 DEF CpuHalf, FailureInv, context, buffers
<1>10. ASSUME NEW c \in Caller, JoinCpuError(c) PROVE FailuresInv'
  BY <1>10, EndKeeps, ResultKinds DEF JoinCpuError, Joinable, FailureInv
<1>11. ASSUME NEW c \in Caller, Merge(c) PROVE FailuresInv'
  BY <1>11, EndKeeps, ResultKinds DEF Merge
<1>12. ASSUME NEW c \in Caller, JoinGpuFailure(c) PROVE FailuresInv'
  BY <1>12 DEF JoinGpuFailure, Joinable, GoTo, FailureInv, context, buffers,
     history
<1>13. ASSUME NEW c \in Caller, Recompute(c) PROVE FailuresInv'
  BY <1>13, EndKeeps, ResultKinds DEF Recompute
<1>14. ASSUME NEW c \in Caller, RecomputeFails(c) PROVE FailuresInv'
  BY <1>14, EndKeeps, ResultKinds DEF RecomputeFails
<1>15. ASSUME NEW c \in Caller, MarkUnhealthy(c) PROVE FailuresInv'
  BY <1>15 DEF MarkUnhealthy, GpuGoTo, FailureInv, buffers, history
<1>16. ASSUME NEW c \in Caller, gpu[c] # "none",
              NEW step \in GpuSteps \ {"none", "failed"}, GpuGoTo(c, step),
              UNCHANGED <<context, pc, cpu, result, history>>
       PROVE  FailuresInv'
  BY <1>16 DEF GpuGoTo, FailureInv, context, history
<1>17. ASSUME NEW c \in Caller, GpuThread(c), ~MarkUnhealthy(c)
       PROVE  FailuresInv'
  BY <1>16, <1>17
  DEF GpuThread, LockPool, GemmReturns, Stage, Compute, ReadBack,
      DispatchFails, DispatchPanics, buffers
<1>18. CASE UNCHANGED vars
  BY <1>18 DEF vars, FailureInv, context, history
<1> QED
  BY <1>1, <1>2, <1>3, <1>4, <1>5, <1>6, <1>7, <1>8, <1>9, <1>10, <1>11,
     <1>12, <1>13, <1>14, <1>15, <1>17, <1>18
  DEF Next, Calling

LEMMA FailuresHold == Spec => []FailuresInv
BY InitFailures, FailuresKept, PTL DEF Spec

(* A call returns an error only if its own work on the CPU failed, and     *)
(* panics only in its upload, however often dispatches fail or panic       *)
(* (forward_gpu's join and its fallback).                                  *)
THEOREM GpuFailuresAreSoft == Spec => []GpuFailsSoftly
<1>1. FailuresInv => GpuFailsSoftly
  BY DEF FailuresInv, FailureInv, GpuFailsSoftly
<1> QED BY <1>1, FailuresHold, PTL

(* A call that begins after one with a failed dispatch has returned never  *)
(* uploads, splits or starts a GPU thread (mark_unhealthy, context).       *)
THEOREM FailuresAreRemembered == Spec => []FailureIsRemembered
<1>1. FailuresInv => FailureIsRemembered
  BY DEF FailuresInv, FailureInv, FailureIsRemembered
<1> QED BY <1>1, FailuresHold, PTL
-----------------------------------------------------------------------------
(* The kernels. *)

LEMMA Sizes ==
    /\ TileM \in Nat \ {0} /\ Vec \in Nat \ {0} /\ WgCols \in Nat \ {0}
    /\ GroupWords \in Nat \ {0} /\ WordBytes \in Nat \ {0}
    /\ KBlocks \in Nat \ {0} /\ Columns \in Nat \ {0} /\ ChunkM \in Nat \ {0}
    /\ GroupBytes \in Nat \ {0} /\ BlockElems \in Nat \ {0}
    /\ BlockWords \in Nat \ {0} /\ BlockWords > 4 /\ K \in Nat \ {0}
    /\ TileM \div Vec \in Nat \ {0} /\ (TileM \div Vec) * Vec = TileM
<1>1. /\ TileM \in Nat \ {0} /\ Vec \in Nat \ {0} /\ WgCols \in Nat \ {0}
      /\ GroupWords \in Nat \ {0} /\ WordBytes \in Nat \ {0}
      /\ KBlocks \in Nat \ {0} /\ Columns \in Nat \ {0}
      /\ ChunkM \in Nat \ {0} /\ TileM % Vec = 0
  BY ShaderAssumption
<1>2. GroupBytes \in Nat \ {0}
  <2>1. ASSUME NEW x \in Nat \ {0}, NEW y \in Nat \ {0}
        PROVE  x * y \in Nat \ {0}
    <3>1. x * 1 <= x * y /\ x * 1 = x /\ x * y \in Int
      BY Monotonic
    <3> QED BY <3>1
  <2> QED BY <1>1, <2>1 DEF GroupBytes
<1>3. BlockElems \in Nat \ {0} /\ BlockWords \in Nat \ {0} /\ BlockWords > 4
  BY <1>1, <1>2 DEF BlockElems, BlockWords
<1>4. K \in Nat \ {0}
  <2>1. BlockElems * 1 <= BlockElems * KBlocks /\ BlockElems * 1 = BlockElems
        /\ KBlocks * BlockElems = BlockElems * KBlocks
        /\ KBlocks * BlockElems \in Int
    BY <1>1, <1>3, Monotonic
  <2> QED BY <1>3, <2>1 DEF K
<1>5. TileM \div Vec \in Nat \ {0} /\ (TileM \div Vec) * Vec = TileM
  <2>1. /\ TileM \div Vec \in Int
        /\ TileM = Vec * (TileM \div Vec) + (TileM % Vec)
    BY <1>1, DivMod
  <2>2. PICK v : v = TileM \div Vec
    OBVIOUS
  <2>3. v \in Int /\ TileM = Vec * v
    BY <1>1, <2>1, <2>2
  <2>4. v > 0
    <3>1. SUFFICES ASSUME v <= 0 PROVE FALSE
      BY <2>3
    <3>2. Vec * v <= Vec * 0 /\ Vec * 0 = 0
      BY <1>1, <2>3, <3>1, Monotonic
    <3> QED BY <1>1, <2>3, <3>2
  <2>5. Vec * v = v * Vec
    BY <1>1, <2>3
  <2> QED BY <2>2, <2>3, <2>4, <2>5
<1> QED BY <1>1, <1>2, <1>3, <1>4, <1>5

(* Scales and minimums have six bits. *)
LEMMA SixBits ==
    ASSUME NEW block \in Nat, NEW j \in Nat
    PROVE  Scale(block, j) \in 0..63 /\ Minimum(block, j) \in 0..63
BY DEF Scale, Minimum

(* What the kernels read from a word of a block. *)
LEMMA BytesOfWord ==
    ASSUME NEW block \in Nat, NEW word \in 0..(BlockWords - 1),
           NEW i \in Nat
    PROVE  Byte(block * BlockWords + word, i) =
               IF word \in 1..3 THEN ScaleByte(block, 4 * (word - 1) + i)
               ELSE <<block, (word - 4) * WordBytes + i>>
<1>1. /\ (block * BlockWords + word) \div BlockWords = block
      /\ (block * BlockWords + word) % BlockWords = word
  BY Sizes, Quotient
<1> QED BY <1>1 DEF Byte

(* The three words of scales. *)
LEMMA BytesOfScales ==
    ASSUME NEW block \in Nat, NEW i \in Nat
    PROVE  /\ Byte(block * BlockWords + 1, i) = ScaleByte(block, i)
           /\ Byte(block * BlockWords + 2, i) = ScaleByte(block, 4 + i)
           /\ Byte(block * BlockWords + 3, i) = ScaleByte(block, 8 + i)
<1>1. 1 \in 0..(BlockWords - 1) /\ 2 \in 0..(BlockWords - 1)
      /\ 3 \in 0..(BlockWords - 1)
  BY Sizes
<1>2. 4 * (1 - 1) + i = i /\ 4 * (2 - 1) + i = 4 + i /\ 4 * (3 - 1) + i = 8 + i
      /\ 1 \in 1..3 /\ 2 \in 1..3 /\ 3 \in 1..3
  OBVIOUS
<1>3. Byte(block * BlockWords + 1, i) = ScaleByte(block, 4 * (1 - 1) + i)
  BY <1>1, <1>2, BytesOfWord, Zenon
<1>4. Byte(block * BlockWords + 2, i) = ScaleByte(block, 4 * (2 - 1) + i)
  BY <1>1, <1>2, BytesOfWord, Zenon
<1>5. Byte(block * BlockWords + 3, i) = ScaleByte(block, 4 * (3 - 1) + i)
  BY <1>1, <1>2, BytesOfWord, Zenon
<1> QED BY <1>2, <1>3, <1>4, <1>5

(* The words of quants. *)
LEMMA BytesOfQuants ==
    ASSUME NEW block \in Nat, NEW word \in 4..(BlockWords - 1), NEW i \in Nat
    PROVE  Byte(block * BlockWords + word, i)
               = <<block, (word - 4) * WordBytes + i>>
<1>1. word \in 0..(BlockWords - 1) /\ word \notin 1..3
  BY Sizes
<1>2. Byte(block * BlockWords + word, i) =
          IF word \in 1..3 THEN ScaleByte(block, 4 * (word - 1) + i)
          ELSE <<block, (word - 4) * WordBytes + i>>
  BY <1>1, BytesOfWord, Zenon
<1> QED BY <1>1, <1>2, Zenon

(* scale_min finds the scale and the minimum of each sub-block. *)
LEMMA ScalesUnpacked ==
    ASSUME NEW block \in Nat, NEW j \in 0..7
    PROVE  ScaleMin(block * BlockWords, j) = <<Scale(block, j), Minimum(block, j)>>
<1> DEFINE base == block * BlockWords
           s == Scale(block, j)
           m == Minimum(block, j)
<1>1. BlockWords \in Nat /\ BlockWords > 4 /\ s \in 0..63 /\ m \in 0..63
      /\ block * BlockWords \in Nat /\ j \in Nat
  BY Sizes, SixBits
<1>2. CASE j < 4
  <2>1. Byte(base + 1, j) = ScaleByte(block, j)
    BY <1>1, <1>2, BytesOfScales
  <2>2. Byte(base + 2, j) = ScaleByte(block, 4 + j)
    BY <1>1, <1>2, BytesOfScales
  <2>3. PICK x \in 0..63 : x = Scale(block, j + 4)
    BY SixBits
  <2>4. PICK y \in 0..63 : y = Minimum(block, j + 4)
    BY SixBits
  <2>5. ScaleByte(block, j) = s + 64 * (x \div 16)
    BY <1>2, <2>3 DEF ScaleByte
  <2>6. ScaleByte(block, 4 + j) = m + 64 * (y \div 16)
    <3>1. ~(4 + j < 4) /\ 4 + j \in 4..7 /\ (4 + j) - 4 = j /\ 4 + j = j + 4
          /\ ~(4 + j > 7)
      BY <1>2
    <3> QED BY <3>1, <2>4 DEF ScaleByte
  <2> HIDE DEF s, m, base
  <2>7. (s + 64 * (x \div 16)) % 64 = s /\ (m + 64 * (y \div 16)) % 64 = m
    <3>1. x \div 16 \in Int /\ y \div 16 \in Int
      BY <2>3, <2>4
    <3> QED BY <1>1, <3>1, Packed
  <2>8. ScaleMin(base, j) = <<Byte(base + 1, j) % 64, Byte(base + 2, j) % 64>>
    BY <1>2 DEF ScaleMin
  <2> QED BY <2>1, <2>2, <2>5, <2>6, <2>7, <2>8 DEF s, m, base
<1>3. CASE ~(j < 4)
  <2>0. PICK i \in 0..3 : i = j - 4
    BY <1>3
  <2>1. Byte(base + 1, i) = ScaleByte(block, i)
    BY <1>1, <2>0, BytesOfScales
  <2>2. Byte(base + 2, i) = ScaleByte(block, 4 + i)
    BY <1>1, <2>0, BytesOfScales
  <2>3. Byte(base + 3, i) = ScaleByte(block, 8 + i)
    BY <1>1, <2>0, BytesOfScales
  <2>4. PICK x \in 0..63 : x = Scale(block, i)
    BY SixBits
  <2>5. PICK y \in 0..63 : y = Minimum(block, i)
    BY SixBits
  <2>6. ScaleByte(block, i) = x + 64 * (s \div 16)
    <3>1. i < 4 /\ i + 4 = j /\ ~(i > 7)
      BY <2>0
    <3> QED BY <2>4, <3>1 DEF ScaleByte
  <2>7. ScaleByte(block, 4 + i) = y + 64 * (m \div 16)
    <3>1. ~(4 + i < 4) /\ 4 + i \in 4..7 /\ (4 + i) - 4 = i /\ 4 + i = j
          /\ ~(4 + i > 7)
      BY <2>0
    <3> QED BY <2>5, <3>1 DEF ScaleByte
  <2>8. ScaleByte(block, 8 + i) = (s % 16) + 16 * (m % 16)
    <3>1. ~(8 + i < 4) /\ ~(8 + i \in 4..7) /\ 8 + i > 7 /\ (8 + i) - 4 = j
      BY <2>0
    <3> QED BY <3>1 DEF ScaleByte
  <2> HIDE DEF s, m, base
  <2>9. /\ (x + 64 * (s \div 16)) \div 64 = s \div 16
        /\ (y + 64 * (m \div 16)) \div 64 = m \div 16
        /\ ((s % 16) + 16 * (m % 16)) % 16 = s % 16
        /\ ((s % 16) + 16 * (m % 16)) \div 16 = m % 16
        /\ (s % 16) + 16 * (s \div 16) = s
        /\ (m % 16) + 16 * (m \div 16) = m
    <3>0. 64 \in Nat \ {0} /\ 16 \in Nat \ {0}
      OBVIOUS
    <3>1. s \in Int /\ m \in Int
      BY <1>1
    <3>2. /\ s \div 16 \in Int /\ s % 16 \in 0..(16 - 1)
          /\ s = 16 * (s \div 16) + (s % 16)
          /\ m \div 16 \in Int /\ m % 16 \in 0..(16 - 1)
          /\ m = 16 * (m \div 16) + (m % 16)
      BY <3>1, DivMod
    <3>3. m % 16 \in Int /\ x \in 0..(64 - 1) /\ y \in 0..(64 - 1)
      BY <2>4, <2>5, <3>2
    <3>4. /\ (x + 64 * (s \div 16)) \div 64 = s \div 16
          /\ (y + 64 * (m \div 16)) \div 64 = m \div 16
      BY <3>2, <3>3, <3>0, Packed, Zenon
    <3>5. /\ ((s % 16) + 16 * (m % 16)) % 16 = s % 16
          /\ ((s % 16) + 16 * (m % 16)) \div 16 = m % 16
      BY <3>2, <3>3, <3>0, Packed, Zenon
    <3>6. /\ (s % 16) + 16 * (s \div 16) = s
          /\ (m % 16) + 16 * (m \div 16) = m
      BY <3>2
    <3> QED BY <3>4, <3>5, <3>6
  <2>10. ScaleMin(base, j) =
            <<(Byte(base + 3, i) % 16) + 16 * (Byte(base + 1, i) \div 64),
              (Byte(base + 3, i) \div 16) + 16 * (Byte(base + 2, i) \div 64)>>
    BY <1>3, <2>0 DEF ScaleMin
  <2> QED BY <2>1, <2>2, <2>3, <2>6, <2>7, <2>8, <2>9, <2>10 DEF s, m, base
<1> QED BY <1>2, <1>3
-----------------------------------------------------------------------------
(* The element of a block that the kernels reach by group, half, word and  *)
(* byte, and the element of a row that is it in its block.                 *)
Element(g, half, b, by) ==
    g * 2 * GroupBytes + half * GroupBytes + b * WordBytes + by

LEMMA ElementParts ==
    ASSUME NEW g \in 0..3, NEW half \in {0, 1}, NEW b \in 0..(GroupWords - 1),
           NEW by \in 0..(WordBytes - 1)
    PROVE  /\ Element(g, half, b, by) \in 0..(BlockElems - 1)
           /\ Element(g, half, b, by) \div GroupBytes = 2 * g + half
           /\ Element(g, half, b, by) % GroupBytes = b * WordBytes + by
           /\ 2 * g + half \in 0..7
           /\ (2 * g + half) \div 2 = g
           /\ (2 * g + half) % 2 = half
<1>1. /\ GroupBytes \in Nat \ {0} /\ GroupWords \in Nat \ {0}
      /\ WordBytes \in Nat \ {0} /\ BlockElems = 8 * GroupBytes
      /\ GroupBytes = GroupWords * WordBytes
  BY Sizes DEF BlockElems, GroupBytes
<1>2. PICK rest : rest = b * WordBytes + by
  OBVIOUS
<1>3. rest \in 0..(GroupBytes - 1)
  <2>1. PICK n : n = b * WordBytes + by + 1
    OBVIOUS
  <2>2. n \in 1..(GroupWords * WordBytes)
    BY <1>1, <2>1, IndexOf
  <2>3. b * WordBytes \in Int
    BY <1>1
  <2> QED BY <1>1, <1>2, <2>1, <2>2, <2>3
<1>4. PICK j : j = 2 * g + half
  OBVIOUS
<1>5. j \in 0..7 /\ j \div 2 = g /\ j % 2 = half
  BY <1>4
<1>6. PICK e : e = j * GroupBytes + rest
  OBVIOUS
<1>7. Element(g, half, b, by) = e
  <2>1. /\ g * 2 * GroupBytes + half * GroupBytes = j * GroupBytes
        /\ j * GroupBytes \in Int /\ b * WordBytes \in Int
        /\ g * 2 * GroupBytes \in Int /\ half * GroupBytes \in Int
    BY <1>1, <1>4
  <2> QED BY <1>2, <1>3, <1>6, <2>1 DEF Element
<1>8. e \div GroupBytes = j /\ e % GroupBytes = rest
  BY <1>1, <1>3, <1>5, <1>6, Quotient
<1>9. e \in 0..(BlockElems - 1)
  <2>1. PICK n : n = j * GroupBytes + rest + 1
    OBVIOUS
  <2>2. n \in 1..(8 * GroupBytes)
    BY <1>1, <1>3, <1>5, <2>1, IndexOf
  <2>3. j * GroupBytes \in Int /\ 8 * GroupBytes \in Int
    BY <1>1, <1>5
  <2> QED BY <1>1, <1>3, <1>6, <2>1, <2>2, <2>3
<1> QED BY <1>2, <1>4, <1>5, <1>7, <1>8, <1>9

(* Every element of a block is reached. *)
LEMMA ElementsReached ==
    ASSUME NEW e \in 0..(BlockElems - 1)
    PROVE  \E g \in 0..3, half \in {0, 1}, b \in 0..(GroupWords - 1),
              by \in 0..(WordBytes - 1) : e = Element(g, half, b, by)
<1>1. /\ GroupBytes \in Nat \ {0} /\ GroupWords \in Nat \ {0}
      /\ WordBytes \in Nat \ {0} /\ BlockElems = 8 * GroupBytes
      /\ GroupBytes = GroupWords * WordBytes
  BY Sizes DEF BlockElems, GroupBytes
<1>2. PICK j, rest : j = e \div GroupBytes /\ rest = e % GroupBytes
  OBVIOUS
<1>3. j \in 0..(8 - 1) /\ rest \in 0..(GroupBytes - 1)
      /\ e = j * GroupBytes + rest
  BY <1>1, <1>2, RowAndColumn
<1>4. PICK b, by : b = rest \div WordBytes /\ by = rest % WordBytes
  OBVIOUS
<1>5. b \in 0..(GroupWords - 1) /\ by \in 0..(WordBytes - 1)
      /\ rest = b * WordBytes + by
  BY <1>1, <1>3, <1>4, RowAndColumn
<1>6. PICK g \in 0..3, half \in {0, 1} : j = 2 * g + half
  <2>1. j \div 2 \in 0..3 /\ j % 2 \in {0, 1} /\ j = 2 * (j \div 2) + (j % 2)
    BY <1>3
  <2> QED BY <2>1
<1>7. e = Element(g, half, b, by)
  <2>1. /\ g * 2 * GroupBytes + half * GroupBytes = j * GroupBytes
        /\ j * GroupBytes \in Int /\ b * WordBytes \in Int
        /\ g * 2 * GroupBytes \in Int /\ half * GroupBytes \in Int
    BY <1>1, <1>5, <1>6
  <2> QED BY <1>3, <1>5, <2>1 DEF Element
<1> QED BY <1>5, <1>6, <1>7

(* The activations [k][mp] are read a vector at a time: what the tile holds *)
(* for element e of a block and row r of the tile.                         *)
LEMMA TileAddress ==
    ASSUME NEW mp \in Nat, NEW kb \in Nat, NEW e \in Nat, NEW tile \in Nat,
           NEW r \in 0..(TileM - 1), mp % Vec = 0
    PROVE  ATile(mp, kb, tile, e * (TileM \div Vec) + (r \div Vec), r % Vec)
               = (kb * BlockElems + e) * mp + (tile * TileM + r)
<1>1. /\ Vec \in Nat \ {0} /\ TileM \in Nat \ {0} /\ BlockElems \in Nat
      /\ TileM \div Vec \in Nat \ {0} /\ (TileM \div Vec) * Vec = TileM
  BY Sizes
<1>2. PICK v \in Nat \ {0} : v = TileM \div Vec /\ v * Vec = TileM
  BY <1>1
<1>3. PICK cq, cr : cq = r \div Vec /\ cr = r % Vec
  OBVIOUS
<1>4. cq \in 0..(v - 1) /\ cr \in 0..(Vec - 1) /\ r = cq * Vec + cr
  <2>1. r \in 0..(v * Vec - 1)
    BY <1>2
  <2> QED BY <1>1, <1>3, <2>1, RowAndColumn
<1>5. PICK u \in Nat : u = mp \div Vec /\ mp = u * Vec
  <2>1. /\ mp \div Vec \in Nat /\ mp \div Vec \in Int
        /\ mp = Vec * (mp \div Vec) + (mp % Vec)
    BY <1>1, DivMod
  <2> QED BY <1>1, <2>1
<1>6. (e * v + cq) \div v = e /\ (e * v + cq) % v = cq
  <2>1. e \in Int
    OBVIOUS
  <2> QED BY <1>4, <2>1, Quotient, Zenon
<1>7. PICK n \in Nat : n = kb * BlockElems + e
  <2>1. kb * BlockElems \in Nat
    BY <1>1
  <2> QED BY <2>1
<1>8. ATile(mp, kb, tile, e * v + cq, cr) = (n * u + tile * v + cq) * Vec + cr
  BY <1>2, <1>5, <1>6, <1>7 DEF ATile
<1>9. (n * u + tile * v + cq) * Vec + cr = n * mp + (tile * TileM + r)
  <2>1. n * u \in Int /\ tile * v \in Int /\ v \in Int /\ cq * Vec \in Int
    BY <1>1, <1>2, <1>4, <1>5, <1>7
  <2>2. (n * u + tile * v + cq) * Vec
            = (n * u) * Vec + (tile * v) * Vec + cq * Vec
    BY <1>1, <1>4, <2>1
  <2>3. (n * u) * Vec = n * mp /\ (tile * v) * Vec = tile * TileM
    <3>1. (n * u) * Vec = n * (u * Vec) /\ (tile * v) * Vec = tile * (v * Vec)
      BY <1>1, <1>5, <1>7, <2>1
    <3> QED BY <1>1, <1>2, <1>5, <3>1
  <2>4. n * mp \in Int /\ tile * TileM \in Int
    BY <1>1, <1>7
  <2> QED BY <1>4, <2>1, <2>2, <2>3, <2>4
<1> QED BY <1>2, <1>3, <1>7, <1>8, <1>9

(* What a thread sums up is the product of a row of activations with a row *)
(* of weights: each pair once, each weight with its own scales.            *)
LEMMA SumIsDot ==
    ASSUME NEW mp \in Nat, NEW column \in Nat, NEW tile \in Nat,
           NEW r \in 0..(TileM - 1), mp % Vec = 0
    PROVE  Sum(mp, column, tile, r) = Dot(column, mp, tile * TileM + r)
<1> DEFINE
      Kernels(kb, g, half, b, by) ==
          LET base == (column * KBlocks + kb) * BlockWords
              e == g * 2 * GroupBytes + half * GroupBytes + b * WordBytes + by
              sm == ScaleMin(base, 2 * g + half) IN
          [a |-> ATile(mp, kb, tile, e * (TileM \div Vec) + (r \div Vec), r % Vec),
           w |-> [factors |-> base \div BlockWords, high |-> half = 1,
                  byte |-> Byte(base + 4 + g * GroupWords + b, by),
                  scale |-> sm[1], minimum |-> sm[2]]]
      Reference(n) ==
          [a |-> n * mp + (tile * TileM + r),
           w |-> Weight(column * KBlocks + n \div BlockElems, n % BlockElems)]
<1>1. /\ BlockElems \in Nat \ {0} /\ BlockWords \in Nat \ {0}
      /\ KBlocks \in Nat \ {0} /\ GroupWords \in Nat \ {0}
      /\ WordBytes \in Nat \ {0} /\ K = KBlocks * BlockElems
      /\ BlockWords = 4 + 4 * GroupWords /\ GroupBytes = GroupWords * WordBytes
  BY Sizes DEF K, BlockWords, GroupBytes
<1>2. ASSUME NEW kb \in 0..(KBlocks - 1), NEW g \in 0..3, NEW half \in {0, 1},
             NEW b \in 0..(GroupWords - 1), NEW by \in 0..(WordBytes - 1),
             NEW n, n = kb * BlockElems + Element(g, half, b, by)
      PROVE  n \in 0..(K - 1) /\ Kernels(kb, g, half, b, by) = Reference(n)
  <2> DEFINE e == Element(g, half, b, by)
  <2>1. /\ e \in 0..(BlockElems - 1) /\ e \div GroupBytes = 2 * g + half
        /\ e % GroupBytes = b * WordBytes + by
        /\ 2 * g + half \in 0..7
        /\ (2 * g + half) \div 2 = g /\ (2 * g + half) % 2 = half
    BY <1>2, ElementParts
  <2>2. e = g * 2 * GroupBytes + half * GroupBytes + b * WordBytes + by
    BY DEF Element
  <2> HIDE DEF e
  <2>3. /\ n \in 0..(K - 1) /\ n \div BlockElems = kb /\ n % BlockElems = e
    <3>1. PICK x : x = kb * BlockElems + e + 1
      OBVIOUS
    <3>2. kb * BlockElems \in Int /\ e \in Int
      BY <1>1, <2>1
    <3>3. x - 1 = n
      BY <1>2, <3>1, <3>2 DEF e
    <3>4. x \in 1..K /\ (x - 1) \div BlockElems = kb /\ (x - 1) % BlockElems = e
      BY <1>1, <2>1, <3>1, IndexOf
    <3>5. K \in Int /\ n \in Int /\ x \in Int
      BY <1>1, <1>2, <3>1, <3>2 DEF e
    <3> QED BY <3>3, <3>4, <3>5
  <2>4. PICK block \in Nat : block = column * KBlocks + kb
    <3>1. column * KBlocks \in Nat
      BY <1>1
    <3> QED BY <3>1
  <2>5. (block * BlockWords) \div BlockWords = block
    <3>1. block \in Int /\ BlockWords \in Nat \ {0}
      BY <1>1
    <3> QED BY <3>1, WholeQuotient, Zenon
  <2>6. ScaleMin(block * BlockWords, 2 * g + half)
            = <<Scale(block, 2 * g + half), Minimum(block, 2 * g + half)>>
    BY <2>1, ScalesUnpacked
  <2>7. Byte(block * BlockWords + 4 + g * GroupWords + b, by)
            = <<block, g * GroupBytes + (e % GroupBytes)>>
    <3>1. PICK gw \in Nat : gw = g * GroupWords
      <4>1. g * GroupWords \in Nat
        BY <1>1
      <4> QED BY <4>1
    <3>2. PICK word \in Nat : word = 4 + gw + b
      BY <3>1
    <3>3. word \in 4..(BlockWords - 1)
      <4>1. g * GroupWords <= 3 * GroupWords
        BY <1>1, Monotonic
      <4> QED BY <1>1, <3>1, <3>2, <4>1
    <3>4. by \in Nat
      OBVIOUS
    <3>5. Byte(block * BlockWords + word, by)
              = <<block, (word - 4) * WordBytes + by>>
      BY <3>3, <3>4, BytesOfQuants, Zenon
    <3>6. block * BlockWords + word = block * BlockWords + 4 + g * GroupWords + b
      <4>1. block * BlockWords \in Int
        BY <1>1
      <4> QED BY <3>1, <3>2, <4>1
    <3>7. (word - 4) * WordBytes + by = g * GroupBytes + (e % GroupBytes)
      <4>1. word - 4 = gw + b
        BY <3>1, <3>2
      <4>2. (gw + b) * WordBytes = gw * WordBytes + b * WordBytes
        BY <1>1, <3>1
      <4>3. gw * WordBytes = g * GroupBytes
        <5>1. (g * GroupWords) * WordBytes = g * (GroupWords * WordBytes)
          BY <1>1
        <5> QED BY <1>1, <3>1, <5>1
      <4>4. gw * WordBytes \in Int /\ b * WordBytes \in Int
        BY <1>1, <3>1
      <4> QED BY <2>1, <4>1, <4>2, <4>3, <4>4
    <3> QED BY <3>5, <3>6, <3>7
  <2>8. ATile(mp, kb, tile, e * (TileM \div Vec) + (r \div Vec), r % Vec)
            = n * mp + (tile * TileM + r)
    <3>1. e \in Nat /\ kb \in Nat
      BY <2>1
    <3> QED BY <1>2, <3>1, TileAddress DEF e
  <2>9. Weight(block, e) =
            [factors |-> block, high |-> half = 1,
             byte |-> <<block, g * GroupBytes + (e % GroupBytes)>>,
             scale |-> Scale(block, 2 * g + half),
             minimum |-> Minimum(block, 2 * g + half)]
    BY <2>1 DEF Weight
  <2> DEFINE pair == ScaleMin(block * BlockWords, 2 * g + half)
  <2>10. pair[1] = Scale(block, 2 * g + half)
         /\ pair[2] = Minimum(block, 2 * g + half)
    BY <2>6
  <2> HIDE DEF pair
  <2>11. Kernels(kb, g, half, b, by) =
            [a |-> n * mp + (tile * TileM + r),
             w |-> [factors |-> block, high |-> half = 1,
                    byte |-> <<block, g * GroupBytes + (e % GroupBytes)>>,
                    scale |-> Scale(block, 2 * g + half),
                    minimum |-> Minimum(block, 2 * g + half)]]
    BY <2>2, <2>4, <2>5, <2>7, <2>8, <2>10, Zenon DEF pair
  <2>12. Reference(n) = [a |-> n * mp + (tile * TileM + r), w |-> Weight(block, e)]
    BY <2>3, <2>4
  <2> QED BY <2>3, <2>9, <2>11, <2>12, Zenon
<1>3. ASSUME NEW n \in 0..(K - 1)
      PROVE  \E kb \in 0..(KBlocks - 1), g \in 0..3, half \in {0, 1},
                b \in 0..(GroupWords - 1), by \in 0..(WordBytes - 1) :
                n = kb * BlockElems + Element(g, half, b, by)
  <2>1. PICK kb, e : kb = n \div BlockElems /\ e = n % BlockElems
    OBVIOUS
  <2>2. /\ kb \in 0..(KBlocks - 1) /\ e \in 0..(BlockElems - 1)
        /\ n = kb * BlockElems + e
    BY <1>1, <2>1, RowAndColumn
  <2> QED BY <2>2, ElementsReached
<1>4. Sum(mp, column, tile, r) =
         {Kernels(kb, g, half, b, by) :
            kb \in 0..(KBlocks - 1), g \in 0..3, half \in {0, 1},
            b \in 0..(GroupWords - 1), by \in 0..(WordBytes - 1)}
  BY DEF Sum
<1>5. Dot(column, mp, tile * TileM + r) = {Reference(n) : n \in 0..(K - 1)}
  BY DEF Dot
<1> HIDE DEF Kernels, Reference
<1>6. Sum(mp, column, tile, r) \subseteq Dot(column, mp, tile * TileM + r)
  BY <1>2, <1>4, <1>5
<1>7. Dot(column, mp, tile * TileM + r) \subseteq Sum(mp, column, tile, r)
  BY <1>2, <1>3, <1>4, <1>5
<1> QED BY <1>6, <1>7
-----------------------------------------------------------------------------
(* A division that rounds up counts every group that an index falls into.  *)
LEMMA GroupCounted ==
    ASSUME NEW a \in Nat, NEW b \in Nat \ {0}, NEW x \in Nat, x * b < a
    PROVE  x \in 0..(CeilDiv(a, b) - 1)
<1>1. PICK n \in Int : n = a + b - 1
  OBVIOUS
<1>2. n \div b \in Int /\ n % b \in 0..(b - 1) /\ n = b * (n \div b) + (n % b)
  BY DivMod
<1>3. PICK q \in Int : q = n \div b
  BY <1>2
<1>4. x < q
  <2>1. SUFFICES ASSUME q <= x PROVE FALSE
    BY <1>3
  <2>2. b * q <= b * x /\ b * x = x * b /\ b * q \in Int /\ x * b \in Int
    BY <1>3, <2>1, Monotonic
  <2> QED BY <1>1, <1>2, <1>3, <2>2
<1> QED BY <1>1, <1>3, <1>4 DEF CeilDiv

(* A dispatch has whole tiles of rows: nothing is filled up. *)
LEMMA DispatchIsPadded ==
    ASSUME NEW m \in DispatchRows
    PROVE  m \in Nat \ {0} /\ Padded(m) = m /\ m % Vec = 0
<1>1. /\ Vec \in Nat \ {0} /\ TileM \in Nat \ {0} /\ TileM \div Vec \in Nat \ {0}
      /\ (TileM \div Vec) * Vec = TileM
  BY Sizes
<1>2. PICK t : t \in 1..(ChunkM \div TileM) /\ m = TileM * t
  BY DEF DispatchRows
<1>3. t \in Nat \ {0}
  BY <1>2
<1>4. m = t * TileM /\ m \in Nat \ {0}
  <2>1. TileM * 1 <= TileM * t /\ TileM * 1 = TileM /\ TileM * t = t * TileM
        /\ TileM * t \in Int
    BY <1>1, <1>3, Monotonic
  <2> QED BY <1>1, <1>2, <2>1
<1>5. Padded(m) = m
  <2>1. TileM - 1 \in 0..(TileM - 1) /\ t \in Int
    BY <1>1, <1>3
  <2>2. (t * TileM + (TileM - 1)) \div TileM = t
    BY <1>1, <2>1, Quotient, Zenon
  <2>3. m + TileM - 1 = t * TileM + (TileM - 1)
    BY <1>1, <1>4
  <2> QED BY <1>4, <2>2, <2>3 DEF Padded, CeilDiv
<1>6. m % Vec = 0
  <2>1. PICK v \in Nat \ {0} : v = TileM \div Vec /\ v * Vec = TileM
    BY <1>1
  <2>2. PICK tv \in Int : tv = t * v
    BY <1>3, <2>1
  <2>3. 0 \in 0..(Vec - 1)
    BY <1>1
  <2>4. (tv * Vec + 0) % Vec = 0
    BY <1>1, <2>2, <2>3, Quotient, Zenon
  <2>5. tv * Vec + 0 = m
    <3>1. (t * v) * Vec = t * (v * Vec)
      BY <1>1, <1>3, <2>1
    <3>2. tv * Vec = m
      BY <1>4, <2>1, <2>2, <3>1, Zenon
    <3>3. m \in Int
      BY <1>4
    <3> QED BY <3>2, <3>3
  <2> QED BY <2>4, <2>5
<1> QED BY <1>4, <1>5, <1>6

(* The column and the address of a store, for threads of so many columns. *)
StoreColumn(s, width) == s.wg_x * WgCols * width + s.lid + s.q * WgCols
StoreRow(s) == s.wg_y * TileM + s.r

(* Each place of the product is stored to. *)
LEMMA EveryPlaceStored ==
    ASSUME NEW m \in Nat, NEW width \in Nat \ {0},
           NEW row \in 0..(m - 1), NEW column \in 0..(Columns - 1)
    PROVE  \E s \in Stores(m, width) :
               StoreColumn(s, width) = column /\ StoreRow(s) = row
<1>1. WgCols \in Nat \ {0} /\ TileM \in Nat \ {0} /\ Columns \in Nat
  BY Sizes
<1>2. PICK group \in Nat \ {0} : group = width * WgCols
  <2>1. width * 1 <= width * WgCols /\ width * 1 = width
        /\ width * WgCols \in Int
    BY <1>1, Monotonic
  <2> QED BY <2>1
<1>3. PICK wg_x, rest : wg_x = column \div group /\ rest = column % group
  OBVIOUS
<1>4. wg_x \in Nat /\ rest \in 0..(group - 1) /\ column = wg_x * group + rest
  <2>0. column \in Int
    BY <1>1
  <2>1. wg_x \in Int /\ rest \in 0..(group - 1)
        /\ column = group * wg_x + rest
    BY <1>2, <1>3, <2>0, DivMod
  <2>2. wg_x \in Nat
    BY <1>2, <1>3
  <2>3. group * wg_x = wg_x * group
    BY <1>2, <2>1
  <2> QED BY <2>0, <2>1, <2>2, <2>3
<1>5. PICK q, lid : q = rest \div WgCols /\ lid = rest % WgCols
  OBVIOUS
<1>6. q \in 0..(width - 1) /\ lid \in 0..(WgCols - 1)
      /\ rest = q * WgCols + lid
  <2>1. rest \in 0..(width * WgCols - 1)
    BY <1>2, <1>4
  <2> QED BY <1>1, <1>5, <2>1, RowAndColumn
<1>7. PICK wg_y, r : wg_y = row \div TileM /\ r = row % TileM
  OBVIOUS
<1>8. wg_y \in Nat /\ r \in 0..(TileM - 1) /\ row = wg_y * TileM + r
  <2>1. wg_y \in Int /\ r \in 0..(TileM - 1)
        /\ row = TileM * wg_y + r /\ row \in Int
    BY <1>1, <1>7, DivMod
  <2>2. wg_y \in Nat
    BY <1>1, <1>7
  <2>3. TileM * wg_y = wg_y * TileM
    BY <1>1, <2>1
  <2> QED BY <2>1, <2>2, <2>3
<1>9. wg_x \in 0..(CeilDiv(Columns, WgCols * width) - 1)
  <2>1. wg_x * group < Columns
    <3>1. wg_x * group \in Int
      BY <1>2, <1>4
    <3> QED BY <1>1, <1>4, <3>1
  <2>2. WgCols * width = group
    BY <1>1, <1>2
  <2> QED BY <1>1, <1>2, <1>4, <2>1, <2>2, GroupCounted
<1>10. wg_y \in 0..(CeilDiv(m, TileM) - 1)
  <2>1. wg_y * TileM < m
    <3>1. wg_y * TileM \in Int
      BY <1>1, <1>8
    <3> QED BY <1>8, <3>1
  <2> QED BY <1>1, <1>8, <2>1, GroupCounted
<1> DEFINE s == [wg_x |-> wg_x, wg_y |-> wg_y, lid |-> lid, q |-> q, r |-> r]
<1>11. s \in [wg_x : 0..(CeilDiv(Columns, WgCols * width) - 1),
              wg_y : 0..(CeilDiv(m, TileM) - 1),
              lid : 0..(WgCols - 1), q : 0..(width - 1), r : 0..(TileM - 1)]
  BY <1>6, <1>8, <1>9, <1>10
<1>12. wg_x * WgCols * width + lid + q * WgCols = column
  <2>1. (wg_x * WgCols) * width = wg_x * group
    <3>1. (wg_x * WgCols) * width = wg_x * (width * WgCols)
      BY <1>1, <1>4
    <3> QED BY <1>2, <3>1
  <2>2. q * WgCols \in Int /\ wg_x * group \in Int
    BY <1>1, <1>2, <1>4, <1>6
  <2> QED BY <1>4, <1>6, <2>1, <2>2
<1>13. /\ s.wg_x = wg_x /\ s.wg_y = wg_y /\ s.lid = lid /\ s.q = q /\ s.r = r
  OBVIOUS
<1> HIDE DEF s
<1>14. StoreColumn(s, width) = column /\ StoreRow(s) = row
  BY <1>8, <1>12, <1>13 DEF StoreColumn, StoreRow
<1>15. s \in Stores(m, width)
  <2>1. column < Columns /\ row < m
    BY <1>1
  <2> QED BY <1>11, <1>14, <2>1 DEF Stores, StoreColumn, StoreRow
<1> QED BY <1>14, <1>15

(* The product that a dispatch leaves: in each row and column the product  *)
(* of that row of the activations with that row of the weights.            *)
LEMMA KernelMultiplies ==
    ASSUME NEW use_f16 \in BOOLEAN, NEW m \in DispatchRows,
           NEW row \in 0..(m - 1), NEW column \in 0..(Columns - 1)
    PROVE  Kernel(use_f16, m)[row * Columns + column] = Dot(column, m, row)
<1> DEFINE width == Width(use_f16)
           address == row * Columns + column
           Address(s) == StoreRow(s) * Columns + StoreColumn(s, width)
           Summed(s) == Sum(m, StoreColumn(s, width), s.wg_y, s.r)
           here == {s \in Stores(m, width) : Address(s) = address}
<1>1. m \in Nat \ {0} /\ Padded(m) = m /\ m % Vec = 0
  BY DispatchIsPadded
<1>2. width \in Nat \ {0}
  BY DEF Width
<1>3. WgCols \in Nat \ {0} /\ TileM \in Nat \ {0} /\ Columns \in Nat \ {0}
  BY Sizes
<1>4. Kernel(use_f16, m) =
         [place \in 0..(m * Columns - 1) |->
             UNION {Sum(Padded(m), StoreColumn(s, width), s.wg_y, s.r) :
                       s \in {s \in Stores(m, width) : Address(s) = place}}]
  BY DEF Kernel, StoreColumn, StoreRow
<1>5. address \in 0..(m * Columns - 1)
  <2>1. PICK n : n = row * Columns + column + 1
    OBVIOUS
  <2>2. n \in 1..(m * Columns)
    BY <1>1, <1>3, <2>1, IndexOf
  <2>3. row * Columns \in Int /\ m * Columns \in Int
    BY <1>1, <1>3
  <2> QED BY <1>3, <2>1, <2>2, <2>3
<1>6. Kernel(use_f16, m)[address] = UNION {Summed(s) : s \in here}
  BY <1>1, <1>4, <1>5
<1>7. ASSUME NEW s \in here PROVE Summed(s) = Dot(column, m, row)
  <2>1. /\ s \in Stores(m, width)
        /\ StoreRow(s) * Columns + StoreColumn(s, width) = address
    BY <1>7
  <2>2. /\ s.wg_x \in Nat /\ s.wg_y \in Nat /\ s.lid \in Nat /\ s.q \in Nat
        /\ s.r \in 0..(TileM - 1) /\ StoreColumn(s, width) < Columns
    <3>1. s \in [wg_x : 0..(CeilDiv(Columns, WgCols * width) - 1),
                 wg_y : 0..(CeilDiv(m, TileM) - 1),
                 lid : 0..(WgCols - 1), q : 0..(width - 1), r : 0..(TileM - 1)]
      BY <2>1 DEF Stores
    <3>2. StoreColumn(s, width) < Columns
      BY <2>1 DEF Stores, StoreColumn
    <3> HIDE DEF width
    <3> QED BY <3>1, <3>2
  <2>3. PICK c : c = StoreColumn(s, width)
    OBVIOUS
  <2>4. PICK y : y = StoreRow(s)
    OBVIOUS
  <2>5. c \in 0..(Columns - 1) /\ y \in Nat
    <3>1. s.wg_x * WgCols * width \in Nat /\ s.q * WgCols \in Nat
          /\ s.wg_y * TileM \in Nat
      <4>1. s.wg_x * WgCols \in Nat
        BY <1>3, <2>2
      <4> HIDE DEF width
      <4> QED BY <1>2, <1>3, <2>2, <4>1
    <3> HIDE DEF width
    <3>2. c \in Nat /\ y \in Nat
      BY <2>2, <2>3, <2>4, <3>1 DEF StoreColumn, StoreRow
    <3> QED BY <1>3, <2>2, <2>3, <3>2
  <2>6. c = column /\ y = row
    <3>1. Columns * y + c = Columns * row + column
      <4>1. Columns * y = y * Columns /\ Columns * row = row * Columns
        BY <1>3, <2>5
      <4> QED BY <2>1, <2>3, <2>4, <4>1
    <3>2. y \in Int /\ row \in Int
      BY <2>5
    <3> QED BY <1>3, <2>5, <3>1, <3>2, UniqueQuotient
  <2>7. Sum(m, c, s.wg_y, s.r) = Dot(c, m, s.wg_y * TileM + s.r)
    BY <1>1, <2>2, <2>5, SumIsDot
  <2> QED BY <2>3, <2>4, <2>6, <2>7 DEF StoreRow
<1>8. here # {}
  BY <1>1, <1>2, EveryPlaceStored
<1> HIDE DEF here, Summed, address
<1>9. UNION {Summed(s) : s \in here} = Dot(column, m, row)
  BY <1>7, <1>8
<1> QED BY <1>6, <1>9 DEF address

(* A product tells which row of the activations it is of. *)
LEMMA DotTellsRow ==
    ASSUME NEW column, NEW m \in Nat, NEW r \in 0..(m - 1),
           NEW u \in 0..(m - 1), Dot(column, m, r) = Dot(column, m, u)
    PROVE  r = u
<1>1. 0 \in 0..(K - 1)
  BY Sizes
<1>2. 0 * m + r = r
  OBVIOUS
<1> DEFINE first ==
      [a |-> 0 * m + r,
       w |-> Weight(column * KBlocks + 0 \div BlockElems, 0 % BlockElems)]
<1>3. PICK x \in Dot(column, m, r) : x.a = r
  <2>1. first \in Dot(column, m, r)
    BY <1>1, Zenon DEF Dot
  <2>2. first.a = 0 * m + r
    OBVIOUS
  <2> QED BY <1>2, <2>1, <2>2
<1>4. PICK n \in 0..(K - 1) : x.a = n * m + u
  <2>1. x \in Dot(column, m, u)
    OBVIOUS
  <2> QED BY <2>1 DEF Dot
<1>5. m * 0 + r = m * n + u
  <2>1. m * 0 = 0 /\ m * n = n * m
    OBVIOUS
  <2> QED BY <1>3, <1>4, <2>1
<1>6. m \in Nat \ {0} /\ n \in Int /\ 0 \in Int
  OBVIOUS
<1> QED BY <1>5, <1>6, UniqueQuotient

(* Both kernels compute each row of a product from the row of activations  *)
(* with its number, for any sizes of tiles, vectors, workgroups and blocks *)
(* and any number of whole tiles of rows.                                  *)
KernelsRight ==
    \A use_f16 \in BOOLEAN : \A m \in DispatchRows : \A i \in 1..m :
        SourceRows(use_f16)[m][i] = i - 1

THEOREM KernelsAreRight == KernelsRight
<1> SUFFICES ASSUME NEW use_f16 \in BOOLEAN, NEW m \in DispatchRows,
                    NEW i \in 1..m
             PROVE  SourceRows(use_f16)[m][i] = i - 1
  BY DEF KernelsRight
<1>1. m \in Nat \ {0} /\ Padded(m) = m /\ i - 1 \in 0..(m - 1)
  <2>1. m \in Nat \ {0} /\ Padded(m) = m
    BY DispatchIsPadded
  <2> QED BY <2>1
<1> DEFINE product == Kernel(use_f16, m)
           IsSource(r) ==
               \A column \in 0..(Columns - 1) :
                   product[(i - 1) * Columns + column] = Dot(column, m, r)
           sources == {r \in 0..(m - 1) : IsSource(r)}
<1>2. SourceRows(use_f16)[m][i] = SourceRow(product, m, i - 1)
  BY <1>1 DEF SourceRows
<1>3. sources = {i - 1}
  <2>1. i - 1 \in sources
    BY <1>1, KernelMultiplies
  <2>2. ASSUME NEW r \in sources PROVE r = i - 1
    <3>1. 0 \in 0..(Columns - 1)
      BY Sizes
    <3>2. Dot(0, m, r) = Dot(0, m, i - 1)
      BY <1>1, <2>2, <3>1, KernelMultiplies
    <3>3. r \in 0..(m - 1)
      BY <2>2
    <3> QED BY <1>1, <3>2, <3>3, DotTellsRow
  <2> QED BY <2>1, <2>2
<1>4. SourceRow(product, m, i - 1) =
         IF sources = {} THEN Garbled ELSE CHOOSE r \in sources : TRUE
  BY DEF SourceRow
<1> HIDE DEF sources
<1>5. (CHOOSE r \in sources : TRUE) = i - 1
  BY <1>3
<1> QED BY <1>2, <1>3, <1>4, <1>5
-----------------------------------------------------------------------------
(* A number of whole tiles. *)
IsTiles(n) == \E t \in Nat : n = TileM * t

LEMMA TilesBelow ==
    ASSUME NEW t \in Nat, NEW u \in Nat, TileM * t < TileM * u
    PROVE  t < u
<1>1. TileM \in Nat \ {0}
  BY ShaderAssumption
<1>2. SUFFICES ASSUME u <= t PROVE FALSE
  OBVIOUS
<1>3. PICK d \in Nat : t = u + d
  <2>1. t - u \in Nat /\ t = u + (t - u)
    BY <1>2
  <2> QED BY <2>1
<1>4. TileM * t = TileM * u + TileM * d /\ TileM * d >= 0
  BY <1>1, <1>3
<1> QED BY <1>1, <1>4

(* A whole number of tiles up to a chunk is one that a dispatch may have. *)
LEMMA TilesDispatch ==
    ASSUME NEW n \in Nat, IsTiles(n), n > 0, n <= ChunkM
    PROVE  n \in DispatchRows
<1>1. TileM \in Nat \ {0} /\ ChunkM \in Nat \ {0} /\ ChunkM % TileM = 0
  BY ShaderAssumption
<1> DEFINE v == ChunkM \div TileM
<1>2. v \in Nat /\ ChunkM = TileM * v
  BY <1>1
<1>3. PICK t \in Nat : n = TileM * t
  BY DEF IsTiles
<1>4. t # 0
  BY <1>1, <1>3
<1>5. t <= v
  <2>1. SUFFICES ASSUME v < t PROVE FALSE
    BY <1>2
  <2>2. PICK d \in Nat : t = v + 1 + d
    <3>1. t - v - 1 \in Nat /\ t = v + 1 + (t - v - 1)
      BY <1>2, <2>1
    <3> QED BY <3>1
  <2> HIDE DEF v
  <2>3. TileM * t = TileM * v + TileM + TileM * d /\ TileM * d >= 0
    BY <1>1, <1>2, <2>2
  <2> QED BY <1>1, <1>2, <1>3, <2>3
<1>6. t \in 1..v
  BY <1>2, <1>4, <1>5
<1> QED BY <1>3, <1>6 DEF DispatchRows

LEMMA PaddedCovers ==
    ASSUME NEW m \in Nat
    PROVE  Padded(m) \in Nat /\ m <= Padded(m)
<1>1. TileM \in Nat \ {0}
  BY ShaderAssumption
<1> DEFINE a == m + TileM - 1
           q == a \div TileM
           r == a % TileM
<1>2. a \in Nat
  BY <1>1
<1>3. q \in Nat /\ r \in 0..(TileM - 1) /\ a = TileM * q + r
  BY <1>1, <1>2
<1>4. TileM * q = q * TileM
  BY <1>1, <1>3
<1>5. q * TileM \in Nat /\ m <= q * TileM
  BY <1>1, <1>3, <1>4
<1> QED BY <1>5 DEF Padded, CeilDiv

(* The GPU's share is a number of whole tiles, and no more than there is. *)
LEMMA GpuShare ==
    ASSUME NEW m \in Nat
    PROVE  MGpu(m) \in Nat /\ MGpu(m) <= m /\ IsTiles(MGpu(m))
<1>1. TileM \in Nat \ {0}
  BY ShaderAssumption
<1> DEFINE a == (m * 3) \div 5
           q == a \div TileM
<1>2. a \in Nat /\ a <= m
  OBVIOUS
<1>3. q \in Nat /\ TileM * q <= a
  <2> HIDE DEF a
  <2>1. q \in Nat /\ a % TileM \in Nat /\ a = TileM * q + (a % TileM)
    BY <1>1, <1>2
  <2> QED BY <1>1, <1>2, <2>1
<1>4. TileM * q = q * TileM /\ q * TileM \in Nat
  BY <1>1, <1>3
<1>5. MGpu(m) = q * TileM
  BY DEF MGpu
<1> QED BY <1>2, <1>3, <1>4, <1>5 DEF IsTiles
-----------------------------------------------------------------------------
Row == (Caller \X Nat) \cup {Zero, Garbled}

RowTypes ==
    /\ \A m \in DispatchRows : \A i \in 1..m : pipeline[m][i] = i - 1
    /\ pool \in Caller \cup {None}
    /\ a_buf \in Seq(Row)
    /\ read_buf \in Seq(Row)
    /\ gpu \in [Caller -> GpuSteps]
    /\ rows \in [Caller -> Rows]
    /\ out \in [Caller -> Seq(Row)]
    /\ result = [c \in Caller |-> result[c]]

HoldsPool(c) == gpu[c] \in {"stage", "compute", "read"}

(* The rows that a call has so far are its first ones, whole tiles of them, *)
(* and while its thread holds the pool the buffers are its own.            *)
ThreadInv(c) ==
    /\ pool = c <=> HoldsPool(c)
    /\ \A i \in 1..Len(out[c]) : out[c][i] = <<c, i>>
    /\ Len(out[c]) <= MGpu(rows[c])
    /\ IsTiles(Len(out[c]))
    /\ gpu[c] = "none" => out[c] = <<>>
    /\ HoldsPool(c) => Len(out[c]) < MGpu(rows[c])
    /\ gpu[c] = "compute" => a_buf = ChunkOf(c)
    /\ gpu[c] = "read" =>
           /\ ChunkRows(c) <= Len(read_buf)
           /\ \A i \in 1..ChunkRows(c) : read_buf[i] = <<c, Len(out[c]) + i>>
    /\ gpu[c] = "ok" => Len(out[c]) = MGpu(rows[c])
    /\ pc[c] = "recompute" => gpu[c] \in GpuEnded
    /\ result[c] # None /\ result[c].kind = "ok" =>
           result[c].rows = Product(c, rows[c])

RowsInv == RowTypes /\ \A c \in Caller : ThreadInv(c)

(* The next chunk: some tiles, within what is left of the share. *)
LEMMA ChunkTiles ==
    ASSUME RowsInv, NEW c \in Caller, Len(out[c]) < MGpu(rows[c])
    PROVE  /\ ChunkRows(c) \in DispatchRows /\ ChunkRows(c) \in Nat \ {0}
           /\ Len(out[c]) + ChunkRows(c) <= MGpu(rows[c])
           /\ IsTiles(Len(out[c]) + ChunkRows(c))
<1> DEFINE share == MGpu(rows[c])
           done == Len(out[c])
<1>1. share \in Nat /\ done \in Nat /\ IsTiles(share) /\ IsTiles(done)
  BY GpuShare, GemmAssumption DEF RowsInv, RowTypes, ThreadInv
<1>2. TileM \in Nat \ {0} /\ ChunkM \in Nat \ {0} /\ IsTiles(ChunkM)
  <2>1. TileM \in Nat \ {0} /\ ChunkM \in Nat \ {0} /\ ChunkM % TileM = 0
    BY ShaderAssumption
  <2>2. ChunkM \div TileM \in Nat /\ ChunkM = TileM * (ChunkM \div TileM)
    BY <2>1
  <2> QED BY <2>1, <2>2 DEF IsTiles
<1>3. PICK t \in Nat, u \in Nat, v \in Nat :
          done = TileM * t /\ share = TileM * u /\ ChunkM = TileM * v
  BY <1>1, <1>2 DEF IsTiles
<1>4. t < u
  BY <1>3, TilesBelow
<1>5. IsTiles(share - done)
  <2>1. TileM * (u - t) = share - done /\ u - t \in Nat
    BY <1>2, <1>3, <1>4
  <2> QED BY <2>1 DEF IsTiles
<1>6. IsTiles(done + ChunkM)
  <2>1. TileM * (t + v) = done + ChunkM /\ t + v \in Nat
    BY <1>2, <1>3
  <2> QED BY <2>1 DEF IsTiles
<1> HIDE DEF share, done
<1>7. done < share /\ ChunkRows(c) = IF share - done < ChunkM THEN share - done
                                                              ELSE ChunkM
  BY DEF share, done, ChunkRows
<1>8. CASE share - done < ChunkM
  <2>1. ChunkRows(c) = share - done /\ ChunkRows(c) \in Nat \ {0}
        /\ ChunkRows(c) <= ChunkM /\ done + ChunkRows(c) = share
    BY <1>1, <1>2, <1>7, <1>8
  <2> QED BY <1>1, <1>5, <2>1, TilesDispatch DEF share, done
<1>9. CASE ~(share - done < ChunkM)
  <2>1. ChunkRows(c) = ChunkM /\ done + ChunkRows(c) <= share
    BY <1>1, <1>2, <1>7, <1>9
  <2> QED BY <1>2, <1>6, <2>1, TilesDispatch DEF share, done
<1> QED BY <1>8, <1>9

LEMMA FunctionsAreSeqs ==
    ASSUME NEW S, NEW n \in Nat, NEW f \in [1..n -> S]
    PROVE  f \in Seq(S) /\ Len(f) = n
<1>1. f \in Seq(S)
  BY SeqDef
<1>2. Len(f) \in Nat /\ DOMAIN f = 1..Len(f) /\ DOMAIN f = 1..n
  BY <1>1, LenProperties
<1> QED BY <1>1, <1>2

LEMMA SeqsByElements ==
    ASSUME NEW S, NEW T, NEW s \in Seq(S), \A i \in 1..Len(s) : s[i] \in T
    PROVE  s \in Seq(T)
<1>1. Len(s) \in Nat /\ s \in [1..Len(s) -> S]
  BY LenProperties
<1>2. s \in [1..Len(s) -> T]
  BY <1>1
<1> QED BY <1>1, <1>2, FunctionsAreSeqs

LEMMA RowsOfTypes ==
    ASSUME NEW c \in Caller, NEW k \in Nat, NEW m \in Nat, k <= m
    PROVE  /\ RowsOf(c, k + 1, m) \in Seq(Row)
           /\ Len(RowsOf(c, k + 1, m)) = m - k
           /\ \A i \in 1..(m - k) : RowsOf(c, k + 1, m)[i] = <<c, k + i>>
<1> DEFINE s == [i \in 1..(m - k) |-> <<c, k + i>>]
<1>1. m - k \in Nat
  OBVIOUS
<1>2. RowsOf(c, k + 1, m) = s
  BY DEF RowsOf
<1>3. s \in [1..(m - k) -> Row]
  BY DEF Row
<1>4. \A i \in 1..(m - k) : s[i] = <<c, k + i>>
  OBVIOUS
<1> HIDE DEF s
<1>5. s \in Seq(Row) /\ Len(s) = m - k
  BY <1>1, <1>3, FunctionsAreSeqs
<1> QED BY <1>2, <1>4, <1>5

(* A read buffer that has just been made. *)
LEMMA FreshBuffer ==
    ASSUME NEW c \in Caller, ChunkRows(c) \in Nat, NEW S, Garbled \in S
    PROVE  NewBuffer(c) \in Seq(S) /\ Len(NewBuffer(c)) = ChunkRows(c)
<1>1. NewBuffer(c) \in [1..ChunkRows(c) -> S]
  BY DEF NewBuffer
<1> QED BY <1>1, FunctionsAreSeqs

(* A chunk as it is staged, padding included. *)
LEMMA StagedChunk ==
    ASSUME NEW c \in Caller, ChunkRows(c) \in Nat, Len(out[c]) \in Nat
    PROVE  /\ ChunkOf(c) \in Seq(Row)
           /\ Len(ChunkOf(c)) = Padded(ChunkRows(c))
           /\ \A i \in 1..ChunkRows(c) : ChunkOf(c)[i] = <<c, Len(out[c]) + i>>
<1> DEFINE n == ChunkRows(c)
           done == Len(out[c])
           chunk == RowsOf(c, done + 1, done + n)
           padding == [i \in 1..(Padded(n) - n) |-> Zero]
<1>1. Padded(n) \in Nat /\ n <= Padded(n) /\ n \in Nat /\ done \in Nat
  BY PaddedCovers
<1>2. padding \in [1..(Padded(n) - n) -> Row] /\ Padded(n) - n \in Nat
  BY <1>1 DEF Row
<1>3. ChunkOf(c) = chunk \o padding
  BY DEF ChunkOf
<1> HIDE DEF padding, n, done
<1>4. done + n \in Nat /\ done <= done + n /\ (done + n) - done = n
  BY <1>1
<1>5. chunk \in Seq(Row) /\ Len(chunk) = n
      /\ \A i \in 1..n : chunk[i] = <<c, done + i>>
  BY <1>1, <1>4, RowsOfTypes
<1>6. padding \in Seq(Row) /\ Len(padding) = Padded(n) - n
  BY <1>2, FunctionsAreSeqs
<1> HIDE DEF chunk
<1>7. /\ chunk \o padding \in Seq(Row)
      /\ Len(chunk \o padding) = Len(chunk) + Len(padding)
      /\ \A i \in 1..(Len(chunk) + Len(padding)) :
             (chunk \o padding)[i] = IF i <= Len(chunk) THEN chunk[i]
                                     ELSE padding[i - Len(chunk)]
  BY <1>5, <1>6, ConcatProperties
<1>8. Len(chunk \o padding) = Padded(n)
  BY <1>1, <1>5, <1>6, <1>7
<1>9. \A i \in 1..n : (chunk \o padding)[i] = <<c, done + i>>
  BY <1>1, <1>5, <1>6, <1>7
<1> QED BY <1>3, <1>7, <1>8, <1>9 DEF n, done

(* The first rows of a product, and the rest of them. *)
LEMMA RowsJoin ==
    ASSUME NEW c \in Caller, NEW m \in Nat, NEW s \in Seq(Row), Len(s) <= m,
           \A i \in 1..Len(s) : s[i] = <<c, i>>
    PROVE  s \o RowsOf(c, Len(s) + 1, m) = Product(c, m)
<1> DEFINE k == Len(s)
           rest == RowsOf(c, k + 1, m)
           joined == s \o rest
<1>1. k \in Nat
  BY LenProperties
<1>2. rest \in Seq(Row) /\ Len(rest) = m - k
      /\ \A i \in 1..(m - k) : rest[i] = <<c, k + i>>
  BY <1>1, RowsOfTypes
<1>3. \A i \in 1..k : s[i] = <<c, i>>
  OBVIOUS
<1> HIDE DEF rest
<1>4. joined \in Seq(Row) /\ Len(joined) = Len(s) + Len(rest)
      /\ \A i \in 1..(Len(s) + Len(rest)) :
            joined[i] = IF i <= Len(s) THEN s[i] ELSE rest[i - Len(s)]
  BY <1>2, ConcatProperties
<1> HIDE DEF joined
<1>5. Len(joined) = m
  BY <1>1, <1>2, <1>4
<1>6. ASSUME NEW i \in 1..m PROVE joined[i] = <<c, i>>
  <2>1. CASE i <= k
    BY <1>1, <1>2, <1>3, <1>4, <1>6, <2>1
  <2>2. CASE ~(i <= k)
    <3>1. joined[i] = rest[i - k] /\ i - k \in 1..(m - k) /\ k + (i - k) = i
      BY <1>1, <1>2, <1>4, <1>6, <2>2
    <3> QED BY <1>2, <3>1
  <2> QED BY <2>1, <2>2
<1>7. DOMAIN joined = 1..m /\ joined = [i \in 1..m |-> joined[i]]
  BY <1>4, <1>5, LenProperties
<1>8. joined = [i \in 1..m |-> <<c, i>>]
  BY <1>6, <1>7
<1>9. Product(c, m) = [i \in 1..m |-> <<c, i>>]
  <2>1. m - 1 + 1 = m /\ \A i \in 1..m : 1 + i - 1 = i
    OBVIOUS
  <2> QED BY <2>1 DEF Product, RowsOf
<1> QED BY <1>8, <1>9 DEF joined, rest
-----------------------------------------------------------------------------
LEMMA InitRows == Init => RowsInv
<1> SUFFICES ASSUME Init PROVE RowsInv
  OBVIOUS
<1>1. RowTypes
  <2>1. \A m \in DispatchRows : \A i \in 1..m : pipeline[m][i] = i - 1
    BY KernelsAreRight DEF Init, KernelsRight
  <2>2. (CHOOSE m \in Rows : TRUE) \in Rows
    BY GemmAssumption
  <2> QED BY <2>1, <2>2 DEF Init, RowTypes, GpuSteps
<1>2. ASSUME NEW c \in Caller PROVE ThreadInv(c)
  <2>1. out[c] = <<>> /\ Len(out[c]) = 0 /\ rows[c] \in Nat /\ pool # c
        /\ gpu[c] = "none" /\ result[c] = None /\ pc[c] = "idle"
    BY <1>1, GemmAssumption DEF Init, RowTypes
  <2>2. MGpu(rows[c]) \in Nat
    BY <2>1, GpuShare
  <2>3. IsTiles(0)
    <3>1. TileM * 0 = 0
      BY ShaderAssumption
    <3> QED BY <3>1 DEF IsTiles
  <2> QED BY <2>1, <2>2, <2>3 DEF ThreadInv, HoldsPool
<1> QED BY <1>1, <1>2 DEF RowsInv

(* A thread that does not hold the pool is not touched by the one that     *)
(* does, and none by a step that leaves pool and buffers alone.            *)
LEMMA OthersKeep ==
    ASSUME RowsInv, NEW d \in Caller,
           gpu'[d] = gpu[d], out'[d] = out[d], rows'[d] = rows[d],
           result'[d] = result[d], pc'[d] = pc[d],
           \/ UNCHANGED <<pool, a_buf, read_buf>>
           \/ ~HoldsPool(d) /\ pool' # d
    PROVE  ThreadInv(d)'
<1>1. ThreadInv(d)
  BY DEF RowsInv
<1>2. /\ HoldsPool(d)' <=> HoldsPool(d)
      /\ ChunkRows(d)' = ChunkRows(d) /\ ChunkOf(d)' = ChunkOf(d)
  BY DEF HoldsPool, ChunkRows, ChunkOf
<1>3. CASE UNCHANGED <<pool, a_buf, read_buf>>
  BY <1>1, <1>2, <1>3 DEF ThreadInv
<1>4. CASE ~HoldsPool(d) /\ pool' # d
  BY <1>1, <1>2, <1>4 DEF ThreadInv, HoldsPool
<1> QED BY <1>3, <1>4

(* The end of a call keeps the invariant if its answer is right. *)
LEMMA EndRows ==
    ASSUME RowsInv, NEW c \in Caller, NEW answer, EndCall(c, answer),
           pc \in [Caller -> PC], ~HoldsPool(c),
           answer.kind = "ok" => answer.rows = Product(c, rows[c])
    PROVE  RowsInv'
<1>1. RowTypes'
  <2>1. UNCHANGED <<pipeline, pool, a_buf, read_buf, rows>>
    BY DEF EndCall, context, buffers
  <2>2. out' \in [Caller -> Seq(Row)] /\ gpu' \in [Caller -> GpuSteps]
    <3>1. <<>> \in Seq(Row)
      BY EmptySeq
    <3> QED BY <3>1 DEF RowsInv, RowTypes, EndCall, GpuSteps
  <2>3. result' = [d \in Caller |-> result'[d]]
    BY DEF RowsInv, RowTypes, EndCall
  <2> QED BY <2>1, <2>2, <2>3 DEF RowsInv, RowTypes
<1>2. ASSUME NEW d \in Caller, d # c PROVE ThreadInv(d)'
  BY <1>2, OthersKeep DEF RowsInv, RowTypes, EndCall, GoTo, buffers
<1>3. ThreadInv(c)'
  <2>1. ThreadInv(c) /\ rows[c] \in Nat
    BY GemmAssumption DEF RowsInv, RowTypes
  <2>2. MGpu(rows[c]) \in Nat
    BY <2>1, GpuShare
  <2>3. IsTiles(0)
    <3>1. TileM * 0 = 0
      BY ShaderAssumption
    <3> QED BY <3>1 DEF IsTiles
  <2>4. /\ gpu'[c] = "none" /\ out'[c] = <<>> /\ rows'[c] = rows[c]
        /\ result'[c] = answer /\ pc'[c] = "idle" /\ pool' = pool
    BY DEF EndCall, GoTo, RowsInv, RowTypes, buffers
  <2>5. Len(out'[c]) = 0 /\ Product(c, rows[c])' = Product(c, rows[c])
    BY <2>4 DEF Product, RowsOf
  <2> QED BY <2>1, <2>2, <2>3, <2>4, <2>5 DEF ThreadInv, HoldsPool
<1> QED BY <1>1, <1>2, <1>3 DEF RowsInv

(* What the kernel leaves of a chunk that was staged. *)
LEMMA ComputedRows ==
    ASSUME RowsInv, NEW c \in Caller, gpu[c] = "compute"
    PROVE  /\ ChunkRows(c) \in Nat
           /\ Computed(c) \in Seq(Row) /\ Len(Computed(c)) = ChunkRows(c)
           /\ \A i \in 1..ChunkRows(c) :
                  Computed(c)[i] = <<c, Len(out[c]) + i>>
<1> DEFINE n == ChunkRows(c)
           new == Computed(c)
<1>1. /\ RowTypes /\ Len(out[c]) < MGpu(rows[c]) /\ a_buf = ChunkOf(c)
      /\ out[c] \in Seq(Row)
  BY DEF RowsInv, RowTypes, ThreadInv, HoldsPool
<1>2. n \in Nat /\ n \in DispatchRows
  BY <1>1, ChunkTiles
<1>3. Len(out[c]) \in Nat
  BY <1>1, LenProperties
<1>4. /\ Len(a_buf) = Padded(n)
      /\ \A i \in 1..n : a_buf[i] = <<c, Len(out[c]) + i>>
  BY <1>1, <1>2, <1>3, StagedChunk
<1>5. \A i \in 1..n : pipeline[n][i] = i - 1 /\ i - 1 # Garbled
  BY <1>1, <1>2, GarbledAssumption DEF RowTypes
<1>6. new = [i \in 1..n |-> <<c, Len(out[c]) + i>>]
  BY <1>2, <1>4, <1>5 DEF Computed
<1>7. \A i \in 1..n : <<c, Len(out[c]) + i>> \in Row
  BY <1>2, <1>3 DEF Row
<1> HIDE DEF new, n
<1>8. new \in [1..n -> Row]
  BY <1>6, <1>7
<1>9. \A i \in 1..n : new[i] = <<c, Len(out[c]) + i>>
  BY <1>6
<1>10. new \in Seq(Row) /\ Len(new) = n
  BY <1>2, <1>8, FunctionsAreSeqs
<1> QED BY <1>2, <1>9, <1>10 DEF new, n

LEMMA RowsKept ==
    RowsInv /\ FailuresInv /\ [Next]_vars => RowsInv'
<1> SUFFICES ASSUME RowsInv, FailuresInv, [Next]_vars PROVE RowsInv'
  OBVIOUS
<1> USE DEF GpuSteps
<1>1. pc \in [Caller -> PC] /\ RowTypes /\ \A c \in Caller : ThreadInv(c)
  BY DEF FailuresInv, StepTypes, RowsInv
<1>2. \A c \in Caller : pc[c] \notin {"split", "recompute"} => gpu[c] = "none"
  BY DEF FailuresInv, FailureInv
<1>3. \A c \in Caller : rows[c] \in Nat /\ out[c] \in Seq(Row)
      /\ Len(out[c]) \in Nat /\ MGpu(rows[c]) \in Nat
  BY <1>1, GemmAssumption, GpuShare DEF RowTypes
<1>4. /\ Error.kind # "ok" /\ Panicked.kind # "ok"
      /\ \A product : Ok(product).rows = product
  BY DEF Error, Panicked, Ok
<1>5. \A c \in Caller : ~HoldsPool(c) \/ gpu[c] \in {"stage", "compute", "read"}
  BY DEF HoldsPool
(* The calling threads. *)
<1>6. ASSUME NEW c \in Caller, NEW m \in Rows, Begin(c, m) PROVE RowsInv'
  <2>1. RowTypes'
    BY <1>1, <1>6 DEF Begin, RowTypes, context, buffers
  <2>2. ASSUME NEW d \in Caller, d # c PROVE ThreadInv(d)'
    BY <1>1, <1>6, <2>2, OthersKeep DEF Begin, GoTo, RowTypes, context, buffers
  <2>3. ThreadInv(c)'
    <3>1. /\ gpu'[c] = "none" /\ out'[c] = <<>> /\ result'[c] = None
          /\ pool' = pool /\ pc'[c] = "context" /\ rows'[c] \in Nat
      BY <1>1, <1>2, <1>6, GemmAssumption
      DEF Begin, GoTo, RowTypes, ThreadInv, buffers
    <3>2. MGpu(rows'[c]) \in Nat
      BY <3>1, GpuShare
    <3> QED BY <1>1, <1>2, <1>6, <3>1, <3>2 DEF Begin, ThreadInv, HoldsPool
  <2> QED BY <2>1, <2>2, <2>3 DEF RowsInv
<1>7. ASSUME NEW c \in Caller, CheckContext(c) \/ Upload(c) \/ CpuHalf(c)
             \/ JoinGpuFailure(c)
      PROVE  RowsInv'
  <2>1. UNCHANGED <<pipeline, pool, a_buf, read_buf, rows, gpu, out, result>>
    BY <1>7 DEF CheckContext, Upload, CpuHalf, JoinGpuFailure, context, buffers
  <2>2. \A d \in Caller : pc'[d] = "recompute" => gpu[d] \in GpuEnded
    BY <1>1, <1>7
    DEF CheckContext, Upload, CpuHalf, JoinGpuFailure, Joinable, GoTo,
        ThreadInv
  <2>3. ASSUME NEW d \in Caller PROVE ThreadInv(d)'
    <3>1. ChunkRows(d)' = ChunkRows(d) /\ ChunkOf(d)' = ChunkOf(d)
      BY <2>1 DEF ChunkRows, ChunkOf
    <3> QED BY <1>1, <2>1, <2>2, <3>1 DEF ThreadInv, HoldsPool
  <2> QED BY <1>1, <2>1, <2>3 DEF RowsInv, RowTypes
<1>8. ASSUME NEW c \in Caller, Share(c) PROVE RowsInv'
  <2>1. RowTypes'
    BY <1>1, <1>8 DEF Share, GpuGoTo, RowTypes, context, buffers
  <2>2. ASSUME NEW d \in Caller, d # c PROVE ThreadInv(d)'
    BY <1>1, <1>8, <2>2, OthersKeep
    DEF Share, GoTo, GpuGoTo, RowTypes, context, buffers
  <2>3. ThreadInv(c)'
    <3>1. /\ gpu[c] = "none" /\ gpu'[c] \in {"none", "lock"}
          /\ pc'[c] # "recompute"
          /\ UNCHANGED <<pool, out, rows, result>>
      BY <1>1, <1>2, <1>8 DEF Share, GoTo, GpuGoTo, RowTypes, buffers
    <3> QED BY <1>1, <3>1 DEF ThreadInv, HoldsPool
  <2> QED BY <2>1, <2>2, <2>3 DEF RowsInv
<1>9. ASSUME NEW c \in Caller,
             UploadPanics(c) \/ ShareFails(c) \/ CpuOnlyFails(c)
             \/ JoinCpuError(c) \/ RecomputeFails(c)
      PROVE  RowsInv'
  <2>1. ~HoldsPool(c)
    BY <1>1, <1>2, <1>9
    DEF UploadPanics, ShareFails, CpuOnlyFails, JoinCpuError, RecomputeFails,
        Joinable, GpuEnded, HoldsPool, ThreadInv
  <2>2. EndCall(c, Panicked) \/ EndCall(c, Error)
    BY <1>9 DEF UploadPanics, ShareFails, CpuOnlyFails, JoinCpuError,
                RecomputeFails
  <2> QED BY <1>1, <1>4, <2>1, <2>2, EndRows
<1>10. ASSUME NEW c \in Caller, CpuOnly(c) PROVE RowsInv'
  BY <1>1, <1>2, <1>4, <1>10, EndRows DEF CpuOnly, HoldsPool
<1>11. ASSUME NEW c \in Caller, Merge(c) PROVE RowsInv'
  <2>1. Len(out[c]) = MGpu(rows[c]) /\ gpu[c] = "ok"
    BY <1>1, <1>11 DEF Merge, ThreadInv
  <2>2. /\ MGpu(rows[c]) <= rows[c]
        /\ \A i \in 1..Len(out[c]) : out[c][i] = <<c, i>>
    BY <1>1, <1>3, GpuShare DEF ThreadInv
  <2>3. out[c] \o CpuShare(c) = Product(c, rows[c])
    BY <1>3, <2>1, <2>2, RowsJoin DEF CpuShare
  <2> QED BY <1>1, <1>4, <1>11, <2>1, <2>3, EndRows DEF Merge, HoldsPool
<1>12. ASSUME NEW c \in Caller, Recompute(c) PROVE RowsInv'
  <2> DEFINE share == Product(c, MGpu(rows[c]))
  <2>1. ~HoldsPool(c)
    BY <1>1, <1>12 DEF Recompute, ThreadInv, GpuEnded, HoldsPool
  <2>2. MGpu(rows[c]) <= rows[c]
    BY <1>3, GpuShare
  <2>3. share = [i \in 1..MGpu(rows[c]) |-> <<c, i>>]
    BY <1>3 DEF Product, RowsOf
  <2>4. \A i \in 1..MGpu(rows[c]) : <<c, i>> \in Row
    BY DEF Row
  <2> HIDE DEF share
  <2>5. share \in Seq(Row) /\ Len(share) = MGpu(rows[c])
        /\ \A i \in 1..Len(share) : share[i] = <<c, i>>
    BY <1>3, <2>3, <2>4
  <2>6. share \o CpuShare(c) = Product(c, rows[c])
    BY <1>3, <2>2, <2>5, RowsJoin DEF CpuShare
  <2> QED BY <1>1, <1>4, <1>12, <2>1, <2>6, EndRows DEF Recompute, share
(* The GPU threads. *)
<1>13. ASSUME NEW c \in Caller, LockPool(c) PROVE RowsInv'
  <2>1. RowTypes'
    BY <1>1, <1>13 DEF LockPool, GpuGoTo, RowTypes, context
  <2>2. \A d \in Caller : ~HoldsPool(d)
    BY <1>1, <1>13, GemmAssumption DEF LockPool, ThreadInv
  <2>3. ASSUME NEW d \in Caller, d # c PROVE ThreadInv(d)'
    BY <1>1, <1>13, <2>2, <2>3, OthersKeep
    DEF LockPool, GpuGoTo, RowTypes, context
  <2>4. ThreadInv(c)'
    <3>1. gpu'[c] = "stage" /\ pool' = c /\ UNCHANGED <<out, rows, result, pc>>
      BY <1>1, <1>13 DEF LockPool, GpuGoTo, RowTypes
    <3>2. Len(out[c]) < MGpu(rows[c]) /\ pc[c] # "recompute"
      BY <1>1, <1>13 DEF LockPool, ThreadInv, GpuEnded
    <3> QED BY <1>1, <3>1, <3>2 DEF ThreadInv, HoldsPool
  <2> QED BY <2>1, <2>3, <2>4 DEF RowsInv
<1>14. ASSUME NEW c \in Caller, GemmReturns(c) PROVE RowsInv'
  <2>1. RowTypes'
    BY <1>1, <1>14 DEF GemmReturns, GpuGoTo, RowTypes, context, buffers
  <2>2. ASSUME NEW d \in Caller, d # c PROVE ThreadInv(d)'
    BY <1>1, <1>14, <2>2, OthersKeep
    DEF GemmReturns, GpuGoTo, RowTypes, context, buffers
  <2>3. ThreadInv(c)'
    <3>1. /\ gpu'[c] = "ok" /\ gpu[c] = "lock"
          /\ UNCHANGED <<pool, out, rows, result, pc>>
      BY <1>1, <1>14 DEF GemmReturns, GpuGoTo, RowTypes, buffers
    <3> QED BY <1>1, <1>14, <3>1 DEF GemmReturns, ThreadInv, HoldsPool, GpuEnded
  <2> QED BY <2>1, <2>2, <2>3 DEF RowsInv
<1>15. ASSUME NEW c \in Caller, Stage(c) PROVE RowsInv'
  <2>1. pool = c /\ Len(out[c]) < MGpu(rows[c]) /\ HoldsPool(c)
    BY <1>1, <1>15 DEF Stage, ThreadInv, HoldsPool
  <2>2. ChunkRows(c) \in Nat
    BY <2>1, ChunkTiles
  <2>3. RowTypes'
    <3>1. NewBuffer(c) \in Seq(Row)
      BY <2>2, FreshBuffer DEF Row
    <3>2. read_buf' \in {read_buf, NewBuffer(c)}
      BY <1>15 DEF Stage
    <3> QED BY <1>1, <1>3, <1>15, <2>2, <3>1, <3>2, StagedChunk
    DEF Stage, GpuGoTo, RowTypes, context
  <2>4. ASSUME NEW d \in Caller, d # c PROVE ThreadInv(d)'
    BY <1>1, <1>15, <2>1, <2>4, OthersKeep
    DEF Stage, GpuGoTo, RowTypes, ThreadInv
  <2>5. ThreadInv(c)'
    <3>1. /\ gpu'[c] = "compute" /\ gpu[c] = "stage" /\ a_buf' = ChunkOf(c)
          /\ UNCHANGED <<pool, out, rows, result, pc>>
      BY <1>1, <1>15 DEF Stage, GpuGoTo, RowTypes
    <3>2. ChunkOf(c)' = ChunkOf(c)
      BY <3>1 DEF ChunkOf, ChunkRows
    <3> QED BY <1>1, <2>1, <3>1, <3>2 DEF ThreadInv, HoldsPool, GpuEnded
  <2> QED BY <2>3, <2>4, <2>5 DEF RowsInv
<1>16. ASSUME NEW c \in Caller, Compute(c) PROVE RowsInv'
  <2>1. pool = c /\ Len(out[c]) < MGpu(rows[c]) /\ HoldsPool(c)
        /\ a_buf = ChunkOf(c) /\ gpu[c] = "compute"
    BY <1>1, <1>16 DEF Compute, ThreadInv, HoldsPool
  <2> DEFINE n == ChunkRows(c)
             new == Computed(c)
             remains == SubSeq(read_buf, Len(new) + 1, Len(read_buf))
  <2>2. n \in Nat
    BY <2>1, ComputedRows
  <2>7. new \in Seq(Row) /\ Len(new) = n
        /\ \A i \in 1..n : new[i] = <<c, Len(out[c]) + i>>
    BY <2>1, ComputedRows
  <2> HIDE DEF new, n
  <2>8. remains \in Seq(Row)
    <3>1. read_buf \in Seq(Row) /\ Len(read_buf) \in Nat
      BY <1>1 DEF RowTypes
    <3>2. \A i \in (Len(new) + 1)..Len(read_buf) : read_buf[i] \in Row
      BY <2>2, <2>7, <3>1, ElementOfSeq
    <3> QED BY <2>2, <2>7, <3>1, <3>2, SubSeqProperties
  <2> HIDE DEF remains
  <2>9. new \o remains \in Seq(Row) /\ n <= Len(new \o remains)
        /\ \A i \in 1..n : (new \o remains)[i] = <<c, Len(out[c]) + i>>
    <3>1. /\ Len(remains) \in Nat /\ new \o remains \in Seq(Row)
          /\ Len(new \o remains) = Len(new) + Len(remains)
          /\ \A i \in 1..(Len(new) + Len(remains)) :
                (new \o remains)[i] = IF i <= Len(new) THEN new[i]
                                      ELSE remains[i - Len(new)]
      BY <2>7, <2>8, ConcatProperties, LenProperties
    <3> QED BY <2>2, <2>7, <3>1
  <2>10. read_buf' = new \o remains
    BY <1>16 DEF Compute, Overwrite, new, remains
  <2>11. RowTypes'
    BY <1>1, <1>16, <2>9, <2>10 DEF Compute, GpuGoTo, RowTypes, context
  <2>12. ASSUME NEW d \in Caller, d # c PROVE ThreadInv(d)'
    BY <1>1, <1>16, <2>1, <2>12, OthersKeep
    DEF Compute, GpuGoTo, RowTypes, ThreadInv
  <2>13. ThreadInv(c)'
    <3>1. gpu'[c] = "read" /\ UNCHANGED <<pool, out, rows, result, pc>>
      BY <1>1, <1>16 DEF Compute, GpuGoTo, RowTypes
    <3>2. ChunkRows(c)' = n
      BY <3>1 DEF ChunkRows, n
    <3> QED BY <1>1, <2>1, <2>9, <2>10, <3>1, <3>2
        DEF ThreadInv, HoldsPool, GpuEnded
  <2> QED BY <2>11, <2>12, <2>13 DEF RowsInv
<1>17. ASSUME NEW c \in Caller, ReadBack(c) PROVE RowsInv'
  <2>1. /\ pool = c /\ Len(out[c]) < MGpu(rows[c]) /\ HoldsPool(c)
        /\ ChunkRows(c) <= Len(read_buf) /\ gpu[c] = "read"
        /\ \A i \in 1..ChunkRows(c) : read_buf[i] = <<c, Len(out[c]) + i>>
        /\ \A i \in 1..Len(out[c]) : out[c][i] = <<c, i>>
    BY <1>1, <1>17 DEF ReadBack, ThreadInv, HoldsPool
  <2> DEFINE n == ChunkRows(c)
             done == out[c]
             chunk == SubSeq(read_buf, 1, n)
             longer == done \o chunk
  <2>2. /\ n \in Nat \ {0} /\ Len(done) + n <= MGpu(rows[c])
        /\ IsTiles(Len(done) + n)
    BY <2>1, ChunkTiles
  <2>3. done \in Seq(Row) /\ read_buf \in Seq(Row) /\ n <= Len(read_buf)
    BY <1>1, <2>1 DEF RowTypes
  <2> HIDE DEF n
  <2>4. chunk \in Seq(Row) /\ Len(chunk) = n
        /\ \A i \in 1..n : chunk[i] = <<c, Len(done) + i>>
    <3>1. \A i \in 1..n : read_buf[i] \in Row
      BY <2>2, <2>3, ElementOfSeq, LenProperties
    <3>2. /\ chunk \in Seq(Row)
          /\ Len(chunk) = IF 1 <= n THEN n - 1 + 1 ELSE 0
          /\ \A i \in 1..(n - 1 + 1) : chunk[i] = read_buf[1 + i - 1]
      BY <2>2, <3>1, SubSeqProperties
    <3> HIDE DEF chunk
    <3>3. Len(chunk) = n /\ \A i \in 1..n : chunk[i] = read_buf[i]
      BY <2>2, <3>2
    <3> QED BY <2>1, <3>2, <3>3 DEF n
  <2>5. \A i \in 1..Len(done) : done[i] = <<c, i>>
    BY <2>1
  <2> HIDE DEF chunk, done
  <2>6. longer \in Seq(Row) /\ Len(longer) = Len(done) + n
    BY <2>2, <2>3, <2>4, ConcatProperties
  <2>6a. \A i \in 1..(Len(done) + Len(chunk)) :
            longer[i] = IF i <= Len(done) THEN done[i]
                                          ELSE chunk[i - Len(done)]
    BY <2>3, <2>4, ConcatProperties
  <2>6b. Len(done) \in Nat
    BY <2>3, LenProperties
  <2>7. ASSUME NEW i \in 1..Len(longer) PROVE longer[i] = <<c, i>>
    <3>1. CASE i <= Len(done)
      BY <2>2, <2>4, <2>5, <2>6, <2>7, <2>6a, <2>6b, <3>1
    <3>2. CASE i > Len(done)
      <4>1. i - Len(done) \in 1..n /\ longer[i] = chunk[i - Len(done)]
        BY <2>2, <2>4, <2>6, <2>7, <2>6a, <2>6b, <3>2
      <4>2. Len(done) + (i - Len(done)) = i
        BY <2>7, <2>6b
      <4> QED BY <2>4, <4>1, <4>2
    <3> QED BY <2>7, <2>6b, <3>1, <3>2
  <2> HIDE DEF longer
  <2>8. out' = [out EXCEPT ![c] = longer]
    BY <1>17 DEF ReadBack, longer, done, chunk, n
  <2>9. RowTypes'
    BY <1>1, <1>17, <2>6, <2>8 DEF ReadBack, GpuGoTo, RowTypes, context
  <2>10. ASSUME NEW d \in Caller, d # c PROVE ThreadInv(d)'
    BY <1>1, <1>17, <2>1, <2>10, OthersKeep, GemmAssumption
    DEF ReadBack, GpuGoTo, RowTypes, ThreadInv
  <2>11. ThreadInv(c)'
    <3>1. /\ gpu'[c] = "lock" /\ out'[c] = longer /\ pool' # c
          /\ UNCHANGED <<rows, result, pc>>
      BY <1>1, <1>17, <2>8, GemmAssumption DEF ReadBack, GpuGoTo, RowTypes
    <3> QED BY <1>1, <2>1, <2>2, <2>6, <2>7, <3>1
        DEF ThreadInv, HoldsPool, GpuEnded
  <2> QED BY <2>9, <2>10, <2>11 DEF RowsInv
<1>18. ASSUME NEW c \in Caller,
              DispatchFails(c) \/ MarkUnhealthy(c) \/ DispatchPanics(c)
       PROVE  RowsInv'
  <2>1. /\ UNCHANGED <<pipeline, a_buf, read_buf, rows, out, result, pc>>
        /\ gpu'[c] \in {"mark", "failed", "panicked"}
        /\ gpu' \in [Caller -> GpuSteps]
        /\ \A d \in Caller \ {c} : gpu'[d] = gpu[d]
        /\ \/ HoldsPool(c) /\ pool' = None
           \/ gpu[c] = "mark" /\ pool' = pool
    <3>1. CASE DispatchFails(c)
      <4>1. /\ gpu' \in [Caller -> GpuSteps] /\ gpu'[c] = "mark"
            /\ \A d \in Caller \ {c} : gpu'[d] = gpu[d]
        BY <1>1, <3>1 DEF DispatchFails, GpuGoTo, RowTypes
      <4>2. UNCHANGED <<pipeline, a_buf, read_buf, rows, out, result, pc>>
        BY <3>1 DEF DispatchFails, context, buffers
      <4>3. \/ HoldsPool(c) /\ pool' = None
            \/ gpu[c] = "mark" /\ pool' = pool
        BY <3>1 DEF DispatchFails, HoldsPool, buffers
      <4> QED BY <4>1, <4>2, <4>3
    <3>2. CASE MarkUnhealthy(c)
      <4>1. /\ gpu' \in [Caller -> GpuSteps] /\ gpu'[c] = "failed"
            /\ \A d \in Caller \ {c} : gpu'[d] = gpu[d]
        BY <1>1, <3>2 DEF MarkUnhealthy, GpuGoTo, RowTypes
      <4>2. UNCHANGED <<pipeline, a_buf, read_buf, rows, out, result, pc>>
        BY <3>2 DEF MarkUnhealthy, context, buffers
      <4>3. \/ HoldsPool(c) /\ pool' = None
            \/ gpu[c] = "mark" /\ pool' = pool
        BY <3>2 DEF MarkUnhealthy, HoldsPool, buffers
      <4> QED BY <4>1, <4>2, <4>3
    <3>3. CASE DispatchPanics(c)
      <4>1. /\ gpu' \in [Caller -> GpuSteps] /\ gpu'[c] = "panicked"
            /\ \A d \in Caller \ {c} : gpu'[d] = gpu[d]
        BY <1>1, <3>3 DEF DispatchPanics, GpuGoTo, RowTypes
      <4>2. UNCHANGED <<pipeline, a_buf, read_buf, rows, out, result, pc>>
        BY <3>3 DEF DispatchPanics, context, buffers
      <4>3. \/ HoldsPool(c) /\ pool' = None
            \/ gpu[c] = "mark" /\ pool' = pool
        BY <3>3 DEF DispatchPanics, HoldsPool, buffers
      <4> QED BY <4>1, <4>2, <4>3
    <3> QED BY <1>18, <3>1, <3>2, <3>3
  <2>2. RowTypes'
    BY <1>1, <2>1 DEF RowTypes
  <2>3. ASSUME NEW d \in Caller, d # c PROVE ThreadInv(d)'
    BY <1>1, <2>1, <2>3, OthersKeep, GemmAssumption
    DEF RowTypes, ThreadInv
  <2>4. ThreadInv(c)'
    BY <1>1, <2>1, GemmAssumption DEF RowTypes, ThreadInv, HoldsPool, GpuEnded
  <2> QED BY <2>2, <2>3, <2>4 DEF RowsInv
<1>19. CASE UNCHANGED vars
  <2>1. UNCHANGED <<pipeline, pool, a_buf, read_buf, rows, gpu, out,
                    result, pc>>
    BY <1>19 DEF vars, context, buffers
  <2>2. \A c \in Caller : ThreadInv(c)'
    BY <2>1, OthersKeep
  <2> QED BY <1>1, <2>1, <2>2 DEF RowsInv, RowTypes
<1> QED
  BY <1>6, <1>7, <1>8, <1>9, <1>10, <1>11, <1>12, <1>13, <1>14, <1>15,
     <1>16, <1>17, <1>18, <1>19
  DEF Next, Calling, GpuThread

LEMMA RowsHold == Spec => []RowsInv
BY InitRows, RowsKept, FailuresHold, PTL DEF Spec

(* A call that succeeds returns the product of each of its own rows, in    *)
(* order, whoever else uses the pool, whatever fails, and whichever kernel *)
(* the device runs (forward_gpu, gemm, dispatch and both shaders).         *)
THEOREM GpuRowsAreOwn == Spec => []RowsAreOwn
<1>1. RowsInv => RowsAreOwn
  BY DEF RowsInv, ThreadInv, RowsAreOwn
<1> QED BY <1>1, RowsHold, PTL
-----------------------------------------------------------------------------
(* The types that are left. *)
ContextTypes ==
    /\ adapter \in BOOLEAN
    /\ offloadable \in [Caller -> BOOLEAN]
    /\ resident \in [Caller -> {"unset", "none", "some"}]
    /\ DOMAIN pipeline = DispatchRows
    /\ mapped \in BOOLEAN
    /\ calls \in [Caller -> 0..MaxCalls]

ResultTypes ==
    \A c \in Caller : \/ result[c] \in {None, Error, Panicked}
                      \/ result[c] = Ok(result[c].rows)

BufferTypes ==
    /\ IsRows(a_buf) /\ Len(a_buf) \in DispatchRows \cup {0}
    /\ IsRows(read_buf) /\ Len(read_buf) <= ChunkM

LEMMA MostRows == MaxRows \in Rows /\ MaxRows \in Nat
                  /\ \A m \in Rows : m \in Nat /\ m <= MaxRows
BY GemmAssumption DEF MaxRows

LEMMA InitTypes == Init => ContextTypes /\ ResultTypes /\ BufferTypes
<1> SUFFICES ASSUME Init PROVE ContextTypes /\ ResultTypes /\ BufferTypes
  OBVIOUS
<1>1. ContextTypes
  <2>1. DOMAIN pipeline = DispatchRows
    BY DEF Init, SourceRows
  <2>2. 0 \in 0..MaxCalls
    BY GemmAssumption
  <2> QED BY <2>1, <2>2 DEF Init, ContextTypes
<1>2. ResultTypes
  BY DEF Init, ResultTypes
<1>3. BufferTypes
  <2>1. <<>> \in Seq((Caller \X (1..MaxRows)) \cup {Zero, Garbled})
        /\ Len(<<>>) = 0
    OBVIOUS
  <2>2. 0 <= ChunkM
    BY Sizes
  <2> QED BY <2>1, <2>2 DEF Init, BufferTypes, IsRows
<1> QED BY <1>1, <1>2, <1>3

(* What the steps of the two threads leave alone. *)
LEMMA ContextKept == ContextTypes /\ [Next]_vars => ContextTypes'
<1> SUFFICES ASSUME ContextTypes, [Next]_vars PROVE ContextTypes'
  OBVIOUS
<1>1. ASSUME UNCHANGED <<context, mapped, calls>> PROVE ContextTypes'
  BY <1>1 DEF ContextTypes, context
<1>2. ASSUME NEW c \in Caller, NEW m \in Rows, Begin(c, m)
      PROVE  ContextTypes'
  <2>1. calls' \in [Caller -> 0..MaxCalls]
    BY <1>2, GemmAssumption DEF Begin, ContextTypes
  <2> QED BY <1>2, <2>1 DEF Begin, ContextTypes, context, buffers
<1>3. ASSUME NEW c \in Caller, Upload(c) PROVE ContextTypes'
  BY <1>3 DEF Upload, ContextTypes, buffers, history
<1>4. ASSUME NEW c \in Caller, Calling(c), ~Upload(c) PROVE ContextTypes'
  <2>1. UNCHANGED <<context, mapped, calls>>
    BY <1>4
    DEF Calling, CheckContext, UploadPanics, Share, ShareFails, CpuOnly,
        CpuOnlyFails, CpuHalf, JoinCpuError, Merge, JoinGpuFailure, Recompute,
        RecomputeFails, EndCall, buffers, history
  <2> QED BY <1>1, <2>1
<1>5. ASSUME NEW c \in Caller, GpuThread(c) PROVE ContextTypes'
  <2>1. UNCHANGED <<adapter, pipeline, offloadable, resident, calls>>
        /\ mapped' \in BOOLEAN
    BY <1>5
    DEF GpuThread, LockPool, GemmReturns, Stage, Compute, ReadBack,
        DispatchFails, MarkUnhealthy, DispatchPanics, ContextTypes, context,
        buffers, history
  <2> QED BY <2>1 DEF ContextTypes
<1>6. CASE UNCHANGED vars
  BY <1>1, <1>6 DEF vars, buffers, history
<1> QED BY <1>2, <1>3, <1>4, <1>5, <1>6 DEF Next

LEMMA ResultsKept ==
    FailuresInv /\ ResultTypes /\ [Next]_vars => ResultTypes'
<1> SUFFICES ASSUME FailuresInv, ResultTypes, [Next]_vars PROVE ResultTypes'
  OBVIOUS
<1>1. ASSUME UNCHANGED result PROVE ResultTypes'
  BY <1>1 DEF ResultTypes
<1>2. ASSUME NEW c \in Caller, NEW answer,
             result' = [result EXCEPT ![c] = answer],
             \/ answer \in {None, Error, Panicked}
             \/ answer = Ok(answer.rows)
      PROVE  ResultTypes'
  <2>1. result = [d \in Caller |-> result[d]]
    BY DEF FailuresInv, StepTypes
  <2>2. \A d \in Caller : result'[d] = IF d = c THEN answer ELSE result[d]
    BY <1>2, <2>1
  <2> QED BY <1>2, <2>2 DEF ResultTypes
<1>3. \A product : Ok(product) = Ok(Ok(product).rows)
  BY DEF Ok
<1>4. ASSUME NEW c \in Caller, NEW m \in Rows, Begin(c, m) PROVE ResultTypes'
  BY <1>2, <1>4 DEF Begin
<1>5. ASSUME NEW c \in Caller, Calling(c) PROVE ResultTypes'
  <2>1. \/ UNCHANGED result
        \/ EndCall(c, Error) \/ EndCall(c, Panicked)
        \/ \E product : EndCall(c, Ok(product))
    BY <1>5
    DEF Calling, CheckContext, Upload, UploadPanics, Share, ShareFails, CpuOnly,
        CpuOnlyFails, CpuHalf, JoinCpuError, Merge, JoinGpuFailure, Recompute,
        RecomputeFails
  <2> QED BY <1>1, <1>2, <1>3, <2>1 DEF EndCall
<1>6. ASSUME NEW c \in Caller, GpuThread(c) PROVE ResultTypes'
  BY <1>1, <1>6
  DEF GpuThread, LockPool, GemmReturns, Stage, Compute, ReadBack,
      DispatchFails, MarkUnhealthy, DispatchPanics
<1>7. CASE UNCHANGED vars
  BY <1>1, <1>7 DEF vars
<1> QED BY <1>4, <1>5, <1>6, <1>7 DEF Next

(* A chunk holds rows that the matrix has. *)
LEMMA ChunkWithin ==
    ASSUME RowsInv, NEW c \in Caller, Len(out[c]) < MGpu(rows[c])
    PROVE  /\ Len(out[c]) \in Nat /\ ChunkRows(c) <= ChunkM
           /\ \A i \in 1..ChunkRows(c) : Len(out[c]) + i \in 1..MaxRows
<1>1. out[c] \in Seq(Row) /\ rows[c] \in Rows
  BY DEF RowsInv, RowTypes
<1>2. Len(out[c]) \in Nat
  BY <1>1, LenProperties
<1>3. rows[c] \in Nat /\ rows[c] <= MaxRows /\ MaxRows \in Nat
  BY <1>1, MostRows
<1>4. MGpu(rows[c]) \in Nat /\ MGpu(rows[c]) <= rows[c]
  BY <1>3, GpuShare
<1>5. ChunkRows(c) \in Nat /\ Len(out[c]) + ChunkRows(c) <= MGpu(rows[c])
  BY ChunkTiles
<1>6. ChunkRows(c) <= ChunkM
  BY <1>2, <1>4, Sizes DEF ChunkRows
<1> QED BY <1>2, <1>3, <1>4, <1>5, <1>6

LEMMA BuffersKept ==
    RowsInv /\ BufferTypes /\ [Next]_vars => BufferTypes'
<1> SUFFICES ASSUME RowsInv, BufferTypes, [Next]_vars PROVE BufferTypes'
  OBVIOUS
<1> DEFINE Entry == (Caller \X (1..MaxRows)) \cup {Zero, Garbled}
<1>1. ASSUME UNCHANGED <<a_buf, read_buf>> PROVE BufferTypes'
  BY <1>1 DEF BufferTypes, IsRows
<1>2. ASSUME NEW c \in Caller, Stage(c) PROVE BufferTypes'
  <2>1. HoldsPool(c) /\ Len(out[c]) < MGpu(rows[c])
    BY <1>2 DEF Stage, HoldsPool, RowsInv, ThreadInv
  <2>2. /\ ChunkRows(c) \in DispatchRows /\ ChunkRows(c) \in Nat
        /\ Padded(ChunkRows(c)) = ChunkRows(c)
    BY <2>1, ChunkTiles, DispatchIsPadded
  <2>3. /\ Len(out[c]) \in Nat
        /\ \A i \in 1..ChunkRows(c) : Len(out[c]) + i \in 1..MaxRows
    BY <2>1, ChunkWithin
  <2>4. /\ ChunkOf(c) \in Seq(Row) /\ Len(ChunkOf(c)) = ChunkRows(c)
        /\ \A i \in 1..ChunkRows(c) : ChunkOf(c)[i] = <<c, Len(out[c]) + i>>
    BY <2>2, <2>3, StagedChunk
  <2>5. ASSUME NEW i \in 1..Len(ChunkOf(c)) PROVE ChunkOf(c)[i] \in Entry
    <3>1. ChunkOf(c)[i] = <<c, Len(out[c]) + i>> /\ Len(out[c]) + i \in 1..MaxRows
      BY <2>3, <2>4, <2>5
    <3> QED BY <3>1
  <2>6. ChunkOf(c) \in Seq(Entry)
    BY <2>4, <2>5, SeqsByElements
  <2>7. a_buf' = ChunkOf(c) /\ read_buf' \in {read_buf, NewBuffer(c)}
    BY <1>2 DEF Stage
  <2>8. IsRows(NewBuffer(c)) /\ Len(NewBuffer(c)) <= ChunkM
    BY <2>1, <2>2, ChunkWithin, FreshBuffer DEF IsRows
  <2>9. IsRows(read_buf') /\ Len(read_buf') <= ChunkM
    BY <2>7, <2>8 DEF BufferTypes
  <2>10. IsRows(a_buf') /\ Len(a_buf') \in DispatchRows
    BY <2>2, <2>4, <2>6, <2>7 DEF IsRows
  <2> QED BY <2>9, <2>10 DEF BufferTypes, IsRows
<1>3. ASSUME NEW c \in Caller, Compute(c) PROVE BufferTypes'
  <2> DEFINE n == ChunkRows(c)
             new == Computed(c)
             remains == SubSeq(read_buf, Len(new) + 1, Len(read_buf))
  <2>1. gpu[c] = "compute" /\ Len(out[c]) < MGpu(rows[c])
    BY <1>3 DEF Compute, HoldsPool, RowsInv, ThreadInv
  <2>2. /\ n \in Nat /\ new \in Seq(Row) /\ Len(new) = n
        /\ \A i \in 1..n : new[i] = <<c, Len(out[c]) + i>>
    BY <2>1, ComputedRows
  <2>3. /\ n <= ChunkM /\ ChunkM \in Nat
        /\ \A i \in 1..n : Len(out[c]) + i \in 1..MaxRows
    BY <2>1, ChunkWithin, Sizes
  <2>4. a_buf' = a_buf /\ read_buf' = new \o remains
    BY <1>3 DEF Compute, Overwrite
  <2> HIDE DEF n, new
  <2>5. new \in Seq(Entry)
    <3>1. ASSUME NEW i \in 1..Len(new) PROVE new[i] \in Entry
      <4>1. new[i] = <<c, Len(out[c]) + i>> /\ Len(out[c]) + i \in 1..MaxRows
        BY <2>2, <2>3, <3>1
      <4> QED BY <4>1
    <3> HIDE DEF Entry
    <3> QED BY <2>2, <3>1, SeqsByElements
  <2>6. read_buf \in Seq(Entry) /\ Len(read_buf) <= ChunkM
    BY DEF BufferTypes, IsRows
  <2> HIDE DEF Entry
  <2>7. Len(read_buf) \in Nat
    BY <2>6, LenProperties
  <2>8. /\ remains \in Seq(Entry)
        /\ Len(remains) = IF n + 1 <= Len(read_buf) THEN Len(read_buf) - n ELSE 0
    <3>1. \A i \in (n + 1)..Len(read_buf) : read_buf[i] \in Entry
      BY <2>2, <2>6, <2>7, ElementOfSeq
    <3>2. n + 1 \in Int /\ Len(read_buf) \in Int
          /\ Len(read_buf) - (n + 1) + 1 = Len(read_buf) - n
      BY <2>2, <2>7
    <3> QED BY <2>2, <3>1, <3>2, SubSeqProperties
  <2> HIDE DEF remains
  <2>9. new \o remains \in Seq(Entry) /\ Len(new \o remains) = n + Len(remains)
    BY <2>2, <2>5, <2>8, ConcatProperties
  <2>10. Len(new \o remains) <= ChunkM
    BY <2>2, <2>3, <2>6, <2>7, <2>8, <2>9
  <2> QED BY <2>4, <2>9, <2>10 DEF BufferTypes, IsRows, Entry
<1>4. ASSUME NEW c \in Caller, GpuThread(c), ~Stage(c), ~Compute(c)
      PROVE  BufferTypes'
  BY <1>1, <1>4
  DEF GpuThread, LockPool, GemmReturns, ReadBack, DispatchFails,
      MarkUnhealthy, DispatchPanics, buffers
<1>5. ASSUME NEW c \in Caller, Calling(c) PROVE BufferTypes'
  BY <1>1, <1>5
  DEF Calling, CheckContext, Upload, UploadPanics, Share, ShareFails, CpuOnly,
      CpuOnlyFails, CpuHalf, JoinCpuError, Merge, JoinGpuFailure, Recompute,
      RecomputeFails, EndCall, buffers
<1>6. ASSUME NEW c \in Caller, NEW m \in Rows, Begin(c, m) PROVE BufferTypes'
  BY <1>1, <1>6 DEF Begin, buffers
<1>7. CASE UNCHANGED vars
  BY <1>1, <1>7 DEF vars, buffers
<1> QED BY <1>2, <1>3, <1>4, <1>5, <1>6, <1>7 DEF Next

(* A call's rows are rows of its matrix. *)
LEMMA OutTypes == RowsInv => \A c \in Caller : IsRows(out[c])
<1> SUFFICES ASSUME RowsInv, NEW c \in Caller PROVE IsRows(out[c])
  OBVIOUS
<1> DEFINE Entry == (Caller \X (1..MaxRows)) \cup {Zero, Garbled}
<1>1. /\ out[c] \in Seq(Row) /\ rows[c] \in Rows
      /\ Len(out[c]) <= MGpu(rows[c])
      /\ \A i \in 1..Len(out[c]) : out[c][i] = <<c, i>>
  BY DEF RowsInv, RowTypes, ThreadInv
<1>2. Len(out[c]) \in Nat
  BY <1>1, LenProperties
<1>3. rows[c] \in Nat /\ rows[c] <= MaxRows /\ MaxRows \in Nat
  BY <1>1, MostRows
<1>4. MGpu(rows[c]) \in Nat /\ MGpu(rows[c]) <= rows[c]
  BY <1>3, GpuShare
<1>5. ASSUME NEW i \in 1..Len(out[c]) PROVE out[c][i] \in Entry
  <2>1. out[c][i] = <<c, i>> /\ i \in 1..MaxRows
    BY <1>1, <1>2, <1>3, <1>4, <1>5
  <2> QED BY <2>1
<1>6. out[c] \in Seq(Entry)
  BY <1>1, <1>5, SeqsByElements
<1> QED BY <1>6 DEF IsRows

(* Every variable keeps its type: the buffers hold rows of matrices that   *)
(* exist, in numbers that a dispatch may have.                             *)
THEOREM GemmTypeCorrect == Spec => []TypeOK
<1>1. Spec => [](ContextTypes /\ ResultTypes /\ BufferTypes)
  <2>1. ContextTypes /\ ResultTypes /\ BufferTypes /\ RowsInv /\ FailuresInv
        /\ [Next]_vars => (ContextTypes /\ ResultTypes /\ BufferTypes)'
    BY ContextKept, ResultsKept, BuffersKept
  <2> QED BY <2>1, InitTypes, RowsHold, FailuresHold, PTL DEF Spec
<1>2. ContextTypes /\ ResultTypes /\ BufferTypes /\ RowsInv /\ FailuresInv
      => TypeOK
  BY OutTypes
  DEF ContextTypes, ResultTypes, BufferTypes, RowsInv, RowTypes, FailuresInv,
      StepTypes, TypeOK
<1> QED BY <1>1, <1>2, RowsHold, FailuresHold, PTL
-----------------------------------------------------------------------------
(* How many steps a call may still take: its GPU thread four for each      *)
(* chunk, of at least one row, that is left, and the calling thread one    *)
(* after the other.                                                        *)
ToDo(c) == 4 * (MGpu(rows[c]) - Len(out[c]))

GpuLeft(c) ==
    CASE gpu[c] = "lock" -> ToDo(c) + 4
      [] gpu[c] = "stage" -> ToDo(c) + 3
      [] gpu[c] = "compute" -> ToDo(c) + 2
      [] gpu[c] = "read" -> ToDo(c) + 1
      [] gpu[c] = "mark" -> 1
      [] OTHER -> 0

CallLeft(c) ==
    CASE pc[c] = "context" -> 4 * MGpu(rows[c]) + 10
      [] pc[c] = "upload" -> 4 * MGpu(rows[c]) + 9
      [] pc[c] = "share" -> 4 * MGpu(rows[c]) + 8
      [] pc[c] = "split" -> GpuLeft(c) + IF cpu[c] = "todo" THEN 3 ELSE 2
      [] pc[c] \in {"cpu_only", "recompute"} -> 1
      [] OTHER -> 0

LEMMA LeftTypes ==
    ASSUME RowsInv, NEW c \in Caller
    PROVE  /\ MGpu(rows[c]) \in Nat /\ ToDo(c) \in 0..(4 * MGpu(rows[c]))
           /\ GpuLeft(c) \in 0..(4 * MGpu(rows[c]) + 4)
           /\ CallLeft(c) \in 0..(4 * MGpu(rows[c]) + 10)
           /\ Len(out[c]) \in Nat
<1>1. /\ rows[c] \in Nat /\ Len(out[c]) \in Nat
      /\ Len(out[c]) <= MGpu(rows[c])
  BY GemmAssumption, LenProperties DEF RowsInv, RowTypes, ThreadInv
<1>2. MGpu(rows[c]) \in Nat
  BY <1>1, GpuShare
<1>3. ToDo(c) \in 0..(4 * MGpu(rows[c]))
  BY <1>1, <1>2 DEF ToDo
<1>4. GpuLeft(c) \in 0..(4 * MGpu(rows[c]) + 4)
  BY <1>2, <1>3 DEF GpuLeft
<1>5. CallLeft(c) \in 0..(4 * MGpu(rows[c]) + 10)
  BY <1>2, <1>4 DEF CallLeft
<1> QED BY <1>1, <1>2, <1>3, <1>4, <1>5

(* A chunk that is read back is one row less, at least.                    *)
LEMMA ChunkIsDone ==
    ASSUME RowsInv, NEW c \in Caller, ReadBack(c)
    PROVE  ToDo(c)' \in Nat /\ ToDo(c)' + 4 <= ToDo(c)
<1>1. /\ out \in [Caller -> Seq(Row)] /\ Len(out[c]) < MGpu(rows[c])
      /\ ChunkRows(c) <= Len(read_buf) /\ read_buf \in Seq(Row)
  BY DEF RowsInv, RowTypes, ThreadInv, HoldsPool, ReadBack
<1>2. /\ ChunkRows(c) \in Nat \ {0}
      /\ Len(out[c]) + ChunkRows(c) <= MGpu(rows[c])
  BY <1>1, ChunkTiles
<1> DEFINE new == SubSeq(read_buf, 1, ChunkRows(c))
<1>3. new \in Seq(Row) /\ Len(new) = ChunkRows(c)
  BY <1>1, <1>2
<1>4. out'[c] = out[c] \o new /\ rows' = rows
  BY <1>1 DEF ReadBack
<1> HIDE DEF new
<1>5. Len(out'[c]) = Len(out[c]) + ChunkRows(c)
  <2>1. out[c] \in Seq(Row)
    BY <1>1
  <2>2. Len(out[c] \o new) = Len(out[c]) + Len(new)
    BY <1>3, <2>1, ConcatProperties
  <2> QED BY <1>3, <1>4, <2>2
<1>6. MGpu(rows[c]) \in Nat /\ Len(out[c]) \in Nat
  BY LeftTypes
<1> QED BY <1>2, <1>4, <1>5, <1>6 DEF ToDo

(* A step changes what is left for its own call only.                      *)
LEMMA OthersWait ==
    ASSUME NEW d, UNCHANGED <<pc[d], rows[d], cpu[d], gpu[d], out[d]>>
    PROVE  CallLeft(d)' = CallLeft(d)
BY DEF CallLeft, GpuLeft, ToDo

LEMMA StepIsOwn ==
    ASSUME RowsInv, FailuresInv, NEW c \in Caller,
           (\E m \in Rows : Begin(c, m)) \/ Calling(c) \/ GpuThread(c),
           NEW d \in Caller, d # c
    PROVE  CallLeft(d)' = CallLeft(d)
<1>1. /\ pc \in [Caller -> PC] /\ cpu \in [Caller -> {"todo", "ok", "error"}]
      /\ gpu \in [Caller -> GpuSteps] /\ rows \in [Caller -> Rows]
      /\ out \in [Caller -> Seq(Row)]
  BY DEF RowsInv, RowTypes, FailuresInv, StepTypes
<1>2. CASE \E m \in Rows : Begin(c, m)
  BY <1>1, <1>2, OthersWait DEF Begin, GoTo
<1>3. CASE Calling(c)
  <2>1. UNCHANGED <<pc[d], rows[d], cpu[d], gpu[d], out[d]>>
    BY <1>1, <1>3
    DEF Calling, CheckContext, Upload, UploadPanics, Share, ShareFails,
        CpuOnly, CpuOnlyFails, CpuHalf, JoinCpuError, Merge, JoinGpuFailure,
        Recompute, RecomputeFails, EndCall, GoTo, GpuGoTo
  <2> QED BY <2>1, OthersWait
<1>4. CASE GpuThread(c)
  <2>1. UNCHANGED <<pc[d], rows[d], cpu[d], gpu[d], out[d]>>
    BY <1>1, <1>4
    DEF GpuThread, LockPool, GemmReturns, Stage, Compute, ReadBack,
        DispatchFails, MarkUnhealthy, DispatchPanics, GpuGoTo
  <2> QED BY <2>1, OthersWait
<1> QED BY <1>2, <1>3, <1>4

LEMMA CallAdvances ==
    ASSUME RowsInv, FailuresInv, NEW c \in Caller, Calling(c) \/ GpuThread(c)
    PROVE  CallLeft(c)' < CallLeft(c)
<1> DEFINE share == MGpu(rows[c])
<1>1. /\ pc \in [Caller -> PC] /\ cpu \in [Caller -> {"todo", "ok", "error"}]
      /\ gpu \in [Caller -> GpuSteps] /\ rows \in [Caller -> Rows]
      /\ out \in [Caller -> Seq(Row)]
  BY DEF RowsInv, RowTypes, FailuresInv, StepTypes
<1>2. /\ share \in Nat /\ ToDo(c) \in 0..(4 * share)
      /\ GpuLeft(c) \in 0..(4 * share + 4)
  BY LeftTypes
<1>3. /\ gpu[c] # "none" => pc[c] \in {"split", "recompute"}
      /\ pc[c] = "recompute" => gpu[c] \in GpuEnded
      /\ gpu[c] = "none" => out[c] = <<>>
  BY DEF FailuresInv, FailureInv, RowsInv, ThreadInv
(* The calling thread. *)
<1>4. ASSUME NEW answer, EndCall(c, answer), pc[c] # "idle"
      PROVE  CallLeft(c)' < CallLeft(c)
  <2>1. CallLeft(c)' = 0
    BY <1>1, <1>4 DEF EndCall, GoTo, CallLeft
  <2>2. CallLeft(c) > 0
    BY <1>1, <1>2, <1>4 DEF CallLeft, PC
  <2> QED BY <2>1, <2>2
<1>5. CASE UploadPanics(c) \/ ShareFails(c) \/ CpuOnly(c) \/ CpuOnlyFails(c)
           \/ JoinCpuError(c) \/ Merge(c) \/ Recompute(c) \/ RecomputeFails(c)
  BY <1>4, <1>5
  DEF UploadPanics, ShareFails, CpuOnly, CpuOnlyFails, JoinCpuError, Merge,
      Recompute, RecomputeFails, Joinable
<1>6. CASE CheckContext(c) \/ Upload(c)
  <2>1. /\ rows' = rows
        /\ \/ pc[c] = "context" /\ pc'[c] \in {"upload", "cpu_only"}
           \/ pc[c] = "upload" /\ pc'[c] \in {"share", "cpu_only"}
    BY <1>1, <1>6 DEF CheckContext, Upload, GoTo
  <2> QED BY <1>2, <2>1 DEF CallLeft
<1>7. CASE Share(c)
  <2>1. pc[c] = "share" /\ rows' = rows /\ out' = out /\ cpu' = cpu
    BY <1>7 DEF Share
  <2>2. CASE share = 0
    <3>1. pc'[c] = "cpu_only"
      BY <1>1, <1>7, <2>2 DEF Share, GoTo
    <3> QED BY <1>2, <2>1, <3>1 DEF CallLeft
  <2>3. CASE share # 0
    <3>1. pc'[c] = "split" /\ gpu'[c] = "lock"
      BY <1>1, <1>7, <2>3 DEF Share, GoTo, GpuGoTo
    <3>2. ToDo(c)' = ToDo(c)
      BY <2>1 DEF ToDo
    <3>3. GpuLeft(c)' = ToDo(c) + 4
      BY <3>1, <3>2 DEF GpuLeft
    <3>4. CallLeft(c)' <= ToDo(c) + 7
      BY <1>2, <3>1, <3>3 DEF CallLeft
    <3>5. CallLeft(c) = 4 * share + 8
      BY <2>1 DEF CallLeft
    <3>6. CallLeft(c)' \in Nat
      BY <1>2, <3>1, <3>3 DEF CallLeft
    <3> HIDE DEF share
    <3> QED BY <1>2, <3>4, <3>5, <3>6
  <2> QED BY <2>2, <2>3
<1>8. CASE CpuHalf(c)
  <2>1. /\ pc[c] = "split" /\ pc' = pc /\ cpu[c] = "todo" /\ cpu'[c] # "todo"
        /\ UNCHANGED <<rows, gpu, out>>
    BY <1>1, <1>8 DEF CpuHalf
  <2>2. GpuLeft(c)' = GpuLeft(c)
    BY <2>1 DEF GpuLeft, ToDo
  <2> QED BY <1>2, <2>1, <2>2 DEF CallLeft
<1>9. CASE JoinGpuFailure(c)
  <2>1. pc[c] = "split" /\ pc'[c] = "recompute"
    BY <1>1, <1>9 DEF JoinGpuFailure, Joinable, GoTo
  <2> QED BY <1>2, <2>1 DEF CallLeft
(* The GPU thread. *)
<1>10. ASSUME gpu[c] \notin {"none", "ok", "failed", "panicked"},
              UNCHANGED <<pc, cpu>>, GpuLeft(c)' < GpuLeft(c),
              GpuLeft(c)' \in Nat
       PROVE  CallLeft(c)' < CallLeft(c)
  <2>1. pc[c] = "split"
    BY <1>3, <1>10 DEF GpuEnded
  <2> QED BY <1>2, <1>10, <2>1 DEF CallLeft
<1>11. CASE LockPool(c) \/ GemmReturns(c) \/ Stage(c) \/ Compute(c)
            \/ DispatchFails(c) \/ MarkUnhealthy(c) \/ DispatchPanics(c)
  <2>1. /\ UNCHANGED <<pc, cpu, rows, out>>
        /\ \/ gpu[c] = "lock" /\ gpu'[c] \in {"stage", "ok"}
           \/ gpu[c] = "stage" /\ gpu'[c] \in {"compute", "panicked"}
           \/ gpu[c] = "compute" /\ gpu'[c] \in {"read", "panicked"}
           \/ /\ gpu[c] = "read" /\ ToDo(c) > 0
              /\ gpu'[c] \in {"mark", "panicked"}
           \/ gpu[c] = "mark" /\ gpu'[c] = "failed"
    <3>1. gpu[c] = "read" => Len(out[c]) < share
      BY DEF RowsInv, ThreadInv, HoldsPool
    <3>2. gpu[c] = "read" => ToDo(c) > 0
      BY <1>2, <3>1, LeftTypes DEF ToDo
    <3> QED BY <1>1, <1>11, <3>2
    DEF LockPool, GemmReturns, Stage, Compute, DispatchFails, MarkUnhealthy,
        DispatchPanics, GpuGoTo
  <2>2. ToDo(c)' = ToDo(c)
    BY <2>1 DEF ToDo
  <2>3. GpuLeft(c)' < GpuLeft(c) /\ GpuLeft(c)' \in Nat
    BY <1>2, <2>1, <2>2 DEF GpuLeft
  <2> QED BY <1>10, <2>1, <2>3
<1>12. CASE ReadBack(c)
  <2>1. /\ UNCHANGED <<pc, cpu, rows>> /\ gpu[c] = "read" /\ gpu'[c] = "lock"
    BY <1>1, <1>12 DEF ReadBack, GpuGoTo
  <2>2. ToDo(c)' + 4 <= ToDo(c) /\ ToDo(c)' \in Nat
    BY <1>12, ChunkIsDone
  <2>3. GpuLeft(c)' < GpuLeft(c) /\ GpuLeft(c)' \in Nat
    BY <1>2, <2>1, <2>2 DEF GpuLeft
  <2> QED BY <1>10, <2>1, <2>3
<1> QED BY <1>5, <1>6, <1>7, <1>8, <1>9, <1>11, <1>12 DEF Calling, GpuThread

(* Every call takes finitely many steps, at most ten and four for each row *)
(* of the GPU's share, whoever competes for the pool, and under no         *)
(* fairness: a step of a call leaves it fewer to take, and no other call   *)
(* more (gemm's loop over the chunks, forward_gpu).                        *)
THEOREM CallsAreFinite ==
    /\ Spec => [](\A c \in Caller :
                     CallLeft(c) \in 0..(4 * MGpu(rows[c]) + 10))
    /\ Spec => [][\E c \in Caller :
                     /\ pc[c] = "idle" \/ CallLeft(c)' < CallLeft(c)
                     /\ \A d \in Caller \ {c} :
                            CallLeft(d)' = CallLeft(d)]_vars
<1>1. RowsInv => \A c \in Caller : CallLeft(c) \in 0..(4 * MGpu(rows[c]) + 10)
  BY LeftTypes
<1>2. ASSUME RowsInv, FailuresInv, Next
      PROVE  \E c \in Caller :
                 /\ pc[c] = "idle" \/ CallLeft(c)' < CallLeft(c)
                 /\ \A d \in Caller \ {c} : CallLeft(d)' = CallLeft(d)
  <2>1. PICK c \in Caller :
            (\E m \in Rows : Begin(c, m)) \/ Calling(c) \/ GpuThread(c)
    BY <1>2 DEF Next
  <2>2. \A d \in Caller \ {c} : CallLeft(d)' = CallLeft(d)
    BY <1>2, <2>1, StepIsOwn
  <2>3. pc[c] = "idle" \/ CallLeft(c)' < CallLeft(c)
    BY <1>2, <2>1, CallAdvances DEF Begin
  <2> QED BY <2>2, <2>3
<1>3. RowsInv /\ FailuresInv /\ [Next]_vars =>
          [\E c \in Caller :
              /\ pc[c] = "idle" \/ CallLeft(c)' < CallLeft(c)
              /\ \A d \in Caller \ {c} : CallLeft(d)' = CallLeft(d)]_vars
  BY <1>2
<1> QED BY <1>1, <1>3, RowsHold, FailuresHold, PTL DEF Spec

(* What the threads wait for in each other is the pool, and the one that   *)
(* holds it is staging, computing or reading a chunk and waits for nobody; *)
(* failures and panics leave it to others (dispatch).                      *)
THEOREM PoolHolderWorks ==
    Spec => [](\A c \in Caller :
                  pool = c <=> gpu[c] \in {"stage", "compute", "read"})
<1>1. RowsInv => \A c \in Caller :
                     pool = c <=> gpu[c] \in {"stage", "compute", "read"}
  BY DEF RowsInv, ThreadInv, HoldsPool
<1> QED BY <1>1, RowsHold, PTL
=============================================================================
