----------------------------- MODULE GemmShader -----------------------------
(***************************************************************************)
(* The two GPU kernels for Q4_K weights (models crate, gpu_gemm.rs, SHADER *)
(* and SHADER_F16): which activation they multiply with which quantized    *)
(* weight, under which of its scales, and where they put each sum.  The    *)
(* arithmetic and its rounding are left out; a sum is the set of its       *)
(* products, and an activation in it the address it is read from.  Indices *)
(* and addresses count from 0, as in the code.                             *)
(***************************************************************************)
EXTENDS Naturals

CONSTANTS
    TileM,      \* TILE_M: rows of a workgroup (16 in the code)
    Vec,        \* rows in one vector (4)
    WgCols,     \* WG_COLS: threads of a workgroup (64)
    GroupWords, \* words of quants in each of the 4 groups of a block (8)
    WordBytes,  \* bytes of a word that the kernels take apart (4)
    KBlocks,    \* blocks in a row of the weights: k / 256
    Columns,    \* rows of the weights, columns of the product: n
    ChunkM,     \* CHUNK_M: rows of one dispatch (1024)
    Garbled     \* a row of the product that is none

ASSUME ShaderAssumption ==
    /\ \A n \in {TileM, Vec, WgCols, GroupWords, WordBytes, KBlocks, Columns, ChunkM} :
           n \in Nat \ {0}
    /\ TileM % Vec = 0
    /\ ChunkM % TileM = 0
-----------------------------------------------------------------------------
(* The format.  A block is one word with its two factors, three words with *)
(* twelve bytes of scales, and the quants, two to a byte: the low halves   *)
(* of a group's bytes come before the high ones.  Each half of a group is  *)
(* a sub-block with a scale and a minimum of six bits (any numbers here).  *)
GroupBytes == GroupWords * WordBytes
BlockElems == 8 * GroupBytes
BlockWords == 4 + 4 * GroupWords
K == KBlocks * BlockElems

Scale(block, j) == (5 + 9 * j + 23 * block) % 64
Minimum(block, j) == (60 + 53 * j + 31 * block) % 64

(* Sub-blocks 4 to 7 have their upper two bits in the bytes of 0 to 3. *)
ScaleByte(block, i) ==
    CASE i < 4 -> Scale(block, i) + 64 * (Scale(block, i + 4) \div 16)
      [] i \in 4..7 -> Minimum(block, i - 4) + 64 * (Minimum(block, i) \div 16)
      [] i > 7 -> (Scale(block, i - 4) % 16) + 16 * (Minimum(block, i - 4) % 16)

(* The e-th weight of a block, as the CPU dequantizes it. *)
Weight(block, e) ==
    LET j == e \div GroupBytes IN
    [factors |-> block, high |-> j % 2 = 1,
     byte |-> <<block, (j \div 2) * GroupBytes + (e % GroupBytes)>>,
     scale |-> Scale(block, j), minimum |-> Minimum(block, j)]

(* A row of weights times row r of the activations, which are staged       *)
(* transposed, as [k][mp].                                                 *)
Dot(column, mp, r) ==
    {[a |-> n * mp + r,
      w |-> Weight(column * KBlocks + n \div BlockElems, n % BlockElems)] :
        n \in 0..(K - 1)}
-----------------------------------------------------------------------------
(* wq: a byte of a word of the weights' buffer. *)
Byte(address, i) ==
    LET block == address \div BlockWords
        word == address % BlockWords IN
    IF word \in 1..3 THEN ScaleByte(block, 4 * (word - 1) + i)
    ELSE <<block, (word - 4) * WordBytes + i>>

(* scale_min: the scale and the minimum of sub-block j. *)
ScaleMin(base, j) ==
    IF j < 4 THEN <<Byte(base + 1, j) % 64, Byte(base + 2, j) % 64>>
    ELSE <<(Byte(base + 3, j - 4) % 16) + 16 * (Byte(base + 1, j - 4) \div 64),
           (Byte(base + 3, j - 4) \div 16) + 16 * (Byte(base + 2, j - 4) \div 64)>>

(* Where a_tile[t] comes from in the activations [k][mp], for a block of k *)
(* and component r of the vector.                                          *)
ATile(mp, kb, tile, t, r) ==
    LET e == t \div (TileM \div Vec)
        cq == t % (TileM \div Vec) IN
    ((kb * BlockElems + e) * (mp \div Vec) + tile * (TileM \div Vec) + cq)
        * Vec + r

(* What a thread adds up for one of its columns, in row r of a tile: both  *)
(* halves of each byte of each word of each group of each block.           *)
Sum(mp, column, tile, r) ==
    {LET base == (column * KBlocks + kb) * BlockWords
         e == g * 2 * GroupBytes + half * GroupBytes + b * WordBytes + by
         sm == ScaleMin(base, 2 * g + half) IN
     [a |-> ATile(mp, kb, tile, e * (TileM \div Vec) + (r \div Vec), r % Vec),
      w |-> [factors |-> base \div BlockWords, high |-> half = 1,
             byte |-> Byte(base + 4 + g * GroupWords + b, by),
             scale |-> sm[1], minimum |-> sm[2]]] :
        kb \in 0..(KBlocks - 1), g \in 0..3, half \in {0, 1},
        b \in 0..(GroupWords - 1), by \in 0..(WordBytes - 1)}

CeilDiv(a, b) == (a + b - 1) \div b

(* The stores of a dispatch for m rows: each thread has `width` columns, a *)
(* stride of WG_COLS apart, and drops those past the last one.             *)
Stores(m, width) ==
    {s \in [wg_x : 0..(CeilDiv(Columns, WgCols * width) - 1),
            wg_y : 0..(CeilDiv(m, TileM) - 1),
            lid : 0..(WgCols - 1), q : 0..(width - 1), r : 0..(TileM - 1)] :
        /\ s.wg_x * WgCols * width + s.lid + s.q * WgCols < Columns
        /\ s.wg_y * TileM + s.r < m}

(* 4 columns per thread, or 2 in the kernel for half precision. *)
Width(use_f16) == IF use_f16 THEN 2 ELSE 4

(* mp: the rows of a chunk, filled up to whole tiles. *)
Padded(m) == CeilDiv(m, TileM) * TileM

(* The product [m][n] that the kernel leaves in its output buffer. *)
Kernel(use_f16, m) ==
    LET width == Width(use_f16)
        Column(s) == s.wg_x * WgCols * width + s.lid + s.q * WgCols
        Address(s) == (s.wg_y * TileM + s.r) * Columns + Column(s) IN
    [address \in 0..(m * Columns - 1) |->
        UNION {Sum(Padded(m), Column(s), s.wg_y, s.r) :
                  s \in {s \in Stores(m, width) : Address(s) = address}}]
-----------------------------------------------------------------------------
(* The row of activations that row i of the product stems from: each of    *)
(* its sums is that row's product with the weights of its column.          *)
SourceRow(product, mp, i) ==
    LET IsSource(r) == \A column \in 0..(Columns - 1) :
                          product[i * Columns + column] = Dot(column, mp, r)
        sources == {r \in 0..(mp - 1) : IsSource(r)} IN
    IF sources = {} THEN Garbled ELSE CHOOSE r \in sources : TRUE

(* The numbers of rows that a dispatch may have: the GPU's share of the    *)
(* rows is a number of whole tiles.                                        *)
DispatchRows == {TileM * tiles : tiles \in 1..(ChunkM \div TileM)}

(* What a kernel computes, for each number of rows. *)
SourceRows(use_f16) ==
    [m \in DispatchRows |->
        LET product == Kernel(use_f16, m) IN
        [i \in 1..m |-> SourceRow(product, Padded(m), i - 1)]]
=============================================================================
