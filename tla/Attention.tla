----------------------------- MODULE Attention ------------------------------
(***************************************************************************)
(* Which cached rows the attention kernels of a Qwen3 layer give to each   *)
(* query row (models crate, qwen3_model.rs).  Softmax and dot products are *)
(* left out: a kernel is known by the rows it accumulates, as a function   *)
(* from the index of its loop to the row of the buffer that it reads.      *)
(* Buffers are flat, as in the code; a row of head_dim numbers is one      *)
(* element.  Heads, rows and loop indices count from 0, elements from 1.   *)
(***************************************************************************)
EXTENDS Integers, Sequences

CONSTANTS
    QueryHeads,     \* num_heads
    KvHeads,        \* num_kv_heads
    QueryBlock      \* ATTN_QUERY_BLOCK

ASSUME AttentionAssumption ==
    /\ KvHeads \in Nat \ {0}
    /\ QueryBlock \in Nat \ {0}
    /\ QueryHeads \in Nat \ {0}
    /\ QueryHeads % KvHeads = 0     \* the kernels' buffers need it
-----------------------------------------------------------------------------
QueryHead == 0..(QueryHeads - 1)
KvHead == 0..(KvHeads - 1)

(* num_kv_groups, the query heads that share a key/value head *)
Groups == QueryHeads \div KvHeads

(* The key/value head of a query head. *)
KvHeadOf(h) == h \div Groups

Least(a, b) == IF a < b THEN a ELSE b
SaturatingSub(a, b) == IF a < b THEN 0 ELSE a - b

(* The first row of the block that a row lies in. *)
BlockStart(row) == (row \div QueryBlock) * QueryBlock

(* The key rows that the blocked kernel streams past a block of queries:   *)
(* up to the causal bound of the last row of the block.                    *)
Streamed(l, q0) == 0..(q0 + Least(l - q0, QueryBlock) - 1)

(* A loop that starts one row late at each key of its own block. *)
UpdatedLate(l, row) ==
    LET q0 == BlockStart(row) IN
    {j \in Streamed(l, q0) : SaturatingSub(j + 1, q0) <= row - q0}

(* Those of them that update the row: its loop starts at j - q0. *)
Updated(l, row) ==
    LET q0 == BlockStart(row) IN
    {j \in Streamed(l, q0) : SaturatingSub(j, q0) <= row - q0}

(* blocked_causal_prefill_f32 over a buffer [KvHeads][l]. *)
BlockedCausal(k, l, h, row) ==
    [j \in Updated(l, row) |-> k[KvHeadOf(h) * l + j + 1]]

(* gqa_decode_f32_interleaved over a buffer [kv_len][KvHeads]: the query   *)
(* heads of one group read each row of their key/value head once.          *)
GqaDecode(kv, kv_len, h) ==
    [pos \in 0..(kv_len - 1) |-> kv[pos * KvHeads + KvHeadOf(h) + 1]]

(* candle's flash kernel over a buffer [S][KvHeads], causal from offset. *)
Flash(kv, offset, h, row) ==
    [pos \in 0..(offset + row) |-> kv[pos * KvHeads + KvHeadOf(h) + 1]]

(* causal_mask: what is not at minus infinity in the row of a token. *)
Unmasked(offset, row) == 0..(offset + row)

(* Scores against the whole concat cache, minus what the mask hides; one   *)
(* token has no mask.                                                      *)
MatmulAttention(cache, l, offset, h, row) ==
    LET head == cache[KvHeadOf(h)] IN
    [pos \in IF l = 1 THEN 0..(Len(head) - 1) ELSE Unmasked(offset, row)
        |-> head[pos + 1]]
=============================================================================
