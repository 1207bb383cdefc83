------------------------------ MODULE Decoder -------------------------------
(***************************************************************************)
(* A loaded GGUF model as a TokenDecoder (models crate, qwen3_gguf.rs with *)
(* qwen3_model.rs, llama_gguf.rs): positions and key/value caches.  A row  *)
(* of a cache is known by the request, position and key/value head it was  *)
(* computed for; the numbers in it are left out.  The session's mutex lets *)
(* one request at a time in; a request is a prefill and then decodes, and  *)
(* ends at the first error or panic, which may come inside a layer.        *)
(***************************************************************************)
EXTENDS Attention

CONSTANTS
    Request,        \* request identities
    Layers,         \* number of layers
    ContextLength,  \* rows of the rotary tables
    BlockedMinSeq,  \* PREFILL_BLOCKED_ATTN_MIN_SEQ
    MaxPrompt,      \* bound on the length of a prompt
    None            \* no request yet

VARIABLES
    kind,           \* the model: Qwen3 on the CPU or elsewhere, or Llama
    request,        \* the request being served, or the last one
    usable,         \* its forward passes all succeeded so far
    next_position,  \* the decoder's next_position
    len,            \* number of tokens of the forward pass in progress
    offset,         \* its first position
    layer,          \* the layer it has reached, 0 between passes
    kv_cache,       \* per layer and head: the concat cache (not Qwen3 on CPU)
    interleaved,    \* per layer: the cache of the flash kernel (CPU)
    raw,            \* per layer: the cache of the decode kernels (CPU)
    attended        \* attended[<<h, i>>]: what the i-th token of the last
                    \* layer step attended to with head h

vars == <<kind, request, usable, next_position, len, offset, layer,
          kv_cache, interleaved, raw, attended>>
caches == <<kv_cache, interleaved, raw>>

ASSUME DecoderAssumption ==
    /\ Layers \in Nat \ {0}
    /\ ContextLength \in Nat
    /\ BlockedMinSeq \in Nat
    /\ MaxPrompt \in Nat
    /\ None \notin Request

Kinds == {"qwen3_cpu", "qwen3_device", "llama"}
-----------------------------------------------------------------------------
Entry(r, p, kv_h) == [request |-> r, position |-> p, head |-> kv_h]
Entries == [request : Request, position : 0..(ContextLength - 1),
            head : KvHead]

(* The keys and values that a pass computes in a layer, [KvHeads][len]. *)
New == [n \in 1..(KvHeads * len) |->
            Entry(request, offset + ((n - 1) % len), (n - 1) \div len)]

(* k.transpose(0, 1): the layout [len][KvHeads] of the CPU's caches. *)
Transposed == [n \in 1..(len * KvHeads) |->
            New[((n - 1) % KvHeads) * len + ((n - 1) \div KvHeads) + 1]]

(* Their rows of one head. *)
NewOf(kv_h) == SubSeq(New, kv_h * len + 1, (kv_h + 1) * len)

NoKv == [k \in 1..Layers |-> [kv_h \in KvHead |-> <<>>]]
Empty == [k \in 1..Layers |-> <<>>]

(* A clear that was not extended to the raw cache. *)
ClearWithoutRaw ==
    /\ kv_cache' = NoKv
    /\ interleaved' = Empty
    /\ UNCHANGED raw

(* clear_kv_cache: every cache of every layer. *)
ClearKvCache ==
    /\ kv_cache' = NoKv
    /\ interleaved' = Empty
    /\ raw' = Empty

(* What every head of every token of the pass attends to. *)
Attend(Rows(_, _)) ==
    attended' = [hi \in QueryHead \X (0..(len - 1)) |-> Rows(hi[1], hi[2])]
-----------------------------------------------------------------------------
Init ==
    /\ kind \in Kinds
    /\ request = None
    /\ usable = FALSE
    /\ next_position = 0
    /\ len = 0
    /\ offset = 0
    /\ layer = 0
    /\ kv_cache = NoKv
    /\ interleaved = Empty
    /\ raw = Empty
    /\ attended = <<>>

(* prefill: clear_cache, then a pass from position 0.  An empty prompt is  *)
(* an error of forward_tokens.                                             *)
Prefill(r, n) ==
    /\ layer = 0
    /\ r # request
    /\ request' = r
    /\ ClearKvCache
    /\ next_position' = 0
    /\ usable' = (n > 0)
    /\ len' = n
    /\ offset' = 0
    /\ layer' = IF n > 0 THEN 1 ELSE 0
    /\ attended' = <<>>

(* decode: a pass of one token at next_position. *)
Decode ==
    /\ layer = 0
    /\ usable
    /\ len' = 1
    /\ offset' = next_position
    /\ layer' = 1
    /\ attended' = <<>>
    /\ UNCHANGED <<request, usable, next_position, caches>>

(* No bound on the positions. *)
Unbounded == TRUE

(* rotary_emb.apply narrows the tables, ahead of any write to a cache. *)
InContext == offset + len <= ContextLength

(* One layer of the pass, up to its attention. *)
InLayer(kinds) ==
    /\ kind \in kinds
    /\ layer \in 1..Layers
    /\ InContext
    /\ layer' = layer + 1
    /\ UNCHANGED <<request, usable, next_position, len, offset>>

(* One token on the CPU: only the raw cache is written and read. *)
FusedDecode ==
    /\ InLayer({"qwen3_cpu"})
    /\ len = 1
    /\ raw' = [raw EXCEPT ![layer] = @ \o Transposed]
    /\ LET kv_len == Len(raw'[layer]) \div KvHeads IN
       Attend(LAMBDA h, i : GqaDecode(raw'[layer], kv_len, h))
    /\ UNCHANGED <<kv_cache, interleaved>>

(* Several tokens on the CPU: both caches are written; a long prefill from *)
(* position 0 attends to what it just computed, others to the interleaved  *)
(* cache.                                                                  *)
PrefillLayer ==
    /\ InLayer({"qwen3_cpu"})
    /\ len > 1
    /\ interleaved' = [interleaved EXCEPT ![layer] = @ \o Transposed]
    /\ raw' = [raw EXCEPT ![layer] = @ \o Transposed]
    /\ IF len >= BlockedMinSeq /\ offset = 0
       THEN Attend(LAMBDA h, i : BlockedCausal(New, len, h, i))
       ELSE Attend(LAMBDA h, i : Flash(interleaved'[layer], offset, h, i))
    /\ UNCHANGED kv_cache

(* Matmul attention over the concat cache. *)
AttendConcat ==
    Attend(LAMBDA h, i :
               MatmulAttention(kv_cache'[layer], len, offset, h, i))

MatmulLayer ==
    /\ InLayer({"qwen3_device"})
    /\ kv_cache' = [kv_cache EXCEPT
                        ![layer] = [kv_h \in KvHead |-> @[kv_h] \o NewOf(kv_h)]]
    /\ AttendConcat
    /\ UNCHANGED <<interleaved, raw>>

(* candle's Llama model: at position 0 it starts its cache anew. *)
LlamaLayer ==
    /\ InLayer({"llama"})
    /\ kv_cache' = [kv_cache EXCEPT
                        ![layer] = [kv_h \in KvHead |->
                            IF offset = 0 THEN NewOf(kv_h)
                            ELSE @[kv_h] \o NewOf(kv_h)]]
    /\ AttendConcat
    /\ UNCHANGED <<interleaved, raw>>

(* The position of the last token instead of the next one. *)
FinishPassEarly ==
    /\ layer = Layers + 1
    /\ layer' = 0
    /\ next_position' = IF offset = 0 THEN len - 1 ELSE next_position + 1
    /\ UNCHANGED <<request, usable, len, offset, caches, attended>>

(* After the last layer: the logits are returned, then the position moves. *)
FinishPass ==
    /\ layer = Layers + 1
    /\ layer' = 0
    /\ next_position' = IF offset = 0 THEN len ELSE next_position + 1
    /\ UNCHANGED <<request, usable, len, offset, caches, attended>>

(* An error or a panic in a pass, maybe between the writes of a layer's    *)
(* two caches.  The loop ends, so the request decodes no more.             *)
Fail ==
    /\ layer > 0
    /\ layer' = 0
    /\ usable' = FALSE
    /\ \/ UNCHANGED interleaved
       \/ /\ kind = "qwen3_cpu" /\ len > 1 /\ layer <= Layers /\ InContext
          /\ interleaved' = [interleaved EXCEPT ![layer] = @ \o Transposed]
    /\ UNCHANGED <<request, next_position, len, offset, kv_cache, raw,
                   attended>>

Layer == FusedDecode \/ PrefillLayer \/ MatmulLayer \/ LlamaLayer

Step ==
    \/ \E r \in Request, n \in 0..MaxPrompt : Prefill(r, n)
    \/ Decode \/ Layer \/ FinishPass \/ Fail

Next == Step /\ UNCHANGED kind    \* a session keeps its model and device

Spec == Init /\ [][Next]_vars
-----------------------------------------------------------------------------
TypeOK ==
    /\ kind \in Kinds
    /\ request \in Request \cup {None}
    /\ usable \in BOOLEAN
    /\ next_position \in 0..ContextLength
    /\ len \in Nat
    /\ offset \in 0..ContextLength
    /\ layer \in 0..(Layers + 1)
    /\ kv_cache \in [1..Layers -> [KvHead -> Seq(Entries)]]
    /\ interleaved \in [1..Layers -> Seq(Entries)]
    /\ raw \in [1..Layers -> Seq(Entries)]
    /\ \A hi \in DOMAIN attended :
          \A j \in DOMAIN attended[hi] : attended[hi][j] \in Entries

(* Each head of a token attends to exactly the tokens of its own request   *)
(* up to itself, as the key/value head of its group sees them: never to    *)
(* what an earlier request left behind, however that ended, never to a gap *)
(* or to a row of another head (five kernels over four layouts).           *)
AttendsOwnPrefix ==
    \A hi \in DOMAIN attended : \E kv_h \in KvHead :
        /\ hi[1] \in (kv_h * Groups)..((kv_h + 1) * Groups - 1)
        /\ attended[hi] = [j \in 0..(offset + hi[2]) |->
                               Entry(request, j, kv_h)]

(* Between passes of a live request the cache that its decodes read holds  *)
(* one row per head for each position before next_position, in every layer. *)
CachesFollowPosition ==
    usable /\ layer = 0 =>
        \A k \in 1..Layers :
            IF kind = "qwen3_cpu"
            THEN raw[k] = [n \in 1..(next_position * KvHeads) |->
                    Entry(request, (n - 1) \div KvHeads, (n - 1) % KvHeads)]
            ELSE \A kv_h \in KvHead :
                    kv_cache[k][kv_h] = [n \in 1..next_position |->
                                            Entry(request, n - 1, kv_h)]

(* The tokens that a head of the last token of the pass attended to. *)
Seen(h) ==
    LET row == attended[<<h, len - 1>>] IN
    [i \in {j + 1 : j \in DOMAIN row} |->
        [request |-> row[i - 1].request, position |-> row[i - 1].position]]

(* The logits of the last pass are computed from what its last token       *)
(* attended to, if the heads agree on that; in the middle of a decode the  *)
(* context is still the old one.                                           *)
Context ==
    CASE usable /\ layer = 0 ->
            IF \A h \in QueryHead : Seen(h) = Seen(0) THEN Seen(0)
            ELSE <<"torn">>
      [] layer > 0 -> [i \in 1..offset |->
                          [request |-> request, position |-> i - 1]]
      [] OTHER -> <<>>

Promise == INSTANCE TokenDecoder WITH context <- Context

(* The decoder implements the contract of the trait: logits depend on the  *)
(* whole prompt, then on exactly one more token per decode.                *)
ImplementsTokenDecoder == Promise!Spec
=============================================================================
