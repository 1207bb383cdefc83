---------------------------- MODULE DecoderProofs ----------------------------
(***************************************************************************)
(* Proofs about the decoder of ProfiledDecoder, for any number of layers,  *)
(* heads, requests and positions, any model and either attention path: the *)
(* flat key/value buffers hold what the positions say, every head attends  *)
(* to the prefix of its own token, the decoder implements TokenDecoder,    *)
(* and no pass is missing from the profile.                                *)
(***************************************************************************)
EXTENDS ProfiledDecoder, IndexArithmetic, SequenceTheorems, TLAPS

(* The query heads of a key/value head are a block of Groups heads. *)
LEMMA GroupsPartition ==
    /\ Groups \in Nat \ {0}
    /\ QueryHeads = KvHeads * Groups
<1>1. KvHeads \in Nat \ {0} /\ QueryHeads \in Nat \ {0} /\ QueryHeads % KvHeads = 0
  BY AttentionAssumption
<1>2. Groups \in Int /\ QueryHeads = KvHeads * Groups
  BY <1>1, DivMod DEF Groups
<1>3. Groups > 0
  <2>1. SUFFICES ASSUME Groups <= 0 PROVE FALSE
    BY <1>2
  <2>2. KvHeads * Groups <= KvHeads * 0 /\ KvHeads * 0 = 0
    BY <1>1, <1>2, <2>1, Monotonic
  <2> QED BY <1>1, <1>2, <2>2
<1> QED BY <1>2, <1>3

LEMMA HeadOfGroup ==
    ASSUME NEW h \in QueryHead
    PROVE  /\ KvHeadOf(h) \in KvHead
           /\ h \in (KvHeadOf(h) * Groups)..((KvHeadOf(h) + 1) * Groups - 1)
<1>1. Groups \in Nat /\ KvHeads \in Nat /\ h \in 0..(KvHeads * Groups - 1)
  BY GroupsPartition, AttentionAssumption DEF QueryHead
<1> DEFINE q == h \div Groups
           r == h % Groups
<1>2. q \in 0..(KvHeads - 1) /\ r \in 0..(Groups - 1) /\ h = q * Groups + r
  BY <1>1, RowAndColumn
<1> HIDE DEF q, r
<1>3. (q + 1) * Groups = q * Groups + Groups /\ q * Groups \in Int
  BY <1>1, <1>2
<1>4. h \in (q * Groups)..((q + 1) * Groups - 1)
  BY <1>1, <1>2, <1>3 DEF QueryHead
<1> QED BY <1>2, <1>4 DEF q, KvHeadOf, KvHead

(* What a head that has reached position `last` should have attended to. *)
Prefix(r, last, kv_h) == [j \in 0..last |-> Entry(r, j, kv_h)]

(* What the caches hold of p positions: by rows and, in a concat cache, by *)
(* heads.                                                                  *)
RowsUpTo(r, p) == [n \in 1..(p * KvHeads) |->
                      Entry(r, (n - 1) \div KvHeads, (n - 1) % KvHeads)]
HeadRows(r, p, kv_h) == [n \in 1..p |-> Entry(r, n - 1, kv_h)]

LEMMA RowsAt ==
    ASSUME NEW r, NEW p \in Nat, NEW j \in 0..(p - 1), NEW kv_h \in KvHead
    PROVE  RowsUpTo(r, p)[j * KvHeads + kv_h + 1] = Entry(r, j, kv_h)
<1>1. KvHeads \in Nat \ {0} /\ kv_h \in 0..(KvHeads - 1)
  BY AttentionAssumption DEF KvHead
<1>2. PICK n : n = j * KvHeads + kv_h + 1
  OBVIOUS
<1>3. /\ n \in 1..(p * KvHeads)
      /\ (n - 1) \div KvHeads = j
      /\ (n - 1) % KvHeads = kv_h
  BY <1>1, <1>2, IndexOf
<1>4. RowsUpTo(r, p)[n] = Entry(r, j, kv_h)
  BY <1>3 DEF RowsUpTo
<1> QED BY <1>2, <1>4

(* The four kernels over what their buffers hold: each attends to the      *)
(* prefix, for every head and every row.                                   *)
LEMMA GqaDecodeAttends ==
    ASSUME NEW r, NEW p \in Nat \ {0}, NEW h \in QueryHead
    PROVE  /\ Len(RowsUpTo(r, p)) \div KvHeads = p
           /\ GqaDecode(RowsUpTo(r, p), p, h) = Prefix(r, p - 1, KvHeadOf(h))
<1>1. KvHeads \in Nat \ {0} /\ p * KvHeads \in Nat
  BY AttentionAssumption
<1>2. Len(RowsUpTo(r, p)) = p * KvHeads
  BY <1>1 DEF RowsUpTo
<1>3. (p * KvHeads) \div KvHeads = p
  <2>1. 0 \in 0..(KvHeads - 1) /\ p * KvHeads + 0 = p * KvHeads
    BY <1>1
  <2> QED BY <1>1, <2>1, Quotient
<1>4. \A j \in 0..(p - 1) :
          RowsUpTo(r, p)[j * KvHeads + KvHeadOf(h) + 1] = Entry(r, j, KvHeadOf(h))
  BY HeadOfGroup, RowsAt
<1> QED BY <1>2, <1>3, <1>4 DEF GqaDecode, Prefix

LEMMA FlashAttends ==
    ASSUME NEW r, NEW p \in Nat, NEW first \in Nat, NEW i \in Nat,
           first + i < p, NEW h \in QueryHead
    PROVE  Flash(RowsUpTo(r, p), first, h, i) = Prefix(r, first + i, KvHeadOf(h))
<1>1. \A j \in 0..(first + i) :
          RowsUpTo(r, p)[j * KvHeads + KvHeadOf(h) + 1] = Entry(r, j, KvHeadOf(h))
  BY HeadOfGroup, RowsAt
<1> QED BY <1>1 DEF Flash, Prefix

LEMMA MatmulAttends ==
    ASSUME NEW r, NEW cache, NEW l \in Nat, NEW first \in Nat, NEW i \in 0..(l - 1),
           NEW h \in QueryHead,
           cache[KvHeadOf(h)] = HeadRows(r, first + l, KvHeadOf(h))
    PROVE  MatmulAttention(cache, l, first, h, i) = Prefix(r, first + i, KvHeadOf(h))
<1> DEFINE head == HeadRows(r, first + l, KvHeadOf(h))
<1>1. Len(head) = first + l
  BY DEF HeadRows
<1>2. (IF l = 1 THEN 0..(Len(head) - 1) ELSE Unmasked(first, i)) = 0..(first + i)
  BY <1>1 DEF Unmasked
<1>3. \A j \in 0..(first + i) : head[j + 1] = Entry(r, j, KvHeadOf(h))
  BY DEF HeadRows
<1> HIDE DEF head
<1>4. MatmulAttention(cache, l, first, h, i) = [j \in 0..(first + i) |-> head[j + 1]]
  BY <1>2 DEF MatmulAttention, head
<1> QED BY <1>3, <1>4 DEF Prefix

(* The blocked kernel starts its loops so that a row is updated by exactly *)
(* the keys up to itself, wherever its block of queries begins and ends.   *)
LEMMA BlocksUpdate ==
    ASSUME NEW l \in Nat, NEW i \in 0..(l - 1)
    PROVE  Updated(l, i) = 0..i
<1> DEFINE q0 == BlockStart(i)
<1>1. QueryBlock \in Nat \ {0} /\ i \in Nat
  BY AttentionAssumption
<1>2. q0 \in Nat /\ q0 <= i /\ i < q0 + QueryBlock
  <2> DEFINE q == i \div QueryBlock
             b == i % QueryBlock
  <2>1. /\ q \in Int /\ b \in 0..(QueryBlock - 1)
        /\ i = QueryBlock * q + b /\ QueryBlock * q = q * QueryBlock
    BY <1>1, DivMod
  <2>2. q \in Nat
    BY <1>1
  <2> HIDE DEF q, b
  <2>3. q * QueryBlock \in Nat
    BY <1>1, <2>2
  <2> QED BY <1>1, <2>1, <2>3 DEF q, BlockStart
<1> HIDE DEF q0
<1>3. Streamed(l, q0) = 0..(q0 + Least(l - q0, QueryBlock) - 1)
  BY DEF Streamed
<1>4. i <= q0 + Least(l - q0, QueryBlock) - 1
  BY <1>1, <1>2 DEF Least
<1>5. \A j \in Nat : SaturatingSub(j, q0) <= i - q0 <=> j <= i
  BY <1>2 DEF SaturatingSub
<1>6. Least(l - q0, QueryBlock) \in Int
  BY <1>1, <1>2 DEF Least
<1>7. Updated(l, i) = {j \in Streamed(l, q0) : SaturatingSub(j, q0) <= i - q0}
  BY DEF Updated, q0
<1> QED BY <1>2, <1>3, <1>4, <1>5, <1>6, <1>7
-----------------------------------------------------------------------------
LEMMA SubSeqIs ==
    ASSUME NEW s, NEW a \in Int, NEW l \in Nat
    PROVE  SubSeq(s, a + 1, a + l) = [i \in 1..l |-> s[a + i]]
<1>1. PICK m \in Int, n \in Int : m = a + 1 /\ n = a + l
  OBVIOUS
<1>2. PICK S : \A i \in m..n : s[i] \in S
  <2>1. \A i \in m..n : s[i] \in {s[k] : k \in m..n}
    OBVIOUS
  <2> QED BY <2>1
<1>3. PICK sub : sub = SubSeq(s, m, n)
  OBVIOUS
<1>4. /\ sub \in Seq(S)
      /\ Len(sub) = IF m <= n THEN n - m + 1 ELSE 0
      /\ \A i \in 1..(n - m + 1) : sub[i] = s[m + i - 1]
  BY <1>2, <1>3, SubSeqProperties
<1>5. n - m + 1 = l /\ (m <= n <=> l > 0) /\ \A i \in 1..l : m + i - 1 = a + i
  BY <1>1
<1>6. Len(sub) = l /\ \A i \in 1..l : sub[i] = s[a + i]
  <2>1. 1..(n - m + 1) = 1..l
    BY <1>5
  <2>2. \A i \in 1..l : sub[i] = s[a + i]
    BY <1>4, <1>5, <2>1
  <2>3. Len(sub) = l
    BY <1>4, <1>5
  <2> QED BY <2>2, <2>3
<1>7. sub = [i \in 1..l |-> sub[i]]
  BY <1>4, <1>6
<1> QED BY <1>1, <1>3, <1>6, <1>7

(* What a pass computes, in the three layouts. *)
LEMMA NewAt ==
    ASSUME len \in Nat, NEW kv_h \in KvHead, NEW j \in 0..(len - 1)
    PROVE  New[kv_h * len + j + 1] = Entry(request, offset + j, kv_h)
<1>1. len \in Nat \ {0} /\ KvHeads \in Nat /\ kv_h \in 0..(KvHeads - 1)
  BY AttentionAssumption DEF KvHead
<1>2. PICK n : n = kv_h * len + j + 1
  OBVIOUS
<1>3. n \in 1..(KvHeads * len) /\ (n - 1) \div len = kv_h /\ (n - 1) % len = j
  BY <1>1, <1>2, IndexOf
<1>4. New[n] = Entry(request, offset + j, kv_h)
  BY <1>3 DEF New
<1> QED BY <1>2, <1>4

LEMMA TransposedRows ==
    ASSUME len \in Nat
    PROVE  Transposed =
               [n \in 1..(len * KvHeads) |->
                   Entry(request, offset + ((n - 1) \div KvHeads),
                         (n - 1) % KvHeads)]
<1> DEFINE Row(n) == (n - 1) \div KvHeads
           Col(n) == (n - 1) % KvHeads
<1>1. ASSUME NEW n \in 1..(len * KvHeads)
      PROVE  New[Col(n) * len + Row(n) + 1] = Entry(request, offset + Row(n), Col(n))
  <2>1. KvHeads \in Nat \ {0} /\ n - 1 \in 0..(len * KvHeads - 1)
    BY AttentionAssumption
  <2>2. Row(n) \in 0..(len - 1) /\ Col(n) \in KvHead
    BY <2>1, RowAndColumn DEF KvHead
  <2> HIDE DEF Row, Col
  <2> QED BY <2>2, NewAt
<1> QED BY <1>1 DEF Transposed

LEMMA NewRows ==
    ASSUME len \in Nat, NEW kv_h \in KvHead
    PROVE  NewOf(kv_h) = [i \in 1..len |-> Entry(request, offset + (i - 1), kv_h)]
<1> DEFINE first == kv_h * len
<1>1. KvHeads \in Nat \ {0} /\ kv_h \in 0..(KvHeads - 1)
  BY AttentionAssumption DEF KvHead
<1>2. first \in Nat /\ (kv_h + 1) * len = first + len
  BY <1>1
<1>3. \A i \in 1..len : New[first + i] = Entry(request, offset + (i - 1), kv_h)
  <2>1. ASSUME NEW i \in 1..len
        PROVE  New[first + i] = Entry(request, offset + (i - 1), kv_h)
    <3>1. i - 1 \in 0..(len - 1) /\ first + (i - 1) + 1 = first + i
      BY <1>2
    <3> QED BY <3>1, NewAt
  <2> QED BY <2>1
<1>4. NewOf(kv_h) = SubSeq(New, first + 1, first + len)
  BY <1>2 DEF NewOf
<1> HIDE DEF first
<1>5. NewOf(kv_h) = [i \in 1..len |-> New[first + i]]
  BY <1>2, <1>4, SubSeqIs
<1> QED BY <1>3, <1>5

(* Appended to the rows of the positions before, they are the rows of all  *)
(* positions up to the end of the pass.                                    *)
LEMMA RowsGrow ==
    ASSUME len \in Nat, offset \in Nat
    PROVE  RowsUpTo(request, offset) \o Transposed = RowsUpTo(request, offset + len)
<1> DEFINE a == offset * KvHeads
           b == len * KvHeads
           old == RowsUpTo(request, offset)
           all == RowsUpTo(request, offset + len)
<1>1. KvHeads \in Nat \ {0}
  BY AttentionAssumption
<1>2. a \in Nat /\ b \in Nat /\ (offset + len) * KvHeads = a + b
  BY <1>1
<1>3. \A n \in 1..a : old[n] = all[n]
  BY <1>2 DEF RowsUpTo
<1>4. ASSUME NEW n \in (a + 1)..(a + b) PROVE Transposed[n - a] = all[n]
  <2> DEFINE m == n - a - 1
             q == m \div KvHeads
             r == m % KvHeads
  <2>1. m \in 0..(b - 1) /\ n - a \in 1..b /\ n - a - 1 = m
    BY <1>2
  <2>2. q \in 0..(len - 1) /\ r \in 0..(KvHeads - 1) /\ m = q * KvHeads + r
    BY <1>1, <2>1, RowAndColumn
  <2>3. Transposed[n - a] = Entry(request, offset + q, r)
    BY <2>1, TransposedRows
  <2> HIDE DEF q, r
  <2>4. n = (offset + q) * KvHeads + r + 1
    <3>1. (offset + q) * KvHeads = a + q * KvHeads /\ q * KvHeads \in Int
      BY <1>1, <2>2
    <3> QED BY <1>2, <2>1, <2>2, <3>1
  <2>5. offset + q \in 0..(offset + len - 1) /\ offset + len \in Nat
    BY <2>2
  <2>6. (n - 1) \div KvHeads = offset + q /\ (n - 1) % KvHeads = r
    BY <1>1, <2>2, <2>4, <2>5, IndexOf
  <2>7. all[n] = Entry(request, offset + q, r)
    BY <1>2, <2>6 DEF RowsUpTo
  <2> QED BY <2>3, <2>7
<1>5. old = [n \in 1..a |-> old[n]] /\ Len(old) = a
  BY <1>2 DEF RowsUpTo
<1>6. Transposed = [n \in 1..b |-> Transposed[n]] /\ Len(Transposed) = b
  BY <1>2, TransposedRows
<1>7. all = [n \in 1..(a + b) |-> all[n]]
  BY <1>2 DEF RowsUpTo
<1> HIDE DEF old, all, a, b
<1>8. old \o Transposed =
          [n \in 1..(a + b) |-> IF n <= a THEN old[n] ELSE Transposed[n - a]]
  BY <1>2, <1>5, <1>6
<1>9. \A n \in 1..(a + b) :
          (IF n <= a THEN old[n] ELSE Transposed[n - a]) = all[n]
  BY <1>2, <1>3, <1>4
<1> QED BY <1>7, <1>8, <1>9 DEF old, all

LEMMA HeadGrows ==
    ASSUME len \in Nat, offset \in Nat, NEW kv_h \in KvHead
    PROVE  HeadRows(request, offset, kv_h) \o NewOf(kv_h) =
               HeadRows(request, offset + len, kv_h)
<1> DEFINE old == HeadRows(request, offset, kv_h)
           all == HeadRows(request, offset + len, kv_h)
           new == [i \in 1..len |-> Entry(request, offset + (i - 1), kv_h)]
<1>1. old \o new = [n \in 1..(offset + len) |->
                       IF n <= offset THEN old[n] ELSE new[n - offset]]
  BY DEF HeadRows
<1>2. ASSUME NEW n \in 1..(offset + len)
      PROVE  (IF n <= offset THEN old[n] ELSE new[n - offset]) = Entry(request, n - 1, kv_h)
  <2>1. CASE n <= offset
    BY <2>1 DEF HeadRows
  <2>2. CASE ~(n <= offset)
    <3>1. n - offset \in 1..len /\ offset + (n - offset - 1) = n - 1
      BY <2>2
    <3>2. new[n - offset] = Entry(request, offset + (n - offset - 1), kv_h)
      BY <3>1
    <3> HIDE DEF new
    <3> QED BY <2>2, <3>1, <3>2
  <2> QED BY <2>1, <2>2
<1> HIDE DEF old, new
<1>3. old \o new = all
  BY <1>1, <1>2 DEF HeadRows
<1> QED BY <1>3, NewRows DEF old, new
-----------------------------------------------------------------------------
StateTypes ==
    /\ kind \in Kinds
    /\ request \in Request \cup {None}
    /\ usable \in BOOLEAN
    /\ next_position \in 0..ContextLength
    /\ len \in Nat
    /\ offset \in 0..ContextLength
    /\ layer \in 0..(Layers + 1)
    /\ kv_cache \in [1..Layers -> [KvHead -> Seq(Entries)]]
    /\ interleaved \in [1..Layers -> Seq(Entries)]
    /\ raw \in [1..Layers -> Seq(Entries)]

(* A pass is a prefill from position 0 or a decode of one token at the     *)
(* decoder's position, which it moves only at its end.                     *)
PassInv ==
    /\ usable => request \in Request /\ len > 0
    /\ layer > 0 => usable /\ next_position = offset /\ (offset = 0 \/ len = 1)
    /\ layer > 1 => offset + len <= ContextLength
    /\ layer = 0 /\ usable =>
           next_position = offset + len /\ next_position <= ContextLength

(* The number of positions in the cache of a layer: in the middle of a     *)
(* pass the layers behind it are ahead of the others.                      *)
Held(k) ==
    IF layer = 0 THEN next_position
    ELSE IF k < layer THEN offset + len
    ELSE offset

CacheHolds(k) ==
    IF kind = "qwen3_cpu" THEN raw[k] = RowsUpTo(request, Held(k))
    ELSE \A kv_h \in KvHead :
             kv_cache[k][kv_h] = HeadRows(request, Held(k), kv_h)

(* The flash kernel's cache counts in a prefill only, which finds it empty. *)
CacheInv ==
    /\ usable => \A k \in 1..Layers : CacheHolds(k)
    /\ layer > 0 /\ offset = 0 => \A k \in layer..Layers : interleaved[k] = <<>>

(* Once the first layer is done every head of every token has attended. *)
AttendInv ==
    /\ DOMAIN attended # {} =>
           /\ DOMAIN attended = QueryHead \X (0..(len - 1))
           /\ offset + len <= ContextLength
           /\ request \in Request
    /\ layer > 1 \/ (layer = 0 /\ usable) =>
           DOMAIN attended = QueryHead \X (0..(len - 1))
    /\ \A hi \in DOMAIN attended :
           attended[hi] = Prefix(request, offset + hi[2], KvHeadOf(hi[1]))

DecoderInv == StateTypes /\ PassInv /\ CacheInv /\ AttendInv

LEMMA EntryTypes ==
    ASSUME NEW r \in Request, NEW p \in 0..(ContextLength - 1), NEW kv_h \in KvHead
    PROVE  Entry(r, p, kv_h) \in Entries
BY DEF Entry, Entries

LEMMA RowsTypes ==
    ASSUME NEW r \in Request, NEW p \in 0..ContextLength
    PROVE  RowsUpTo(r, p) \in Seq(Entries)
<1>1. KvHeads \in Nat \ {0} /\ ContextLength \in Nat /\ p \in Nat /\ p * KvHeads \in Nat
  BY AttentionAssumption, DecoderAssumption
<1>2. \A n \in 1..(p * KvHeads) :
          Entry(r, (n - 1) \div KvHeads, (n - 1) % KvHeads) \in Entries
  <2>1. ASSUME NEW n \in 1..(p * KvHeads)
        PROVE  Entry(r, (n - 1) \div KvHeads, (n - 1) % KvHeads) \in Entries
    <3>1. n - 1 \in 0..(p * KvHeads - 1) /\ KvHeads \in Nat
      BY <1>1
    <3>2. (n - 1) \div KvHeads \in 0..(p - 1) /\ (n - 1) % KvHeads \in KvHead
      BY <1>1, <3>1, RowAndColumn DEF KvHead
    <3>3. (n - 1) \div KvHeads \in 0..(ContextLength - 1)
      BY <1>1, <3>2
    <3> QED BY <3>2, <3>3, EntryTypes
  <2> QED BY <2>1
<1> QED BY <1>1, <1>2 DEF RowsUpTo

LEMMA HeadRowsTypes ==
    ASSUME NEW r \in Request, NEW p \in 0..ContextLength, NEW kv_h \in KvHead
    PROVE  HeadRows(r, p, kv_h) \in Seq(Entries)
<1>1. ContextLength \in Nat
  BY DecoderAssumption
<1>2. \A n \in 1..p : Entry(r, n - 1, kv_h) \in Entries
  BY <1>1, EntryTypes
<1> QED BY <1>1, <1>2 DEF HeadRows

LEMMA TransposedTypes ==
    ASSUME len \in Nat, offset \in Nat, offset + len <= ContextLength,
           request \in Request
    PROVE  Transposed \in Seq(Entries)
<1>1. KvHeads \in Nat \ {0} /\ ContextLength \in Nat /\ len * KvHeads \in Nat
  BY AttentionAssumption, DecoderAssumption
<1> DEFINE e(n) == Entry(request, offset + ((n - 1) \div KvHeads), (n - 1) % KvHeads)
<1>2. \A n \in 1..(len * KvHeads) : e(n) \in Entries
  <2>1. ASSUME NEW n \in 1..(len * KvHeads) PROVE e(n) \in Entries
    <3>1. n - 1 \in 0..(len * KvHeads - 1) /\ KvHeads \in Nat
      BY <1>1
    <3>2. (n - 1) \div KvHeads \in 0..(len - 1) /\ (n - 1) % KvHeads \in KvHead
      BY <1>1, <3>1, RowAndColumn DEF KvHead
    <3>3. offset + ((n - 1) \div KvHeads) \in 0..(ContextLength - 1)
      BY <1>1, <3>2
    <3> QED BY <3>2, <3>3, EntryTypes
  <2> QED BY <2>1
<1>3. Transposed = [n \in 1..(len * KvHeads) |-> e(n)]
  BY TransposedRows
<1> HIDE DEF e
<1> QED BY <1>1, <1>2, <1>3

LEMMA TypesFollow == DecoderInv => TypeOK
<1> SUFFICES ASSUME DecoderInv
             PROVE  \A hi \in DOMAIN attended :
                        \A j \in DOMAIN attended[hi] : attended[hi][j] \in Entries
  BY DEF DecoderInv, StateTypes, TypeOK
<1> TAKE hi \in DOMAIN attended
<1>1. /\ hi \in QueryHead \X (0..(len - 1))
      /\ offset + len <= ContextLength /\ request \in Request
      /\ attended[hi] = Prefix(request, offset + hi[2], KvHeadOf(hi[1]))
      /\ len \in Nat /\ offset \in Nat /\ ContextLength \in Nat
  BY DecoderAssumption DEF DecoderInv, AttendInv, StateTypes
<1>2. hi[1] \in QueryHead /\ hi[2] \in 0..(len - 1)
  BY <1>1
<1>3. KvHeadOf(hi[1]) \in KvHead
  BY <1>2, HeadOfGroup
<1>4. \A j \in 0..(offset + hi[2]) : j \in 0..(ContextLength - 1)
  BY <1>1, <1>2
<1> QED BY <1>1, <1>3, <1>4, EntryTypes DEF Prefix

LEMMA InitHolds == Init => DecoderInv
<1> SUFFICES ASSUME Init PROVE DecoderInv
  OBVIOUS
<1>1. <<>> \in Seq(Entries)
  OBVIOUS
<1>2. StateTypes
  <2>1. NoKv \in [1..Layers -> [KvHead -> Seq(Entries)]]
    BY <1>1 DEF NoKv
  <2>2. Empty \in [1..Layers -> Seq(Entries)]
    BY <1>1 DEF Empty
  <2>3. Layers \in Nat /\ ContextLength \in Nat
    BY DecoderAssumption
  <2>4. /\ kind \in Kinds /\ request = None /\ usable = FALSE
        /\ next_position = 0 /\ len = 0 /\ offset = 0 /\ layer = 0
        /\ kv_cache = NoKv /\ interleaved = Empty /\ raw = Empty
    BY DEF Init
  <2>5. /\ kv_cache \in [1..Layers -> [KvHead -> Seq(Entries)]]
        /\ interleaved \in [1..Layers -> Seq(Entries)]
        /\ raw \in [1..Layers -> Seq(Entries)]
    BY <2>1, <2>2, <2>4
  <2>6. /\ next_position \in 0..ContextLength /\ len \in Nat
        /\ offset \in 0..ContextLength /\ layer \in 0..(Layers + 1)
    BY <2>3, <2>4
  <2>7. request \in Request \cup {None} /\ usable \in BOOLEAN
    BY <2>4
  <2> QED BY <2>4, <2>5, <2>6, <2>7 DEF StateTypes
<1>3. DOMAIN attended = {}
  BY DEF Init
<1>4. PassInv /\ CacheInv
  BY DEF Init, PassInv, CacheInv
<1>5. AttendInv
  BY <1>3 DEF Init, AttendInv
<1> QED BY <1>2, <1>4, <1>5 DEF DecoderInv
-----------------------------------------------------------------------------
LEMMA PrefillKeeps ==
    ASSUME DecoderInv, UNCHANGED kind, NEW r \in Request, NEW n \in 0..MaxPrompt,
           Prefill(r, n)
    PROVE  DecoderInv'
<1>1. n \in Nat /\ ContextLength \in Nat /\ Layers \in Nat \ {0}
  BY DecoderAssumption
<1>2. /\ request' = r /\ next_position' = 0 /\ usable' = (n > 0) /\ len' = n
      /\ offset' = 0 /\ layer' = (IF n > 0 THEN 1 ELSE 0)
      /\ kv_cache' = NoKv /\ interleaved' = Empty /\ raw' = Empty
      /\ DOMAIN attended' = {}
  BY DEF Prefill, ClearKvCache
<1>3. <<>> \in Seq(Entries)
  OBVIOUS
<1>4. NoKv \in [1..Layers -> [KvHead -> Seq(Entries)]]
  BY <1>3 DEF NoKv
<1>5. Empty \in [1..Layers -> Seq(Entries)]
  BY <1>3 DEF Empty
<1>6. StateTypes'
  <2>1. /\ kv_cache' \in [1..Layers -> [KvHead -> Seq(Entries)]]
        /\ interleaved' \in [1..Layers -> Seq(Entries)]
        /\ raw' \in [1..Layers -> Seq(Entries)]
    BY <1>2, <1>4, <1>5
  <2>2. /\ next_position' \in 0..ContextLength /\ len' \in Nat
        /\ offset' \in 0..ContextLength /\ layer' \in 0..(Layers + 1)
        /\ usable' \in BOOLEAN /\ request' \in Request
    BY <1>1, <1>2
  <2>3. kind' \in Kinds
    BY DEF DecoderInv, StateTypes
  <2> QED BY <2>1, <2>2, <2>3 DEF StateTypes
<1>7. PassInv'
  <2>1. CASE n = 0
    <3>1. ~usable'
      <4>1. ~(n > 0) /\ usable' = (n > 0)
        BY <1>2, <2>1
      <4> QED BY <4>1, Zenon
    <3>2. layer' = 0
      BY <1>2, <2>1
    <3> QED BY <3>1, <3>2 DEF PassInv
  <2>2. CASE n > 0
    <3>1. layer' = 1 /\ len' > 0 /\ next_position' = 0 /\ offset' = 0 /\ usable'
      BY <1>2, <2>2
    <3> QED BY <1>2, <3>1 DEF PassInv
  <2> QED BY <1>1, <2>1, <2>2
<1>8. CacheInv'
  <2>1. \A k \in 1..Layers : Empty[k] = <<>>
    BY DEF Empty
  <2>2. \A k \in 1..Layers : \A kv_h \in KvHead : NoKv[k][kv_h] = <<>>
    BY DEF NoKv
  <2>3. RowsUpTo(r, 0) = <<>>
    <3>1. 0 * KvHeads = 0
      BY AttentionAssumption
    <3> QED BY <3>1 DEF RowsUpTo
  <2>4. \A kv_h \in KvHead : HeadRows(r, 0, kv_h) = <<>>
    BY DEF HeadRows
  <2>5. ASSUME NEW k \in 1..Layers PROVE CacheHolds(k)'
    <3>1. Held(k)' = 0
      BY <1>1, <1>2 DEF Held
    <3> QED BY <1>2, <2>1, <2>2, <2>3, <2>4, <3>1 DEF CacheHolds
  <2> QED BY <1>1, <1>2, <2>1, <2>5 DEF CacheInv
<1>9. AttendInv'
  BY <1>1, <1>2 DEF AttendInv
<1> QED BY <1>6, <1>7, <1>8, <1>9 DEF DecoderInv

LEMMA DecodeKeeps ==
    ASSUME DecoderInv, UNCHANGED kind, Decode
    PROVE  DecoderInv'
<1>1. ContextLength \in Nat /\ Layers \in Nat \ {0}
  BY DecoderAssumption
<1>2. /\ layer = 0 /\ usable /\ len' = 1 /\ offset' = next_position /\ layer' = 1
      /\ UNCHANGED <<request, usable, next_position, kv_cache, interleaved, raw>>
      /\ DOMAIN attended' = {}
  BY DEF Decode, caches
<1>3. /\ StateTypes /\ PassInv /\ CacheInv
      /\ next_position = offset + len /\ next_position \in 1..ContextLength
  BY <1>2 DEF DecoderInv, PassInv, StateTypes
<1>4. StateTypes'
  BY <1>1, <1>2, <1>3 DEF StateTypes
<1>5. PassInv'
  BY <1>1, <1>2, <1>3 DEF PassInv
<1>6. CacheInv'
  <2>1. ASSUME NEW k \in 1..Layers PROVE CacheHolds(k)'
    <3>1. CacheHolds(k)
      BY <1>2, <1>3 DEF CacheInv
    <3>2. Held(k)' = Held(k)
      BY <1>1, <1>2 DEF Held
    <3> QED BY <1>2, <3>1, <3>2 DEF CacheHolds
  <2>2. offset' # 0
    BY <1>2, <1>3
  <2> QED BY <2>1, <2>2 DEF CacheInv
<1>7. AttendInv'
  BY <1>1, <1>2 DEF AttendInv
<1> QED BY <1>4, <1>5, <1>6, <1>7 DEF DecoderInv

(* What is known in a layer before its writes. *)
LEMMA InsideLayer ==
    ASSUME DecoderInv, layer \in 1..Layers
    PROVE  /\ usable /\ request \in Request /\ len \in Nat \ {0} /\ offset \in Nat
           /\ len > 1 => offset = 0
           /\ kind = "qwen3_cpu" => raw[layer] = RowsUpTo(request, offset)
           /\ kind # "qwen3_cpu" => \A kv_h \in KvHead :
                  kv_cache[layer][kv_h] = HeadRows(request, offset, kv_h)
           /\ offset = 0 => interleaved[layer] = RowsUpTo(request, 0)
<1>1. ContextLength \in Nat /\ Layers \in Nat \ {0}
  BY DecoderAssumption
<1>2. /\ usable /\ request \in Request /\ len \in Nat \ {0} /\ offset \in Nat
      /\ len > 1 => offset = 0
  BY <1>1 DEF DecoderInv, PassInv, StateTypes
<1>3. CacheHolds(layer) /\ Held(layer) = offset
  BY <1>1, <1>2 DEF DecoderInv, CacheInv, Held
<1>4. RowsUpTo(request, 0) = <<>>
  <2>1. 0 * KvHeads = 0
    BY AttentionAssumption
  <2> QED BY <2>1 DEF RowsUpTo
<1>5. offset = 0 => interleaved[layer] = <<>>
  BY <1>1 DEF DecoderInv, CacheInv
<1> QED BY <1>2, <1>3, <1>4, <1>5 DEF CacheHolds

(* A layer that appends the pass to its cache and attends to the prefixes  *)
(* keeps the invariant, whatever the kernel.                               *)
LEMMA LayerKeeps ==
    ASSUME DecoderInv, layer \in 1..Layers, InContext, layer' = layer + 1,
           UNCHANGED <<kind, request, usable, next_position, len, offset>>,
           kv_cache' \in [1..Layers -> [KvHead -> Seq(Entries)]],
           interleaved' \in [1..Layers -> Seq(Entries)],
           raw' \in [1..Layers -> Seq(Entries)],
           \A k \in 1..Layers : k # layer =>
               /\ kv_cache'[k] = kv_cache[k]
               /\ interleaved'[k] = interleaved[k]
               /\ raw'[k] = raw[k],
           kind = "qwen3_cpu" => raw'[layer] = RowsUpTo(request, offset + len),
           kind # "qwen3_cpu" => \A kv_h \in KvHead :
               kv_cache'[layer][kv_h] = HeadRows(request, offset + len, kv_h),
           DOMAIN attended' = QueryHead \X (0..(len - 1)),
           \A hi \in QueryHead \X (0..(len - 1)) :
               attended'[hi] = Prefix(request, offset + hi[2], KvHeadOf(hi[1]))
    PROVE  DecoderInv'
<1>1. ContextLength \in Nat /\ Layers \in Nat \ {0}
  BY DecoderAssumption
<1>2. StateTypes /\ PassInv /\ CacheInv
  BY DEF DecoderInv
<1>3. /\ usable /\ request \in Request /\ len \in Nat \ {0} /\ offset \in Nat
      /\ offset + len <= ContextLength
  BY InsideLayer DEF InContext
<1>4. StateTypes'
  BY <1>1, <1>2 DEF StateTypes
<1>5. PassInv'
  BY <1>1, <1>2, <1>3 DEF PassInv
<1>6. CacheInv'
  <2>1. ASSUME NEW k \in 1..Layers PROVE CacheHolds(k)'
    <3>1. CASE k = layer
      <4>1. Held(k)' = offset + len
        BY <1>1, <3>1 DEF Held
      <4> QED BY <3>1, <4>1 DEF CacheHolds
    <3>2. CASE k # layer
      <4>1. Held(k)' = Held(k)
        BY <1>1, <3>2 DEF Held
      <4>2. CacheHolds(k)
        BY <1>2, <1>3 DEF CacheInv
      <4>3. kv_cache'[k] = kv_cache[k] /\ raw'[k] = raw[k]
        BY <3>2
      <4> QED BY <4>1, <4>2, <4>3 DEF CacheHolds
    <3> QED BY <3>1, <3>2
  <2>2. ASSUME offset = 0, NEW k \in (layer + 1)..Layers
        PROVE  interleaved'[k] = <<>>
    <3>1. k \in layer..Layers /\ k \in 1..Layers /\ k # layer
      BY <1>1, <2>2
    <3>2. interleaved[k] = <<>>
      BY <1>1, <1>2, <2>2, <3>1 DEF CacheInv
    <3>3. interleaved'[k] = interleaved[k]
      BY <3>1
    <3> QED BY <3>2, <3>3
  <2> QED BY <2>1, <2>2 DEF CacheInv
<1>7. AttendInv'
  BY <1>3 DEF AttendInv
<1> QED BY <1>4, <1>5, <1>6, <1>7 DEF DecoderInv
(* One token on the CPU. *)
LEMMA FusedDecodeKeeps ==
    ASSUME DecoderInv, UNCHANGED kind, FusedDecode
    PROVE  DecoderInv'
<1>1. /\ kind = "qwen3_cpu" /\ layer \in 1..Layers /\ InContext /\ len = 1
      /\ layer' = layer + 1
      /\ UNCHANGED <<kind, request, usable, next_position, len, offset>>
      /\ UNCHANGED <<kv_cache, interleaved>>
      /\ raw' = [raw EXCEPT ![layer] = @ \o Transposed]
  BY DEF FusedDecode, InLayer
<1>2. attended' = [hi \in QueryHead \X (0..(len - 1)) |->
                       GqaDecode(raw'[layer], Len(raw'[layer]) \div KvHeads, hi[1])]
  BY DEF FusedDecode, Attend
<1>3. /\ request \in Request /\ offset \in Nat /\ len \in Nat
      /\ offset + len \in 0..ContextLength
      /\ raw[layer] = RowsUpTo(request, offset) /\ StateTypes
  BY <1>1, InsideLayer, DecoderAssumption DEF InContext, DecoderInv
<1>4. raw'[layer] = RowsUpTo(request, offset + len)
  <2>1. raw'[layer] = raw[layer] \o Transposed
    BY <1>1, <1>3 DEF StateTypes
  <2> QED BY <1>3, <2>1, RowsGrow
<1>5. raw' \in [1..Layers -> Seq(Entries)]
  <2>1. raw'[layer] \in Seq(Entries)
    BY <1>3, <1>4, RowsTypes
  <2>2. raw' = [raw EXCEPT ![layer] = raw'[layer]]
    BY <1>1, <1>3 DEF StateTypes
  <2> QED BY <1>3, <2>1, <2>2 DEF StateTypes
<1>6. /\ DOMAIN attended' = QueryHead \X (0..(len - 1))
      /\ \A hi \in QueryHead \X (0..(len - 1)) :
             attended'[hi] = Prefix(request, offset + hi[2], KvHeadOf(hi[1]))
  <2>1. ASSUME NEW hi \in QueryHead \X (0..(len - 1))
        PROVE  attended'[hi] = Prefix(request, offset + hi[2], KvHeadOf(hi[1]))
    <3>1. hi[1] \in QueryHead /\ hi[2] = 0
      BY <1>1
    <3>2. /\ Len(RowsUpTo(request, offset + 1)) \div KvHeads = offset + 1
          /\ GqaDecode(RowsUpTo(request, offset + 1), offset + 1, hi[1]) =
                 Prefix(request, offset + 1 - 1, KvHeadOf(hi[1]))
      BY <1>3, <3>1, GqaDecodeAttends
    <3>3. attended'[hi] =
              GqaDecode(raw'[layer], Len(raw'[layer]) \div KvHeads, hi[1])
      BY <1>2
    <3>4. offset + 1 - 1 = offset + hi[2]
      BY <1>3, <3>1
    <3> QED BY <1>1, <1>4, <3>2, <3>3, <3>4
  <2> QED BY <1>2, <2>1
<1>7. \A k \in 1..Layers : k # layer => raw'[k] = raw[k]
  BY <1>1, <1>3 DEF StateTypes
<1> QED BY <1>1, <1>3, <1>4, <1>5, <1>6, <1>7, LayerKeeps DEF StateTypes

(* A prefill of several tokens on the CPU, with either kernel. *)
LEMMA PrefillLayerKeeps ==
    ASSUME DecoderInv, UNCHANGED kind, PrefillLayer
    PROVE  DecoderInv'
<1>1. /\ kind = "qwen3_cpu" /\ layer \in 1..Layers /\ InContext /\ len > 1
      /\ layer' = layer + 1
      /\ UNCHANGED <<kind, request, usable, next_position, len, offset>>
      /\ UNCHANGED kv_cache
      /\ raw' = [raw EXCEPT ![layer] = @ \o Transposed]
      /\ interleaved' = [interleaved EXCEPT ![layer] = @ \o Transposed]
  BY DEF PrefillLayer, InLayer
<1>2. \/ attended' = [hi \in QueryHead \X (0..(len - 1)) |->
                         BlockedCausal(New, len, hi[1], hi[2])]
      \/ attended' = [hi \in QueryHead \X (0..(len - 1)) |->
                         Flash(interleaved'[layer], offset, hi[1], hi[2])]
  BY DEF PrefillLayer, Attend
<1>3. /\ request \in Request /\ offset = 0 /\ offset \in Nat /\ len \in Nat
      /\ offset + len \in 0..ContextLength
      /\ raw[layer] = RowsUpTo(request, offset) /\ StateTypes
      /\ interleaved[layer] = RowsUpTo(request, offset)
  BY <1>1, InsideLayer, DecoderAssumption DEF InContext, DecoderInv
<1>4. /\ raw'[layer] = RowsUpTo(request, offset + len)
      /\ interleaved'[layer] = RowsUpTo(request, offset + len)
  <2>1. /\ raw'[layer] = raw[layer] \o Transposed
        /\ interleaved'[layer] = interleaved[layer] \o Transposed
    BY <1>1, <1>3 DEF StateTypes
  <2> QED BY <1>3, <2>1, RowsGrow
<1>5. /\ raw' \in [1..Layers -> Seq(Entries)]
      /\ interleaved' \in [1..Layers -> Seq(Entries)]
  <2>1. raw'[layer] \in Seq(Entries) /\ interleaved'[layer] \in Seq(Entries)
    BY <1>3, <1>4, RowsTypes
  <2>2. /\ raw' = [raw EXCEPT ![layer] = raw'[layer]]
        /\ interleaved' = [interleaved EXCEPT ![layer] = interleaved'[layer]]
    BY <1>1, <1>3 DEF StateTypes
  <2> QED BY <1>3, <2>1, <2>2 DEF StateTypes
<1>6. /\ DOMAIN attended' = QueryHead \X (0..(len - 1))
      /\ \A hi \in QueryHead \X (0..(len - 1)) :
             attended'[hi] = Prefix(request, offset + hi[2], KvHeadOf(hi[1]))
  <2>1. ASSUME NEW hi \in QueryHead \X (0..(len - 1))
        PROVE  attended'[hi] = Prefix(request, offset + hi[2], KvHeadOf(hi[1]))
    <3>1. hi[1] \in QueryHead /\ hi[2] \in 0..(len - 1) /\ hi[2] \in Nat
      OBVIOUS
    <3>2. BlockedCausal(New, len, hi[1], hi[2]) =
              Prefix(request, offset + hi[2], KvHeadOf(hi[1]))
      <4>1. Updated(len, hi[2]) = 0..hi[2]
        BY <1>3, <3>1, BlocksUpdate
      <4>2. \A j \in 0..hi[2] : New[KvHeadOf(hi[1]) * len + j + 1] =
                                    Entry(request, offset + j, KvHeadOf(hi[1]))
        BY <1>3, <3>1, HeadOfGroup, NewAt
      <4>3. \A j \in 0..hi[2] : offset + j = j
        BY <1>3
      <4>4. offset + hi[2] = hi[2]
        BY <1>3, <3>1
      <4> QED BY <4>1, <4>2, <4>3, <4>4 DEF BlockedCausal, Prefix
    <3>3. Flash(interleaved'[layer], offset, hi[1], hi[2]) =
              Prefix(request, offset + hi[2], KvHeadOf(hi[1]))
      <4>1. offset + hi[2] < offset + len /\ offset + len \in Nat
        BY <1>3, <3>1
      <4> QED BY <1>3, <1>4, <3>1, <4>1, FlashAttends
    <3>4. \/ attended'[hi] = BlockedCausal(New, len, hi[1], hi[2])
          \/ attended'[hi] = Flash(interleaved'[layer], offset, hi[1], hi[2])
      BY <1>2
    <3> QED BY <3>2, <3>3, <3>4
  <2> QED BY <1>2, <2>1
<1>7. \A k \in 1..Layers : k # layer =>
          raw'[k] = raw[k] /\ interleaved'[k] = interleaved[k]
  BY <1>1, <1>3 DEF StateTypes
<1> QED BY <1>1, <1>3, <1>4, <1>5, <1>6, <1>7, LayerKeeps DEF StateTypes

(* Matmul attention, of Qwen3 elsewhere and of Llama, which starts its     *)
(* cache anew at position 0: there it was empty anyway.                    *)
LEMMA ConcatLayerKeeps ==
    ASSUME DecoderInv, UNCHANGED kind, MatmulLayer \/ LlamaLayer
    PROVE  DecoderInv'
<1>1. /\ kind # "qwen3_cpu" /\ layer \in 1..Layers /\ InContext
      /\ layer' = layer + 1
      /\ UNCHANGED <<kind, request, usable, next_position, len, offset>>
      /\ UNCHANGED <<interleaved, raw>>
  BY DEF MatmulLayer, LlamaLayer, InLayer
<1>2. attended' = [hi \in QueryHead \X (0..(len - 1)) |->
                       MatmulAttention(kv_cache'[layer], len, offset, hi[1], hi[2])]
  BY DEF MatmulLayer, LlamaLayer, AttendConcat, Attend
<1>3. /\ request \in Request /\ offset \in Nat /\ len \in Nat
      /\ offset + len \in 0..ContextLength /\ StateTypes
      /\ \A kv_h \in KvHead :
             kv_cache[layer][kv_h] = HeadRows(request, offset, kv_h)
  BY <1>1, InsideLayer, DecoderAssumption DEF InContext, DecoderInv
<1> DEFINE all == [kv_h \in KvHead |-> HeadRows(request, offset + len, kv_h)]
<1>4. kv_cache' = [kv_cache EXCEPT ![layer] = all]
  <2>1. \A kv_h \in KvHead :
            kv_cache[layer][kv_h] \o NewOf(kv_h) =
                HeadRows(request, offset + len, kv_h)
    BY <1>3, HeadGrows
  <2>2. CASE MatmulLayer
    <3>1. kv_cache' = [kv_cache EXCEPT ![layer] =
              [kv_h \in KvHead |-> kv_cache[layer][kv_h] \o NewOf(kv_h)]]
      BY <1>1, <1>3, <2>2 DEF MatmulLayer, StateTypes
    <3>2. [kv_h \in KvHead |-> kv_cache[layer][kv_h] \o NewOf(kv_h)] = all
      BY <2>1
    <3> QED BY <3>1, <3>2
  <2>3. CASE LlamaLayer
    <3>1. kv_cache' = [kv_cache EXCEPT ![layer] =
              [kv_h \in KvHead |->
                  IF offset = 0 THEN NewOf(kv_h)
                  ELSE kv_cache[layer][kv_h] \o NewOf(kv_h)]]
      BY <1>1, <1>3, <2>3 DEF LlamaLayer, StateTypes
    <3>2. ASSUME NEW kv_h \in KvHead, offset = 0
          PROVE  NewOf(kv_h) = HeadRows(request, offset + len, kv_h)
      <4>1. \A i \in 1..len : offset + (i - 1) = i - 1
        BY <1>3, <3>2
      <4>2. offset + len = len
        BY <1>3, <3>2
      <4> QED BY <1>3, <4>1, <4>2, NewRows DEF HeadRows
    <3>3. [kv_h \in KvHead |->
              IF offset = 0 THEN NewOf(kv_h)
              ELSE kv_cache[layer][kv_h] \o NewOf(kv_h)] = all
      BY <2>1, <3>2
    <3> QED BY <3>1, <3>3
  <2> QED BY <2>2, <2>3
<1>5. all \in [KvHead -> Seq(Entries)]
  BY <1>3, HeadRowsTypes
<1>6. \A kv_h \in KvHead : all[kv_h] = HeadRows(request, offset + len, kv_h)
  OBVIOUS
<1> HIDE DEF all
<1>7. kv_cache' \in [1..Layers -> [KvHead -> Seq(Entries)]]
  BY <1>3, <1>4, <1>5 DEF StateTypes
<1>8. kv_cache'[layer] = all
  BY <1>1, <1>3, <1>4 DEF StateTypes
<1>9. /\ DOMAIN attended' = QueryHead \X (0..(len - 1))
      /\ \A hi \in QueryHead \X (0..(len - 1)) :
             attended'[hi] = Prefix(request, offset + hi[2], KvHeadOf(hi[1]))
  <2>1. ASSUME NEW hi \in QueryHead \X (0..(len - 1))
        PROVE  attended'[hi] = Prefix(request, offset + hi[2], KvHeadOf(hi[1]))
    <3>1. hi[1] \in QueryHead /\ hi[2] \in 0..(len - 1)
      OBVIOUS
    <3>2. all[KvHeadOf(hi[1])] = HeadRows(request, offset + len, KvHeadOf(hi[1]))
      BY <1>6, <3>1, HeadOfGroup
    <3>3. MatmulAttention(all, len, offset, hi[1], hi[2]) =
              Prefix(request, offset + hi[2], KvHeadOf(hi[1]))
      BY <1>3, <3>1, <3>2, MatmulAttends
    <3>4. attended'[hi] = MatmulAttention(kv_cache'[layer], len, offset, hi[1], hi[2])
      BY <1>2
    <3> QED BY <1>8, <3>3, <3>4
  <2> QED BY <1>2, <2>1
<1>10. \A k \in 1..Layers : k # layer => kv_cache'[k] = kv_cache[k]
  BY <1>1, <1>3, <1>4 DEF StateTypes
<1> QED BY <1>1, <1>3, <1>6, <1>7, <1>8, <1>9, <1>10, LayerKeeps DEF StateTypes

LEMMA FinishPassKeeps ==
    ASSUME DecoderInv, UNCHANGED kind, FinishPass
    PROVE  DecoderInv'
<1>1. ContextLength \in Nat /\ Layers \in Nat \ {0}
  BY DecoderAssumption
<1>2. /\ layer = Layers + 1 /\ layer' = 0
      /\ next_position' = (IF offset = 0 THEN len ELSE next_position + 1)
      /\ UNCHANGED <<request, usable, len, offset, attended>>
      /\ UNCHANGED <<kv_cache, interleaved, raw>>
  BY DEF FinishPass, caches
<1>3. StateTypes /\ PassInv /\ CacheInv /\ AttendInv
  BY DEF DecoderInv
<1>4. /\ usable /\ len \in Nat /\ offset \in Nat /\ offset + len <= ContextLength
      /\ next_position' = offset + len
  BY <1>1, <1>2, <1>3 DEF StateTypes, PassInv
<1>5. StateTypes'
  BY <1>1, <1>2, <1>3, <1>4 DEF StateTypes
<1>6. PassInv'
  BY <1>1, <1>2, <1>3, <1>4 DEF PassInv
<1>7. CacheInv'
  <2>1. ASSUME NEW k \in 1..Layers PROVE CacheHolds(k)'
    <3>1. CacheHolds(k)
      BY <1>3, <1>4 DEF CacheInv
    <3>2. Held(k)' = Held(k)
      BY <1>1, <1>2, <1>4 DEF Held
    <3> QED BY <1>2, <3>1, <3>2 DEF CacheHolds
  <2> QED BY <1>2, <2>1 DEF CacheInv
<1>8. AttendInv'
  BY <1>1, <1>2, <1>3, <1>4 DEF AttendInv
<1> QED BY <1>5, <1>6, <1>7, <1>8 DEF DecoderInv

LEMMA FailKeeps ==
    ASSUME DecoderInv, UNCHANGED kind, Fail
    PROVE  DecoderInv'
<1>1. ContextLength \in Nat /\ Layers \in Nat \ {0}
  BY DecoderAssumption
<1>2. /\ layer > 0 /\ layer' = 0 /\ usable' = FALSE
      /\ UNCHANGED <<request, next_position, len, offset, kv_cache, raw, attended>>
  BY DEF Fail
<1>3. StateTypes /\ PassInv /\ AttendInv
  BY DEF DecoderInv
<1>4. interleaved' \in [1..Layers -> Seq(Entries)]
  <2>1. CASE UNCHANGED interleaved
    BY <1>3, <2>1 DEF StateTypes
  <2>2. CASE /\ layer <= Layers /\ InContext
             /\ interleaved' = [interleaved EXCEPT ![layer] = @ \o Transposed]
    <3>1. layer \in 1..Layers
      BY <1>1, <1>2, <1>3, <2>2 DEF StateTypes
    <3>2. Transposed \in Seq(Entries)
      BY <2>2, <3>1, InsideLayer, TransposedTypes DEF InContext
    <3>3. interleaved[layer] \o Transposed \in Seq(Entries)
      BY <1>3, <3>1, <3>2 DEF StateTypes
    <3> QED BY <1>3, <2>2, <3>3 DEF StateTypes
  <2> QED BY <2>1, <2>2 DEF Fail
<1>5. StateTypes'
  <2>1. usable' \in BOOLEAN
    BY <1>2, Zenon
  <2>2. layer' \in 0..(Layers + 1)
    BY <1>1, <1>2
  <2>3. /\ kind' \in Kinds /\ request' \in Request \cup {None}
        /\ next_position' \in 0..ContextLength /\ len' \in Nat
        /\ offset' \in 0..ContextLength
        /\ kv_cache' \in [1..Layers -> [KvHead -> Seq(Entries)]]
        /\ raw' \in [1..Layers -> Seq(Entries)]
    BY <1>2, <1>3 DEF StateTypes
  <2> QED BY <1>4, <2>1, <2>2, <2>3 DEF StateTypes
<1>6. PassInv' /\ CacheInv'
  BY <1>2 DEF PassInv, CacheInv
<1>7. AttendInv'
  BY <1>2, <1>3 DEF AttendInv
<1> QED BY <1>5, <1>6, <1>7 DEF DecoderInv

LEMMA StepHolds == DecoderInv /\ [Next]_vars => DecoderInv'
<1> SUFFICES ASSUME DecoderInv, [Next]_vars PROVE DecoderInv'
  OBVIOUS
<1>1. CASE Next
  <2>1. UNCHANGED kind /\ Step
    BY <1>1 DEF Next
  <2> QED BY <2>1, PrefillKeeps, DecodeKeeps, FusedDecodeKeeps, PrefillLayerKeeps,
             ConcatLayerKeeps, FinishPassKeeps, FailKeeps DEF Step, Layer
<1>2. CASE UNCHANGED vars
  <2>1. /\ UNCHANGED <<kind, request, usable, next_position, len, offset, layer>>
        /\ UNCHANGED <<kv_cache, interleaved, raw, attended>>
    BY <1>2 DEF vars
  <2>2. StateTypes' = StateTypes /\ PassInv' = PassInv /\ AttendInv' = AttendInv
    BY <2>1 DEF StateTypes, PassInv, AttendInv
  <2>3. CacheInv' = CacheInv
    BY <2>1 DEF CacheInv, CacheHolds, Held
  <2> QED BY <2>2, <2>3 DEF DecoderInv
<1> QED BY <1>1, <1>2
-----------------------------------------------------------------------------
LEMMA AttendFollows == DecoderInv => AttendsOwnPrefix
<1> SUFFICES ASSUME DecoderInv, NEW hi \in DOMAIN attended
             PROVE  \E kv_h \in KvHead :
                        /\ hi[1] \in (kv_h * Groups)..((kv_h + 1) * Groups - 1)
                        /\ attended[hi] = [j \in 0..(offset + hi[2]) |->
                                               Entry(request, j, kv_h)]
  BY DEF AttendsOwnPrefix
<1>1. /\ hi \in QueryHead \X (0..(len - 1))
      /\ attended[hi] = Prefix(request, offset + hi[2], KvHeadOf(hi[1]))
  BY DEF DecoderInv, AttendInv
<1>2. hi[1] \in QueryHead
  BY <1>1
<1> QED BY <1>1, <1>2, HeadOfGroup DEF Prefix

LEMMA CachesFollow == DecoderInv => CachesFollowPosition
<1> SUFFICES ASSUME DecoderInv, usable, layer = 0, NEW k \in 1..Layers
             PROVE  IF kind = "qwen3_cpu"
                    THEN raw[k] = RowsUpTo(request, next_position)
                    ELSE \A kv_h \in KvHead :
                             kv_cache[k][kv_h] = HeadRows(request, next_position, kv_h)
  BY DEF CachesFollowPosition, RowsUpTo, HeadRows
<1> QED BY DEF DecoderInv, CacheInv, CacheHolds, Held

(* A profiled decoder takes the steps of the decoder, or none of it. *)
LEMMA ProfiledSteps == [ProfiledNext]_profiledVars => [Next]_vars
BY DEF ProfiledNext, profiledVars, Logits, DecoderStep, CountStep, Snapshot

LEMMA ProfiledDecoderInv == ProfiledSpec => []DecoderInv
<1>1. ProfiledInit => DecoderInv
  BY InitHolds DEF ProfiledInit
<1>2. DecoderInv /\ [ProfiledNext]_profiledVars => DecoderInv'
  BY StepHolds, ProfiledSteps
<1> QED BY <1>1, <1>2, PTL DEF ProfiledSpec

(* At every moment of every pass, on every one of the four attention paths *)
(* and after any failure, each head of a token attends to exactly the      *)
(* positions of its own request up to the token, as its own key/value head *)
(* sees them (forward of the attention layers over their caches).          *)
THEOREM EveryHeadAttendsItsPrefix == ProfiledSpec => []AttendsOwnPrefix
BY ProfiledDecoderInv, AttendFollows, PTL

(* Between the passes of a request that may still decode, every layer's    *)
(* cache holds one row per head for each position before next_position, in *)
(* order: the next decode appends at the right place (prefill, decode).    *)
THEOREM CachesKeepUp == ProfiledSpec => []CachesFollowPosition
BY ProfiledDecoderInv, CachesFollow, PTL
-----------------------------------------------------------------------------
(* What the logits of the decoder depend on, as the invariant has it. *)
Evaluated ==
    IF usable
    THEN Promise!Tokens(request, IF layer = 0 THEN next_position ELSE offset)
    ELSE <<>>

LEMMA ContextIs == DecoderInv => Context = Evaluated
<1> SUFFICES ASSUME DecoderInv PROVE Context = Evaluated
  OBVIOUS
<1> USE DEF Evaluated
<1>1. /\ next_position \in Nat /\ len \in Nat /\ offset \in Nat /\ layer \in Nat
      /\ layer > 0 => usable
  BY DecoderAssumption DEF DecoderInv, StateTypes, PassInv
<1>2. CASE layer > 0
  <2>1. Context = [i \in 1..offset |-> [request |-> request, position |-> i - 1]]
    BY <1>1, <1>2 DEF Context
  <2> QED BY <1>1, <1>2, <2>1 DEF Promise!Tokens, Promise!Token
<1>3. CASE layer = 0 /\ ~usable
  BY <1>3 DEF Context
<1>4. CASE layer = 0 /\ usable
  <2>1. /\ next_position = offset + len /\ len > 0
        /\ DOMAIN attended = QueryHead \X (0..(len - 1))
    BY <1>4 DEF DecoderInv, PassInv, AttendInv
  <2>2. ASSUME NEW h \in QueryHead
        PROVE  Seen(h) = Promise!Tokens(request, next_position)
    <3> DEFINE row == attended[<<h, len - 1>>]
               last == offset + (len - 1)
    <3>1. <<h, len - 1>> \in DOMAIN attended
      BY <1>1, <2>1
    <3>2. row = Prefix(request, last, KvHeadOf(h))
      BY <3>1 DEF DecoderInv, AttendInv
    <3>3. last \in Nat /\ last + 1 = next_position
      BY <1>1, <2>1
    <3> HIDE DEF last, row
    <3>4. {j + 1 : j \in DOMAIN row} = 1..next_position
      <4>1. DOMAIN row = 0..last
        BY <3>2 DEF Prefix
      <4>2. \A n \in 1..next_position : n - 1 \in 0..last /\ n = (n - 1) + 1
        BY <3>3
      <4>3. \A j \in 0..last : j + 1 \in 1..next_position
        BY <3>3
      <4> QED BY <4>1, <4>2, <4>3
    <3>5. \A i \in 1..next_position :
              row[i - 1].request = request /\ row[i - 1].position = i - 1
      BY <3>2, <3>3 DEF Prefix, Entry
    <3>6. Seen(h) = [i \in {j + 1 : j \in DOMAIN row} |->
                        [request |-> row[i - 1].request,
                         position |-> row[i - 1].position]]
      BY DEF Seen, row
    <3> QED BY <3>4, <3>5, <3>6 DEF Promise!Tokens, Promise!Token
  <2>3. 0 \in QueryHead
    BY AttentionAssumption DEF QueryHead
  <2>4. \A h \in QueryHead : Seen(h) = Seen(0)
    BY <2>2, <2>3
  <2>5. Context = Seen(0)
    BY <1>4, <2>4 DEF Context
  <2> QED BY <1>4, <2>2, <2>3, <2>5
<1> QED BY <1>1, <1>2, <1>3, <1>4

LEMMA ContextIsNext == DecoderInv' => (Context = Evaluated)'
BY ContextIs, PTL

LEMMA TokensFacts ==
    ASSUME NEW r, NEW n \in Nat
    PROVE  /\ Len(Promise!Tokens(r, n)) = n
           /\ Promise!Tokens(r, 0) = <<>>
           /\ n > 0 => /\ Promise!Tokens(r, n) # <<>>
                       /\ Promise!Tokens(r, n)[1].request = r
                       /\ Promise!Tokens(r, n + 1) =
                              Append(Promise!Tokens(r, n), Promise!Token(r, n))
<1>1. Len(Promise!Tokens(r, n)) = n
  BY DEF Promise!Tokens
<1>2. Promise!Tokens(r, 0) = <<>>
  BY DEF Promise!Tokens
<1>3. ASSUME n > 0
      PROVE  Promise!Tokens(r, n) # <<>> /\ Promise!Tokens(r, n)[1].request = r
  <2>1. Promise!Tokens(r, n) # <<>>
    BY <1>1, <1>3
  <2>2. Promise!Tokens(r, n)[1] = Promise!Token(r, 0)
    BY <1>3 DEF Promise!Tokens
  <2> QED BY <2>1, <2>2 DEF Promise!Token
<1>4. Promise!Tokens(r, n + 1) = Append(Promise!Tokens(r, n), Promise!Token(r, n))
  <2> DEFINE old == Promise!Tokens(r, n)
             x == Promise!Token(r, n)
  <2>1. old = [i \in 1..n |-> old[i]] /\ \A i \in 1..n : old[i] = Promise!Token(r, i - 1)
    BY DEF Promise!Tokens
  <2>2. Promise!Token(r, n + 1 - 1) = x
    OBVIOUS
  <2> HIDE DEF old, x
  <2>3. Append(old, x) = [i \in 1..(n + 1) |-> IF i <= n THEN old[i] ELSE x]
    BY <2>1
  <2>4. \A i \in 1..(n + 1) :
            (IF i <= n THEN old[i] ELSE x) = Promise!Token(r, i - 1)
    BY <2>1, <2>2
  <2>5. Append(old, x) = [i \in 1..(n + 1) |-> Promise!Token(r, i - 1)]
    BY <2>3, <2>4
  <2> QED BY <2>5 DEF old, x, Promise!Tokens
<1> QED BY <1>1, <1>2, <1>3, <1>4

(* Every step of the decoder is one of the trait's, or none: the end of a  *)
(* pass is what the loop sees of it.                                       *)
LEMMA StepRefines ==
    ASSUME DecoderInv, DecoderInv', [Next]_vars
    PROVE  [Promise!Next]_Context
<1>1. Context = Evaluated /\ Context' = Evaluated'
  BY ContextIs, ContextIsNext
<1>2. /\ next_position \in Nat /\ len \in Nat /\ offset \in Nat
      /\ layer \in Nat /\ StateTypes /\ PassInv /\ PassInv'
  BY DecoderAssumption DEF DecoderInv, StateTypes
<1>3. ASSUME Context' = <<>> PROVE [Promise!Next]_Context
  BY <1>3 DEF Promise!Next, Promise!Drop
<1>4. ASSUME NEW r \in Request, NEW n \in 0..MaxPrompt, Prefill(r, n)
      PROVE  [Promise!Next]_Context
  <2>1. layer' \in {0, 1} /\ next_position' = 0 /\ offset' = 0
    BY <1>4 DEF Prefill
  <2>2. Evaluated' = <<>>
    BY <2>1, TokensFacts DEF Evaluated
  <2> QED BY <1>1, <1>3, <2>2
<1>5. CASE Decode
  <2>1. layer = 0 /\ layer' = 1 /\ offset' = next_position
        /\ UNCHANGED <<request, usable>>
    BY <1>5 DEF Decode
  <2>2. Evaluated' = Evaluated
    BY <2>1 DEF Evaluated
  <2> QED BY <1>1, <2>2
<1>6. CASE Layer
  <2>1. PICK kinds : InLayer(kinds)
    BY <1>6 DEF Layer, FusedDecode, PrefillLayer, MatmulLayer, LlamaLayer
  <2>2. layer > 0 /\ layer' > 0 /\ UNCHANGED <<request, usable, offset>>
    BY <1>2, <2>1 DEF InLayer
  <2>3. Evaluated' = Evaluated
    BY <2>2 DEF Evaluated
  <2> QED BY <1>1, <2>3
<1>7. CASE FinishPass
  <2>1. /\ layer > 0 /\ layer' = 0 /\ UNCHANGED <<request, usable, len, offset>>
        /\ usable /\ usable' /\ request \in Request /\ len > 0
        /\ next_position' = (IF offset = 0 THEN len ELSE next_position + 1)
        /\ next_position = offset
    BY <1>2, <1>7, DecoderAssumption DEF FinishPass, PassInv
  <2>2. Context = Promise!Tokens(request, offset)
    BY <1>1, <2>1 DEF Evaluated
  <2>3. Context' = Promise!Tokens(request, next_position')
    BY <1>1, <2>1 DEF Evaluated
  <2>4. CASE offset = 0
    <3>1. Context = <<>> /\ Context' = Promise!Tokens(request, len)
      BY <2>1, <2>2, <2>3, <2>4, TokensFacts
    <3>2. Len(Context') = len /\ Context' # <<>>
      BY <1>2, <2>1, <3>1, TokensFacts
    <3> QED BY <2>1, <3>1, <3>2 DEF Promise!Next, Promise!Prefill
  <2>5. CASE offset # 0
    <3>1. offset > 0 /\ Context' = Promise!Tokens(request, offset + 1)
      BY <1>2, <2>1, <2>3, <2>5
    <3>2. /\ Context # <<>> /\ Context[1].request = request /\ Len(Context) = offset
          /\ Context' = Append(Context, Promise!Token(request, offset))
      BY <1>2, <2>2, <3>1, TokensFacts
    <3> QED BY <3>2 DEF Promise!Next, Promise!Decode
  <2> QED BY <2>4, <2>5
<1>8. CASE Fail
  <2>1. ~usable'
    BY <1>8, Zenon DEF Fail
  <2> QED BY <1>1, <1>3, <2>1 DEF Evaluated
<1>9. CASE UNCHANGED vars
  <2>1. Evaluated' = Evaluated
    BY <1>9 DEF vars, Evaluated
  <2> QED BY <1>1, <2>1
<1> QED BY <1>4, <1>5, <1>6, <1>7, <1>8, <1>9 DEF Next, Step

(* The decoder keeps the promise of the trait to the generation loop: its  *)
(* logits depend on the whole prompt after a prefill, on exactly one more  *)
(* token after each decode, and never on two requests, for any number of   *)
(* layers, heads and requests and through failures (TokenDecoder for       *)
(* Qwen3 and Llama).                                                       *)
THEOREM DecoderRefinement == ProfiledSpec => ImplementsTokenDecoder
<1>1. ProfiledInit => Promise!Init
  <2>1. Init => Context = <<>>
    BY DEF Init, Context
  <2> QED BY <2>1 DEF ProfiledInit, Promise!Init
<1>2. DecoderInv /\ DecoderInv' /\ [ProfiledNext]_profiledVars =>
          [Promise!Next]_Context
  BY ProfiledSteps, StepRefines
<1> QED BY <1>1, <1>2, ProfiledDecoderInv, PTL
        DEF ProfiledSpec, ImplementsTokenDecoder, Promise!Spec
-----------------------------------------------------------------------------
(* What the pass in progress has still to add to a counter. *)
Pending(c) == IF c \in DOMAIN due THEN due[c] ELSE 0

ProfileTypes ==
    /\ enabled \in BOOLEAN
    /\ counter \in [Phase -> 0..(CounterRange - 1)]
    /\ owed \in [Phase -> 0..(CounterRange - 1)]
    /\ DOMAIN due \subseteq Phase
    /\ \A c \in DOMAIN due : due[c] \in Nat
    /\ unread \subseteq Phase
    /\ reset \in BOOLEAN
    /\ counted \in BOOLEAN

(* At every moment, snapshots in progress included, what is owed to the    *)
(* next resetting snapshot is what the counter holds and will yet get.     *)
Accounts ==
    /\ ~counted => DOMAIN due = {}
    /\ \A c \in Phase : owed[c] = (counter[c] + Pending(c)) % CounterRange

ProfileInv == ProfileTypes /\ Accounts

LEMMA InitAccounts == ProfiledInit => ProfileInv
<1> SUFFICES ASSUME ProfiledInit PROVE ProfileInv
  OBVIOUS
<1>1. /\ enabled \in BOOLEAN /\ counter = [c \in Phase |-> 0] /\ due = Nothing
      /\ unread = {} /\ reset = FALSE /\ owed = [c \in Phase |-> 0]
      /\ counted = FALSE /\ CounterRange \in Nat \ {0}
  BY ProfilingAssumption DEF ProfiledInit, ProfilingInit
<1>2. DOMAIN due = {}
  BY <1>1 DEF Nothing
<1>3. reset \in BOOLEAN /\ counted \in BOOLEAN
  BY <1>1, Zenon
<1>4. ProfileTypes
  BY <1>1, <1>2, <1>3 DEF ProfileTypes
<1>5. \A c \in Phase : counter[c] + Pending(c) = 0 /\ owed[c] = 0
  BY <1>1, <1>2 DEF Pending
<1>6. 0 % CounterRange = 0
  BY <1>1, SmallRest
<1> QED BY <1>2, <1>4, <1>5, <1>6 DEF ProfileInv, Accounts

(* The counts of a pass add up to what it was. *)
LEMMA LogitsAccount ==
    ASSUME ProfileInv, StateTypes, Logits
    PROVE  ProfileInv'
<1>1. /\ ~counted /\ counted' = TRUE
      /\ due' = (IF enabled THEN Counts(len) ELSE Nothing)
      /\ owed' = [c \in Phase |-> IF c \in DOMAIN due'
                                  THEN (owed[c] + due'[c]) % CounterRange
                                  ELSE owed[c]]
      /\ UNCHANGED <<enabled, counter, unread, reset>>
      /\ len \in Nat /\ CounterRange \in Nat \ {0}
  BY ProfilingAssumption DEF Logits, Report, StateTypes
<1>2. ProfileTypes /\ DOMAIN due = {}
      /\ \A c \in Phase : owed[c] = (counter[c] + 0) % CounterRange
  BY <1>1 DEF ProfileInv, Accounts, Pending
<1>3. DOMAIN due' \subseteq Phase /\ \A c \in DOMAIN due' : due'[c] \in Nat
  <2>1. /\ DOMAIN Counts(len) \subseteq Phase
        /\ \A c \in DOMAIN Counts(len) : Counts(len)[c] \in Nat
    <3>1. CASE len = 1
      BY <3>1 DEF Counts, Phase
    <3>2. CASE len # 1
      BY <1>1, <3>2 DEF Counts, Phase
    <3> QED BY <3>1, <3>2
  <2>2. DOMAIN Nothing = {}
    BY DEF Nothing
  <2> QED BY <1>1, <2>1, <2>2
<1>4. \A c \in Phase : owed[c] = counter[c] /\ counter[c] \in 0..(CounterRange - 1)
  BY <1>1, <1>2, SmallRest DEF ProfileTypes
<1>5. \A c \in Phase : owed'[c] = (counter'[c] + Pending(c)') % CounterRange
  <2>1. ASSUME NEW c \in Phase
        PROVE  owed'[c] = (counter'[c] + Pending(c)') % CounterRange
    <3>1. counter'[c] = counter[c] /\ owed[c] = counter[c]
      BY <1>1, <1>4
    <3>2. CASE c \in DOMAIN due'
      BY <1>1, <3>1, <3>2 DEF Pending
    <3>3. CASE c \notin DOMAIN due'
      BY <1>1, <1>2, <3>1, <3>3 DEF Pending
    <3> QED BY <3>2, <3>3
  <2> QED BY <2>1
<1>6. owed' \in [Phase -> 0..(CounterRange - 1)]
  <2>1. ASSUME NEW c \in Phase, c \in DOMAIN due'
        PROVE  (owed[c] + due'[c]) % CounterRange \in 0..(CounterRange - 1)
    <3>1. owed[c] + due'[c] \in Int
      BY <1>2, <1>3, <2>1 DEF ProfileTypes
    <3> QED BY <1>1, <3>1, DivMod
  <2> QED BY <1>1, <1>2, <2>1 DEF ProfileTypes
<1>7. ProfileTypes'
  BY <1>1, <1>2, <1>3, <1>6 DEF ProfileTypes
<1>8. Accounts'
  BY <1>1, <1>5 DEF Accounts
<1> QED BY <1>7, <1>8 DEF ProfileInv

(* One addition. *)
LEMMA CountAccounts ==
    ASSUME ProfileInv, CountStep
    PROVE  ProfileInv'
<1>1. PICK c \in DOMAIN due :
          /\ counter' = [counter EXCEPT ![c] = (@ + due[c]) % CounterRange]
          /\ due' = [d \in DOMAIN due \ {c} |-> due[d]]
  BY DEF CountStep, Count
<1>2. UNCHANGED <<enabled, unread, reset, owed, counted>>
      /\ CounterRange \in Nat \ {0}
  BY ProfilingAssumption DEF CountStep, Count
<1>3. ProfileTypes /\ Accounts /\ c \in Phase /\ counted
  BY <1>1 DEF ProfileInv, ProfileTypes, Accounts
<1>4. /\ counter'[c] = owed[c] /\ Pending(c)' = 0
      /\ owed[c] \in 0..(CounterRange - 1)
  BY <1>1, <1>3 DEF ProfileTypes, Accounts, Pending
<1>5. \A d \in Phase : d # c => counter'[d] = counter[d] /\ Pending(d)' = Pending(d)
  BY <1>1, <1>3 DEF ProfileTypes, Pending
<1>6. \A d \in Phase : owed'[d] = (counter'[d] + Pending(d)') % CounterRange
  <2>1. owed'[c] = (counter'[c] + Pending(c)') % CounterRange
    BY <1>2, <1>4, SmallRest
  <2> QED BY <1>2, <1>3, <1>5, <2>1 DEF Accounts
<1>7. ProfileTypes'
  <2>1. counter' \in [Phase -> 0..(CounterRange - 1)]
    BY <1>1, <1>3, <1>4 DEF ProfileTypes
  <2>2. DOMAIN due' \subseteq Phase /\ \A d \in DOMAIN due' : due'[d] \in Nat
    BY <1>1, <1>3 DEF ProfileTypes
  <2> QED BY <1>2, <1>3, <2>1, <2>2 DEF ProfileTypes
<1>8. Accounts'
  BY <1>2, <1>3, <1>6 DEF Accounts
<1> QED BY <1>7, <1>8 DEF ProfileInv

(* One read of a snapshot: with a reset it reports what it takes away. *)
LEMMA SnapshotAccounts ==
    ASSUME ProfileInv, Snapshot
    PROVE  ProfileInv'
<1>1. ProfileTypes /\ Accounts /\ CounterRange \in Nat \ {0}
  BY ProfilingAssumption DEF ProfileInv
<1>2. UNCHANGED <<enabled, due, counted>> /\ \A c \in Phase : Pending(c)' = Pending(c)
  BY DEF Snapshot, SnapshotStart, ReadCounter, Pending
<1>3. unread' \subseteq Phase /\ reset' \in BOOLEAN
  BY <1>1 DEF Snapshot, SnapshotStart, ReadCounter, ProfileTypes
<1>4. CASE UNCHANGED <<counter, owed>>
  BY <1>1, <1>2, <1>3, <1>4 DEF ProfileInv, ProfileTypes, Accounts
<1>5. CASE \E c \in unread : /\ owed' = [owed EXCEPT ![c] = Reported(c)]
                             /\ counter' = [counter EXCEPT ![c] = 0]
  <2>1. PICK c \in unread : /\ owed' = [owed EXCEPT ![c] = Reported(c)]
                            /\ counter' = [counter EXCEPT ![c] = 0]
    BY <1>5
  <2>2. /\ c \in Phase /\ counter[c] \in 0..(CounterRange - 1) /\ Pending(c) \in Nat
        /\ owed[c] = (counter[c] + Pending(c)) % CounterRange
    BY <1>1, <2>1 DEF ProfileTypes, Accounts, Pending
  <2>3. Reported(c) = Pending(c) % CounterRange
    BY <1>1, <2>2, TakenIsAdded DEF Reported
  <2>4. Reported(c) \in 0..(CounterRange - 1)
    <3>1. PICK n \in Int : n = Pending(c)
      BY <2>2
    <3>2. n % CounterRange \in 0..(CounterRange - 1)
      BY <1>1, <3>1, DivMod
    <3> QED BY <2>3, <3>1, <3>2
  <2>5. owed'[c] = Pending(c) % CounterRange /\ counter'[c] = 0
    BY <1>1, <2>1, <2>2, <2>3 DEF ProfileTypes
  <2>6. owed'[c] = (counter'[c] + Pending(c)') % CounterRange
    <3>1. 0 + Pending(c) = Pending(c)
      BY <2>2
    <3> QED BY <1>2, <2>2, <2>5, <3>1
  <2>7. \A d \in Phase : d # c => counter'[d] = counter[d] /\ owed'[d] = owed[d]
    BY <1>1, <2>1 DEF ProfileTypes
  <2>8. \A d \in Phase : owed'[d] = (counter'[d] + Pending(d)') % CounterRange
    BY <1>1, <1>2, <2>6, <2>7 DEF Accounts
  <2>9. /\ counter' \in [Phase -> 0..(CounterRange - 1)]
        /\ owed' \in [Phase -> 0..(CounterRange - 1)]
    BY <1>1, <2>1, <2>2, <2>4 DEF ProfileTypes
  <2>10. ProfileTypes'
    BY <1>1, <1>2, <1>3, <2>9 DEF ProfileTypes
  <2>11. Accounts'
    BY <1>1, <1>2, <2>8 DEF Accounts
  <2> QED BY <2>10, <2>11 DEF ProfileInv
<1> QED BY <1>4, <1>5 DEF Snapshot, SnapshotStart, ReadCounter

LEMMA ProfileStepHolds ==
    ProfileInv /\ DecoderInv /\ [ProfiledNext]_profiledVars => ProfileInv'
<1> SUFFICES ASSUME ProfileInv, DecoderInv, [ProfiledNext]_profiledVars
             PROVE  ProfileInv'
  OBVIOUS
<1>1. CASE Logits
  BY <1>1, LogitsAccount DEF DecoderInv
<1>2. CASE DecoderStep
  <2>1. /\ DOMAIN due = {} /\ counted' = FALSE
        /\ UNCHANGED <<enabled, counter, due, unread, reset, owed>>
    BY <1>2 DEF DecoderStep, profile, Nothing
  <2>2. counted' \in BOOLEAN
    BY <2>1, Zenon
  <2> QED BY <2>1, <2>2 DEF ProfileInv, ProfileTypes, Accounts, Pending
<1>3. CASE CountStep
  BY <1>3, CountAccounts
<1>4. CASE Snapshot
  BY <1>4, SnapshotAccounts
<1>5. CASE UNCHANGED profiledVars
  <2>1. UNCHANGED <<enabled, counter, due, unread, reset, owed, counted>>
    BY <1>5 DEF profiledVars, profile
  <2> QED BY <2>1 DEF ProfileInv, ProfileTypes, Accounts, Pending
<1> QED BY <1>1, <1>2, <1>3, <1>4, <1>5 DEF ProfiledNext

LEMMA ProfileAlwaysAccounts == ProfiledSpec => []ProfileInv
<1>1. ProfileInv /\ DecoderInv /\ [ProfiledNext]_profiledVars => ProfileInv'
  BY ProfileStepHolds
<1> QED BY <1>1, InitAccounts, ProfiledDecoderInv, PTL DEF ProfiledSpec

(* Types of the decoder, its caches and what it attended to, and of the    *)
(* counters, which stay within their width (forward, profile_snapshot).    *)
THEOREM ProfiledTypeCorrect == ProfiledSpec => []ProfiledTypeOK
<1>1. DecoderInv /\ ProfileInv => ProfiledTypeOK
  BY TypesFollow DEF ProfileInv, ProfileTypes, ProfiledTypeOK
<1> QED BY <1>1, ProfiledDecoderInv, ProfileAlwaysAccounts, PTL

(* Whatever additions run between the reads of a snapshot, and however     *)
(* often a counter wraps around: no pass of a Qwen3 model is lost to the   *)
(* profile, none is reported twice, and none of Llama's is in it (forward, *)
(* count, snapshot's swaps).                                               *)
THEOREM NoPassIsLost == ProfiledSpec => []EveryPassIsReported
<1>1. ProfileInv => EveryPassIsReported
  <2> SUFFICES ASSUME ProfileInv, due = Nothing PROVE counter = owed
    BY DEF EveryPassIsReported
  <2>1. ProfileTypes /\ Accounts /\ CounterRange \in Nat \ {0} /\ DOMAIN due = {}
    BY ProfilingAssumption DEF ProfileInv, Nothing
  <2>2. \A c \in Phase : owed[c] = counter[c]
    <3>1. ASSUME NEW c \in Phase PROVE owed[c] = counter[c]
      <4>1. counter[c] \in 0..(CounterRange - 1) /\ counter[c] + Pending(c) = counter[c]
        BY <2>1 DEF ProfileTypes, Pending
      <4> QED BY <2>1, <4>1, SmallRest DEF Accounts
    <3> QED BY <3>1
  <2> QED BY <2>1, <2>2 DEF ProfileTypes
<1> QED BY <1>1, ProfileAlwaysAccounts, PTL
=============================================================================
