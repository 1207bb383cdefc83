-------------------------- MODULE ProfiledDecoder ---------------------------
(***************************************************************************)
(* A decoder whose forward passes count themselves in the profile, while a *)
(* Python thread takes snapshots (ModelWeights::forward, profile_snapshot).*)
(* Only Qwen3's forward counts, on every device; Llama's is candle's.      *)
(***************************************************************************)
EXTENDS Decoder, Profiling

VARIABLE counted    \* the pass in progress has reached its counts

profiledVars == <<vars, profile, counted>>

ProfiledInit ==
    /\ Init
    /\ ProfilingInit
    /\ counted = FALSE

Profiled == kind \in {"qwen3_cpu", "qwen3_device"}

(* The logits are computed: Qwen3's forward counts the pass before it      *)
(* returns.                                                                *)
Logits ==
    /\ Profiled
    /\ layer = Layers + 1
    /\ ~counted
    /\ Report(len)
    /\ counted' = TRUE
    /\ UNCHANGED vars

(* The rest of the decoder's code goes on when the counts are done; an     *)
(* error or a panic may come before them or, in forward_tokens, after.     *)
DecoderStep ==
    /\ due = Nothing
    /\ Next
    /\ Profiled /\ layer' = 0 => counted \/ ~usable'
    /\ counted' = FALSE
    /\ UNCHANGED profile

CountStep == Count /\ UNCHANGED <<vars, counted>>

Snapshot == (SnapshotStart \/ ReadCounter) /\ UNCHANGED <<vars, counted>>

ProfiledNext == Logits \/ DecoderStep \/ CountStep \/ Snapshot

ProfiledSpec == ProfiledInit /\ [][ProfiledNext]_profiledVars
-----------------------------------------------------------------------------
ProfiledTypeOK ==
    /\ TypeOK
    /\ enabled \in BOOLEAN
    /\ counter \in [Phase -> 0..(CounterRange - 1)]
    /\ owed \in [Phase -> 0..(CounterRange - 1)]
    /\ DOMAIN due \subseteq Phase
    /\ unread \subseteq Phase
    /\ reset \in BOOLEAN
    /\ counted \in BOOLEAN
=============================================================================
