----------------------------- MODULE Generation -----------------------------
(***************************************************************************)
(* The architecture-neutral decoding loop, generate_with of the core crate *)
(* (generation.rs).  The decoder and the sampler are external to it: any   *)
(* of their calls may fail, and any token may be sampled.                  *)
(***************************************************************************)
EXTENDS Naturals, Sequences

CONSTANTS
    Token,      \* the vocabulary
    StopTokens, \* config.stop_tokens
    MaxTokens,  \* config.max_tokens
    None        \* Rust's Option::None

VARIABLES
    phase,      \* where the loop is
    sampled,    \* the loop's `tokens`: every token sampled so far
    reported,   \* the tokens handed to on_token
    fed,        \* the tokens the decoder has evaluated since the prefill
    reason      \* how the loop ended, or None

loopVars == <<phase, sampled, reported, fed, reason>>

ASSUME LoopAssumption ==
    /\ MaxTokens \in Nat
    /\ StopTokens \subseteq Token
    /\ None \notin {"MaxTokens", "StopToken", "Cancelled", "Error"}

Reasons == {"MaxTokens", "StopToken", "Cancelled", "Error"}
Phases == {"start", "top", "callback", "decode", "ended"}
-----------------------------------------------------------------------------
Last(s) == s[Len(s)]

End(why) ==
    /\ phase' = "ended"
    /\ reason' = why

LoopInit ==
    /\ phase = "start"
    /\ sampled = <<>>
    /\ reported = <<>>
    /\ fed = <<>>
    /\ reason = None

(* config.validate()?, then prefill, which empties the decoder's caches. *)
Prefill ==
    /\ phase = "start"
    /\ MaxTokens > 0
    /\ phase' = "top"
    /\ UNCHANGED <<sampled, reported, fed, reason>>

(* `?` on validate, prefill, sample or decode: the tokens are dropped. *)
LoopFails ==
    /\ phase \in {"start", "top", "decode"}
    /\ End("Error")
    /\ UNCHANGED <<sampled, reported, fed>>

(* The check of `cancelled` at the head of an iteration. *)
CancelledAtTop ==
    /\ phase = "top"
    /\ Len(sampled) < MaxTokens
    /\ End("Cancelled")
    /\ UNCHANGED <<sampled, reported, fed>>

(* A loop that looks for stop tokens only after on_token. *)
SampleUnchecked(token) ==
    /\ phase = "top"
    /\ Len(sampled) < MaxTokens
    /\ sampled' = Append(sampled, token)
    /\ phase' = "callback"
    /\ UNCHANGED <<reported, fed, reason>>

Sample(token) ==
    /\ phase = "top"
    /\ Len(sampled) < MaxTokens
    /\ sampled' = Append(sampled, token)
    /\ IF token \in StopTokens
       THEN End("StopToken")
       ELSE phase' = "callback" /\ UNCHANGED reason
    /\ UNCHANGED <<reported, fed>>

(* A `continue` between on_token and decode. *)
OnTokenNoDecode(answer) ==
    /\ phase = "callback"
    /\ reported' = Append(reported, Last(sampled))
    /\ IF answer
       THEN phase' = "top" /\ UNCHANGED reason
       ELSE End("Cancelled")
    /\ UNCHANGED <<sampled, fed>>

(* on_token(token) with its answer: false ends the loop. *)
OnToken(answer) ==
    /\ phase = "callback"
    /\ reported' = Append(reported, Last(sampled))
    /\ IF answer
       THEN phase' = "decode" /\ UNCHANGED reason
       ELSE End("Cancelled")
    /\ UNCHANGED <<sampled, fed>>

(* decoder.decode(token), in the last iteration too. *)
Decode ==
    /\ phase = "decode"
    /\ fed' = Append(fed, Last(sampled))
    /\ phase' = "top"
    /\ UNCHANGED <<sampled, reported, reason>>

Exhausted ==
    /\ phase = "top"
    /\ Len(sampled) = MaxTokens
    /\ End("MaxTokens")
    /\ UNCHANGED <<sampled, reported, fed>>

LoopNext ==
    \/ Prefill \/ LoopFails \/ CancelledAtTop \/ Decode \/ Exhausted
    \/ \E token \in Token : Sample(token)
    \/ \E answer \in BOOLEAN : OnToken(answer)

LoopSpec == LoopInit /\ [][LoopNext]_loopVars
-----------------------------------------------------------------------------
LoopTypeOK ==
    /\ phase \in Phases
    /\ sampled \in Seq(Token)
    /\ reported \in Seq(Token)
    /\ fed \in Seq(Token)
    /\ reason \in Reasons \cup {None}

(* The loop samples at most max_tokens tokens, says MaxTokens only when it *)
(* sampled all of them, and StopToken only when the last one is a stop     *)
(* token; on_token never sees a stop token.                                *)
LoopContract ==
    /\ Len(sampled) <= MaxTokens
    /\ reason = "MaxTokens" => Len(sampled) = MaxTokens
    /\ reason = "StopToken" <=>
           Len(sampled) > 0 /\ Last(sampled) \in StopTokens
    /\ \A i \in 1..Len(reported) :
           reported[i] = sampled[i] /\ reported[i] \notin StopTokens

(* The decoder evaluates each reported token once and in order, before the *)
(* next one is sampled: its caches stay aligned with the text.             *)
DecoderFollows ==
    /\ \A i \in 1..Len(fed) : fed[i] = reported[i]
    /\ Len(fed) <= Len(reported)
    /\ phase = "top" => Len(fed) = Len(sampled)
    /\ phase = "callback" => Len(fed) + 1 = Len(sampled)
=============================================================================
