--------------------------- MODULE RunGeneration ----------------------------
(***************************************************************************)
(* One request's generation as the HTTP surfaces run it: run_generation of *)
(* the api crate drives the loop of Generation with a callback that turns  *)
(* tokens into text deltas.  The callback decodes all tokens so far, waits *)
(* while the text ends in an incomplete character, cuts the text at the    *)
(* first stop string and holds back as many characters as could still be   *)
(* the beginning of one.  Offsets count characters; the code's byte        *)
(* offsets always lie on character boundaries.                             *)
(***************************************************************************)
EXTENDS Generation

CONSTANTS
    Char,           \* characters
    Broken,         \* U+FFFD, which stands for an incomplete character
    Text(_),        \* tokenizer.decode(tokens): a text, or Undecodable
    Undecodable,    \* the tokenizer's error
    StopChoices     \* the lists of stop strings a request may carry

VARIABLES
    stop_strings,   \* params.stop_strings of this request, as a set
    emitted,        \* how much of the text went to on_delta
    deltas,         \* the concatenation of all deltas passed to on_delta
    truncated,      \* the text before a stop string that was found, or None
    failed,         \* decode_error is set
    client,         \* "listening", or "gone": on_delta returns false
    outcome         \* what run_generation returned, or None

closureVars == <<emitted, deltas, truncated, failed>>
vars == <<phase, sampled, reported, fed, reason, stop_strings,
          emitted, deltas, truncated, failed, client, outcome>>

ASSUME StopAssumption ==
    /\ StopChoices \subseteq SUBSET Seq(Char)
    /\ Broken \in Char
    /\ Undecodable \notin Seq(Char)
    /\ None \notin Seq(Char)
    \* Finitely many strings: one of them is longest.
    /\ \A stops \in StopChoices \ {{}} :
           \E s \in stops : \A t \in stops : Len(t) <= Len(s)

(* GenerationOutcome, and the error. *)
FinishReasons == {"stop", "length", "cancelled"}
Completed ==
    [kind : {"ok"}, text : Seq(Char), completion_tokens : Nat,
     finish_reason : FinishReasons]
Failure == [kind |-> "error"]

ASSUME OutcomeAssumption == None \notin Completed \cup {Failure}
-----------------------------------------------------------------------------
(* The string s stands in text after its first p characters. *)
Occurs(text, s, p) ==
    /\ p + Len(s) <= Len(text)
    /\ \A i \in 1..Len(s) : text[p + i] = s[i]

StopPositions(text) ==
    {p \in 0..Len(text) :
        \E s \in stop_strings : s # <<>> /\ Occurs(text, s, p)}

HasStop(text) == StopPositions(text) # {}

(* str::find of each stop string, and the minimum. *)
EarliestStop(text) ==
    CHOOSE p \in StopPositions(text) : \A q \in StopPositions(text) : p <= q

Prefix(text, n) == SubSeq(text, 1, n)
From(text, n) == SubSeq(text, n + 1, Len(text))

Begins(s, text) ==
    Len(s) <= Len(text) /\ \A i \in 1..Len(s) : text[i] = s[i]

(* As many characters as the shortest stop string has. *)
HoldbackOfShortest ==
    IF \A s \in stop_strings : s = <<>> THEN 0
    ELSE (CHOOSE n \in {Len(s) : s \in stop_strings \ {<<>>}} :
             \A s \in stop_strings \ {<<>>} : Len(s) >= n) - 1

(* One less than the longest stop string has characters. *)
HoldbackChars ==
    IF \A s \in stop_strings : s = <<>> THEN 0
    ELSE (CHOOSE n \in {Len(s) : s \in stop_strings} :
             \A s \in stop_strings : Len(s) <= n) - 1

HoldbackBoundary(text, holdback) ==
    IF Len(text) < holdback THEN 0 ELSE Len(text) - holdback

(* Text goes out without waiting for the rest of a character. *)
NeverBroken(text) == FALSE

EndsBroken(text) == Len(text) > 0 /\ Last(text) = Broken

(* What the callback takes for granted of tokenizer.decode on a set of     *)
(* token sequences: more tokens never change a text that did not end in an *)
(* incomplete character.                                                   *)
KeepsWholeText(sequences) ==
    /\ Text(<<>>) = <<>>
    /\ \A tokens \in sequences :
           /\ Text(tokens) \in Seq(Char) \cup {Undecodable}
           /\ \A n \in 0..Len(tokens) :
                  LET earlier == Text(Prefix(tokens, n)) IN
                  /\ earlier # Undecodable
                  /\ ~(Len(earlier) > 0 /\ Last(earlier) = Broken)
                  /\ Text(tokens) # Undecodable
                  => Begins(earlier, Text(tokens))
-----------------------------------------------------------------------------
Init ==
    /\ LoopInit
    /\ stop_strings \in StopChoices
    /\ emitted = 0
    /\ deltas = <<>>
    /\ truncated = None
    /\ failed = FALSE
    /\ client = "listening"
    /\ outcome = None

Listening == client = "listening"

(* The text the callback sees: all reported tokens and this one. *)
Full == Text(Append(reported, Last(sampled)))

(* A delta sent without advancing `emitted`. *)
EmitAgain(text, end) ==
    /\ deltas' = deltas \o From(Prefix(text, end), emitted)
    /\ UNCHANGED emitted

(* on_delta(&full[emitted..end]) *)
Emit(text, end) ==
    /\ deltas' = deltas \o From(Prefix(text, end), emitted)
    /\ emitted' = end

TokenUndecodable ==
    /\ OnToken(FALSE)
    /\ Full = Undecodable
    /\ failed' = TRUE
    /\ UNCHANGED <<emitted, deltas, truncated>>

TokenBroken ==
    /\ OnToken(TRUE)
    /\ Full # Undecodable
    /\ EndsBroken(Full)
    /\ UNCHANGED closureVars

(* The text is cut at the stop string; the client's answer is ignored. *)
TokenCompletesStop ==
    /\ OnToken(FALSE)
    /\ Full # Undecodable
    /\ ~EndsBroken(Full)
    /\ HasStop(Full)
    /\ LET position == EarliestStop(Full) IN
       /\ IF position > emitted THEN Emit(Full, position)
                                ELSE UNCHANGED <<emitted, deltas>>
       /\ truncated' = Prefix(Full, position)
    /\ UNCHANGED failed

TokenEmits ==
    /\ phase = "callback"
    /\ Full # Undecodable
    /\ ~EndsBroken(Full)
    /\ ~HasStop(Full)
    /\ LET safeEnd == HoldbackBoundary(Full, HoldbackChars) IN
       /\ safeEnd > emitted
       /\ Emit(Full, safeEnd)
    /\ OnToken(Listening)
    /\ UNCHANGED <<truncated, failed>>

TokenHeld ==
    /\ OnToken(TRUE)
    /\ Full # Undecodable
    /\ ~EndsBroken(Full)
    /\ ~HasStop(Full)
    /\ HoldbackBoundary(Full, HoldbackChars) <= emitted
    /\ UNCHANGED closureVars

Callback ==
    \/ TokenUndecodable \/ TokenBroken \/ TokenCompletesStop
    \/ TokenEmits \/ TokenHeld
-----------------------------------------------------------------------------
Loop ==
    /\ Prefill \/ LoopFails \/ Decode \/ Exhausted
       \/ \E token \in Token : Sample(token)
    /\ UNCHANGED closureVars

(* A finish reason that only looks at the loop's reason. *)
FinishReasonOfLoop ==
    IF reason = "StopToken" THEN "stop"
    ELSE IF reason = "MaxTokens" THEN "length" ELSE "cancelled"

(* The same, by the loop's own names. *)
FinishReasonRaw == reason

FinishReason ==
    IF reason = "StopToken" THEN "stop"
    ELSE IF reason = "MaxTokens" THEN "length"
    ELSE IF truncated # None THEN "stop" ELSE "cancelled"

(* The code after the loop: an error, or the rest of the text goes out and *)
(* the outcome is returned.                                                *)
ReturnError ==
    /\ phase = "ended"
    /\ outcome = None
    /\ \/ reason = "Error"
       \/ failed
       \/ truncated = None /\ Text(reported) = Undecodable
    /\ outcome' = Failure
    /\ UNCHANGED <<loopVars, closureVars, client>>

Return ==
    /\ phase = "ended"
    /\ outcome = None
    /\ reason # "Error"
    /\ ~failed
    /\ LET text == IF truncated # None THEN truncated ELSE Text(reported) IN
       /\ text # Undecodable
       /\ IF Len(text) > emitted THEN Emit(text, Len(text))
                                 ELSE UNCHANGED <<emitted, deltas>>
       /\ outcome' = [kind |-> "ok", text |-> text,
                      completion_tokens |-> Len(sampled),
                      finish_reason |-> FinishReason]
    /\ UNCHANGED <<loopVars, truncated, failed, client>>

(* The client disconnects: the channel's receiver is dropped. *)
ClientLeaves ==
    /\ client = "listening"
    /\ outcome = None
    /\ client' = "gone"
    /\ UNCHANGED <<loopVars, closureVars, outcome>>

Next ==
    /\ \/ (Loop \/ Callback) /\ UNCHANGED <<client, outcome>>
       \/ ReturnError \/ Return \/ ClientLeaves
    /\ UNCHANGED stop_strings

Spec == Init /\ [][Next]_vars
-----------------------------------------------------------------------------
TypeOK ==
    /\ LoopTypeOK
    /\ stop_strings \in StopChoices
    /\ emitted \in Nat
    /\ deltas \in Seq(Char)
    /\ truncated \in Seq(Char) \cup {None}
    /\ failed \in BOOLEAN
    /\ client \in {"listening", "gone"}
    /\ outcome \in Completed \cup {None, Failure}

Current == Text(reported)

(* Nothing sent is ever taken back: what went to the client is at every    *)
(* moment a prefix of the text decoded so far, and never reaches into a    *)
(* character that is still incomplete.                                     *)
StreamIsStable ==
    Current # Undecodable =>
        /\ emitted <= Len(Current)
        /\ deltas = Prefix(Current, emitted)
        /\ outcome = None /\ EndsBroken(Current) => emitted < Len(Current)

(* The deltas of a finished request add up to the text that it returns:    *)
(* the streaming and the plain surfaces give the same answer.              *)
DeltasAddUp ==
    outcome # None /\ outcome.kind = "ok" => deltas = outcome.text

(* No stop string and no part of one reaches the client, even if it spans  *)
(* several tokens: what was sent never goes past the first stop string of  *)
(* the text, but for a generation that ended on an incomplete character    *)
(* (whose last tokens the callback did not look at).                       *)
NoStopLeaks ==
    Current # Undecodable /\ HasStop(Current) =>
        \/ Len(deltas) <= EarliestStop(Current)
        \/ outcome # None /\ EndsBroken(Current)

(* finish_reason tells the truth: "cancelled" only for a client that left, *)
(* "length" only for a text of max_tokens tokens, "stop" only at a stop    *)
(* token or where the earliest stop string begins.                         *)
FinishReasonTells ==
    outcome # None /\ outcome.kind = "ok" =>
        CASE outcome.finish_reason = "cancelled" -> client = "gone"
          [] outcome.finish_reason = "length" ->
                 /\ Len(sampled) = MaxTokens
                 /\ outcome.text = Current
          [] outcome.finish_reason = "stop" ->
                 \/ Last(sampled) \in StopTokens /\ outcome.text = Current
                 \/ /\ HasStop(Current)
                    /\ Len(outcome.text) = EarliestStop(Current)

(* The README on stop strings: a stop string that spans chunks does not    *)
(* leak to the client either.                                              *)
NoStopEverLeaks == ~HasStop(deltas)
=============================================================================
