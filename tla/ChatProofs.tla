----------------------------- MODULE ChatProofs -----------------------------
(***************************************************************************)
(* Proofs about a request of the HTTP surfaces, for any vocabulary, any    *)
(* tokenizer that keeps whole text (TokenizerKeepsText), any stop strings, *)
(* limit and client: the loop keeps decoder and text in step, what is sent *)
(* is the returned text and nothing from a stop string on, every token is  *)
(* one that the request allows, and the prompt tells the conversation.     *)
(***************************************************************************)
EXTENDS ChatRequest, SequenceTheorems, FiniteSetTheorems,
        WellFoundedInduction, TLAPS

TokenizerKeepsText == KeepsWholeText(Seq(Token))
-----------------------------------------------------------------------------
(* The stop strings of RunGeneration as functions of the request's list,   *)
(* which no step changes.                                                  *)
StopsIn(stops, text) ==
    {p \in 0..Len(text) : \E s \in stops : s # <<>> /\ Occurs(text, s, p)}

FirstStop(stops, text) ==
    CHOOSE p \in StopsIn(stops, text) : \A q \in StopsIn(stops, text) : p <= q

Holdback(stops) ==
    IF \A s \in stops : s = <<>> THEN 0
    ELSE (CHOOSE n \in {Len(s) : s \in stops} :
             \A s \in stops : Len(s) <= n) - 1

LEMMA SameStops ==
    /\ HoldbackChars = Holdback(stop_strings)
    /\ \A text : /\ HasStop(text) <=> StopsIn(stop_strings, text) # {}
                 /\ EarliestStop(text) = FirstStop(stop_strings, text)
BY DEF HoldbackChars, Holdback, HasStop, StopPositions, StopsIn, EarliestStop,
       FirstStop

LEMMA HoldbackCovers ==
    ASSUME NEW stops \in StopChoices
    PROVE  /\ Holdback(stops) \in Nat
           /\ \A s \in stops : s # <<>> => Len(s) <= Holdback(stops) + 1
<1>1. \A s \in stops : s \in Seq(Char) /\ Len(s) \in Nat
  BY StopAssumption
<1>2. CASE \A s \in stops : s = <<>>
  BY <1>2 DEF Holdback
<1>3. CASE \E s \in stops : s # <<>>
  <2>1. PICK t \in stops : t # <<>>
    BY <1>3
  <2>2. PICK longest \in stops : \A s \in stops : Len(s) <= Len(longest)
    BY <2>1, StopAssumption
  <2> DEFINE n == CHOOSE n \in {Len(s) : s \in stops} :
                      \A s \in stops : Len(s) <= n
  <2>3. n \in {Len(s) : s \in stops} /\ \A s \in stops : Len(s) <= n
    BY <2>2
  <2>4. Len(t) # 0
    BY <1>1, <2>1, EmptySeq
  <2>5. Holdback(stops) = n - 1
    BY <1>3 DEF Holdback
  <2> HIDE DEF n
  <2>6. n \in Nat /\ n > 0
    BY <1>1, <2>1, <2>3, <2>4
  <2> QED BY <2>3, <2>5, <2>6
<1> QED BY <1>2, <1>3

(* A set of natural numbers that is not empty has a least element. *)
LEMMA LeastOf ==
    ASSUME NEW T, T \subseteq Nat, T # {}
    PROVE  \E x \in T : \A y \in T : x <= y
<1> DEFINE Below == {p \in Nat \X Nat : p[1] < p[2]}
<1>1. IsWellFoundedOn(Below, Nat)
  BY NatLessThanWellFounded DEF OpToRel
<1> HIDE DEF Below
<1>2. PICK x \in T : \A y \in T : <<y, x>> \notin Below
  BY <1>1, WFMin
<1>3. ASSUME NEW y \in T PROVE x <= y
  <2>1. x \in Nat /\ y \in Nat
    OBVIOUS
  <2>2. y < x => <<y, x>> \in Below
    BY <2>1 DEF Below
  <2> QED BY <1>2, <2>1, <2>2
<1> QED BY <1>3

LEMMA FirstStopIsFirst ==
    ASSUME NEW stops, NEW text \in Seq(Char), StopsIn(stops, text) # {}
    PROVE  /\ FirstStop(stops, text) \in 0..Len(text)
           /\ FirstStop(stops, text) \in StopsIn(stops, text)
           /\ \A q \in StopsIn(stops, text) : FirstStop(stops, text) <= q
<1>1. StopsIn(stops, text) \subseteq 0..Len(text)
  BY DEF StopsIn
<1>2. StopsIn(stops, text) \subseteq Nat
  BY <1>1
<1>3. \E x \in StopsIn(stops, text) : \A y \in StopsIn(stops, text) : x <= y
  BY <1>2, LeastOf
<1> QED BY <1>1, <1>3 DEF FirstStop
-----------------------------------------------------------------------------
(* Texts. *)
LEMMA PrefixIs ==
    ASSUME NEW S, NEW s \in Seq(S), NEW n \in 0..Len(s)
    PROVE  /\ Prefix(s, n) \in Seq(S)
           /\ Len(Prefix(s, n)) = n
           /\ \A i \in 1..n : Prefix(s, n)[i] = s[i]
BY DEF Prefix

LEMMA PrefixOfBeginning ==
    ASSUME NEW s \in Seq(Char), NEW text \in Seq(Char), Begins(s, text),
           NEW n \in 0..Len(s)
    PROVE  Prefix(s, n) = Prefix(text, n)
<1>1. n \in 0..Len(text)
  BY DEF Begins
<1> QED BY <1>1, PrefixIs, SeqEqual DEF Begins

LEMMA WholePrefix ==
    ASSUME NEW S, NEW s \in Seq(S)
    PROVE  Prefix(s, Len(s)) = s
BY PrefixIs, SeqEqual

(* A delta continues what was sent. *)
LEMMA DeltaContinues ==
    ASSUME NEW text \in Seq(Char), NEW end \in 0..Len(text), NEW e \in 0..end
    PROVE  Prefix(text, e) \o From(Prefix(text, end), e) = Prefix(text, end)
<1> DEFINE p == Prefix(text, end)
<1>1. p \in Seq(Char) /\ Len(p) = end
  BY PrefixIs
<1>2. SubSeq(p, 1, e) \o SubSeq(p, e + 1, end) = SubSeq(p, 1, end)
  BY <1>1, ConcatAdjacentSubSeq
<1>3. SubSeq(p, 1, end) = p
  BY <1>1, WholePrefix DEF Prefix
<1>4. SubSeq(p, 1, e) = Prefix(text, e)
  <2>1. Begins(p, text)
    BY <1>1, PrefixIs DEF Begins
  <2> HIDE DEF p
  <2> QED BY <1>1, <2>1, PrefixOfBeginning DEF Prefix
<1> QED BY <1>1, <1>2, <1>3, <1>4 DEF From

(* A stop string of a longer text begins at most the hold-back before the  *)
(* end of a text without one.                                              *)
LEMMA StopsComeLate ==
    ASSUME NEW stops \in StopChoices, NEW s \in Seq(Char),
           NEW text \in Seq(Char), Begins(s, text), StopsIn(stops, s) = {},
           NEW p \in StopsIn(stops, text)
    PROVE  Len(s) <= p + Holdback(stops)
<1>1. PICK t \in stops : t # <<>> /\ Occurs(text, t, p)
  BY DEF StopsIn
<1>2. t \in Seq(Char) /\ Len(t) \in Nat /\ p \in Nat
  BY StopAssumption DEF StopsIn
<1>3. p + Len(t) > Len(s)
  <2>1. SUFFICES ASSUME p + Len(t) <= Len(s) PROVE FALSE
    BY <1>2
  <2>2. Occurs(s, t, p)
    BY <1>1, <1>2, <2>1 DEF Occurs, Begins
  <2>3. p \in 0..Len(s)
    BY <1>2, <2>1
  <2> QED BY <1>1, <2>2, <2>3 DEF StopsIn
<1>4. Len(t) <= Holdback(stops) + 1 /\ Holdback(stops) \in Nat
  BY <1>1, HoldbackCovers
<1> QED BY <1>2, <1>3, <1>4
-----------------------------------------------------------------------------
(* A text in which the callback found nothing to wait or to stop for. *)
Clear(stops, text) ==
    text # Undecodable /\ ~EndsBroken(text) /\ StopsIn(stops, text) = {}

(* What went out when the callback last looked at a clear text: all of it  *)
(* but the hold-back.                                                      *)
Sent(stops, tokens, e, d) ==
    \E n \in 0..Len(tokens) :
        LET earlier == Text(Prefix(tokens, n)) IN
        /\ Clear(stops, earlier)
        /\ e = 0 \/ e + Holdback(stops) <= Len(earlier)
        /\ d = Prefix(earlier, e)

LEMMA NothingStops ==
    ASSUME NEW stops \in StopChoices
    PROVE  StopsIn(stops, <<>>) = {}
<1>1. SUFFICES ASSUME NEW s \in stops, s # <<>>, NEW p \in 0..0,
                      Occurs(<<>>, s, p)
               PROVE  FALSE
  BY DEF StopsIn
<1>2. s \in Seq(Char) /\ Len(s) \in Nat \ {0}
  BY <1>1, StopAssumption, EmptySeq
<1>3. p + Len(s) <= 0
  BY <1>1 DEF Occurs
<1> QED BY <1>2, <1>3

LEMMA NothingSent ==
    ASSUME TokenizerKeepsText, NEW stops \in StopChoices
    PROVE  Sent(stops, <<>>, 0, <<>>)
<1>1. Prefix(<<>>, 0) = <<>>
  BY DEF Prefix
<1>2. Text(<<>>) = <<>> /\ <<>> \in Seq(Char) /\ Len(<<>>) = 0
  BY DEF TokenizerKeepsText, KeepsWholeText
<1>3. <<>> # Undecodable /\ ~EndsBroken(<<>>)
  <2>1. Undecodable \notin Seq(Char)
    BY StopAssumption
  <2>2. ~EndsBroken(<<>>)
    BY DEF EndsBroken
  <2> QED BY <1>2, <2>1, <2>2
<1>4. StopsIn(stops, <<>>) = {}
  BY NothingStops
<1>5. Len(<<>>) = 0 /\ <<>> = Prefix(<<>>, 0)
  BY <1>1
<1> QED BY <1>1, <1>2, <1>3, <1>4, <1>5 DEF Sent, Clear

LEMMA TextTypes ==
    ASSUME TokenizerKeepsText, NEW tokens \in Seq(Token)
    PROVE  Text(tokens) \in Seq(Char) \cup {Undecodable}
BY DEF TokenizerKeepsText, KeepsWholeText

(* Whatever was sent is a beginning of the text that there is now, ends    *)
(* before an incomplete character, and before any stop string.             *)
LEMMA SentFacts ==
    ASSUME TokenizerKeepsText, NEW stops \in StopChoices,
           NEW tokens \in Seq(Token), NEW e \in Nat, NEW d,
           Sent(stops, tokens, e, d), Text(tokens) # Undecodable
    PROVE  LET text == Text(tokens) IN
           /\ text \in Seq(Char)
           /\ e \in 0..Len(text)
           /\ d = Prefix(text, e)
           /\ EndsBroken(text) => e < Len(text)
           /\ \A p \in StopsIn(stops, text) : e <= p
<1> DEFINE text == Text(tokens)
<1>1. text \in Seq(Char)
  BY TextTypes
<1>2. PICK n \in 0..Len(tokens) :
          /\ Clear(stops, Text(Prefix(tokens, n)))
          /\ e = 0 \/ e + Holdback(stops) <= Len(Text(Prefix(tokens, n)))
          /\ d = Prefix(Text(Prefix(tokens, n)), e)
  BY DEF Sent
<1> DEFINE earlier == Text(Prefix(tokens, n))
<1>3. earlier \in Seq(Char)
  BY <1>2, PrefixIs, TextTypes DEF Clear
<1>4. Begins(earlier, text)
  BY <1>2 DEF TokenizerKeepsText, KeepsWholeText, Clear, EndsBroken
<1>5. Holdback(stops) \in Nat /\ Len(earlier) \in Nat /\ Len(text) \in Nat
  BY <1>1, <1>3, HoldbackCovers
<1>6. e \in 0..Len(earlier)
  BY <1>2, <1>5
<1>7. ASSUME EndsBroken(text) PROVE e < Len(text)
  <2>1. SUFFICES ASSUME e >= Len(text) PROVE FALSE
    BY <1>5
  <2>2. Len(earlier) = Len(text) /\ Len(text) > 0
    BY <1>4, <1>5, <1>6, <1>7, <2>1 DEF Begins, EndsBroken
  <2>3. EndsBroken(earlier)
    BY <1>4, <1>5, <1>7, <2>2 DEF Begins, EndsBroken, Last
  <2> QED BY <1>2, <2>3 DEF Clear
<1>8. ASSUME NEW p \in StopsIn(stops, text) PROVE e <= p
  <2>1. Len(earlier) <= p + Holdback(stops)
    BY <1>1, <1>2, <1>3, <1>4, StopsComeLate DEF Clear
  <2>2. p \in Nat
    BY DEF StopsIn
  <2> QED BY <1>2, <1>5, <2>1, <2>2
<1>9. d = Prefix(text, e) /\ e <= Len(text)
  <2>1. Len(earlier) <= Len(text)
    BY <1>4 DEF Begins
  <2>2. Prefix(earlier, e) = Prefix(text, e)
    <3> HIDE DEF earlier, text
    <3> QED BY <1>1, <1>3, <1>4, <1>6, PrefixOfBeginning
  <2> QED BY <1>2, <1>5, <1>6, <2>1, <2>2
<1> QED BY <1>1, <1>6, <1>7, <1>8, <1>9

(* More tokens do not change what was sent. *)
LEMMA SentStays ==
    ASSUME NEW stops, NEW tokens \in Seq(Token), NEW token \in Token,
           NEW e, NEW d, Sent(stops, tokens, e, d)
    PROVE  Sent(stops, Append(tokens, token), e, d)
<1>1. PICK n \in 0..Len(tokens) :
          /\ Clear(stops, Text(Prefix(tokens, n)))
          /\ e = 0 \/ e + Holdback(stops) <= Len(Text(Prefix(tokens, n)))
          /\ d = Prefix(Text(Prefix(tokens, n)), e)
  BY DEF Sent
<1>2. /\ Append(tokens, token) \in Seq(Token)
      /\ n \in 0..Len(Append(tokens, token))
      /\ \A i \in 1..n : Append(tokens, token)[i] = tokens[i]
  OBVIOUS
<1>3. Prefix(Append(tokens, token), n) = Prefix(tokens, n)
  <2> DEFINE more == Append(tokens, token)
  <2>1. /\ Prefix(more, n) \in Seq(Token)
        /\ Len(Prefix(more, n)) = n
        /\ \A i \in 1..n : Prefix(more, n)[i] = tokens[i]
    <3>1. /\ more \in Seq(Token) /\ n \in 0..Len(more)
          /\ \A i \in 1..n : more[i] = tokens[i]
      BY <1>2
    <3> HIDE DEF more
    <3> QED BY <3>1, PrefixIs
  <2>2. /\ Prefix(tokens, n) \in Seq(Token)
        /\ Len(Prefix(tokens, n)) = n
        /\ \A i \in 1..n : Prefix(tokens, n)[i] = tokens[i]
    BY PrefixIs
  <2> QED BY <2>1, <2>2, SeqEqual
<1> QED BY <1>1, <1>2, <1>3 DEF Sent

LEMMA SentNow ==
    ASSUME NEW stops, NEW tokens \in Seq(Token), Clear(stops, Text(tokens)),
           NEW e, e + Holdback(stops) <= Len(Text(tokens))
    PROVE  Sent(stops, tokens, e, Prefix(Text(tokens), e))
<1>1. Prefix(tokens, Len(tokens)) = tokens /\ Len(tokens) \in 0..Len(tokens)
  BY WholePrefix
<1> QED BY <1>1 DEF Sent
-----------------------------------------------------------------------------
(* The loop: decoder, callback and sampler in step. *)
LoopInv ==
    /\ LoopTypeOK
    /\ Len(sampled) <= MaxTokens
    /\ Len(fed) <= Len(reported) /\ Len(reported) <= Len(sampled)
    /\ \A i \in 1..Len(reported) : reported[i] = sampled[i]
    /\ \A i \in 1..Len(fed) : fed[i] = reported[i]
    /\ \A i \in 1..Len(sampled) :
           sampled[i] \in StopTokens => reason = "StopToken" /\ i = Len(sampled)
    /\ phase = "start" => Len(sampled) = 0
    /\ phase \in {"start", "top"} => Len(fed) = Len(sampled)
    /\ phase = "callback" => /\ Len(sampled) = Len(reported) + 1
                             /\ Len(fed) = Len(reported)
    /\ phase = "decode" => /\ Len(sampled) = Len(reported)
                           /\ Len(fed) + 1 = Len(reported)
    /\ phase = "ended" <=> reason # None
    /\ reason = "MaxTokens" => Len(sampled) = MaxTokens
    /\ reason = "StopToken" => /\ Len(sampled) = Len(reported) + 1
                               /\ Last(sampled) \in StopTokens

LEMMA LoopInitInv == LoopInit => LoopInv
BY LoopAssumption DEF LoopInit, LoopInv, LoopTypeOK, Phases, Reasons

LEMMA LoopStep == LoopInv /\ [LoopNext]_loopVars => LoopInv'
<1> SUFFICES ASSUME LoopInv, [LoopNext]_loopVars PROVE LoopInv'
  OBVIOUS
<1> USE LoopAssumption DEF LoopInv, LoopTypeOK, Phases, Reasons, End
<1>1. CASE Prefill
  BY <1>1 DEF Prefill
<1>2. CASE LoopFails
  BY <1>2 DEF LoopFails
<1>3. CASE CancelledAtTop
  BY <1>3 DEF CancelledAtTop
<1>4. CASE Decode
  BY <1>4 DEF Decode, Last
<1>5. CASE Exhausted
  BY <1>5 DEF Exhausted
<1>6. ASSUME NEW token \in Token, Sample(token) PROVE LoopInv'
  BY <1>6 DEF Sample, Last
<1>7. ASSUME NEW answer \in BOOLEAN, OnToken(answer) PROVE LoopInv'
  BY <1>7 DEF OnToken, Last
<1>8. CASE UNCHANGED loopVars
  BY <1>8 DEF loopVars, Last
<1> QED BY <1>1, <1>2, <1>3, <1>4, <1>5, <1>6, <1>7, <1>8 DEF LoopNext

LEMMA LoopInvGives == LoopInv => LoopContract /\ DecoderFollows
BY LoopAssumption
DEF LoopInv, LoopTypeOK, LoopContract, DecoderFollows, Last, Phases, Reasons
-----------------------------------------------------------------------------
(* The callback and the code after the loop.  Once a stop string was found *)
(* the text is cut there, and exactly that much was sent.                  *)
Cut(stops, tokens, e, d, t) ==
    LET text == Text(tokens) IN
    /\ text # Undecodable
    /\ ~EndsBroken(text)
    /\ StopsIn(stops, text) # {}
    /\ e = FirstStop(stops, text)
    /\ d = Prefix(text, e)
    /\ t = d

Looked(stops, tokens) ==
    /\ Text(tokens) # Undecodable
    /\ EndsBroken(Text(tokens)) \/ StopsIn(stops, Text(tokens)) = {}

TextTypesOK ==
    /\ stop_strings \in StopChoices
    /\ emitted \in Nat
    /\ deltas \in Seq(Char)
    /\ truncated \in Seq(Char) \cup {None}
    /\ failed \in BOOLEAN
    /\ client \in {"listening", "gone"}
    /\ outcome \in Completed \cup {None, Failure}

StreamInv ==
    /\ failed => Text(reported) = Undecodable /\ reason = "Cancelled"
    /\ truncated # None =>
           /\ reason = "Cancelled" /\ ~failed
           /\ Cut(stop_strings, reported, emitted, deltas, truncated)
    /\ truncated = None /\ ~failed =>
           /\ Looked(stop_strings, reported)
           /\ reason = "Cancelled" => client = "gone"
    /\ truncated = None /\ outcome \notin Completed =>
           Sent(stop_strings, reported, emitted, deltas)

OutcomeInv ==
    outcome \in Completed =>
        /\ phase = "ended" /\ reason # "Error" /\ ~failed
        /\ outcome.text = IF truncated # None THEN truncated ELSE Text(reported)
        /\ outcome.finish_reason = FinishReason
        /\ deltas = outcome.text
        /\ emitted = Len(outcome.text)

TextInv == TextTypesOK /\ StreamInv /\ OutcomeInv

Refused ==
    /\ phase = "start" /\ outcome = None /\ outcome' = Failure
    /\ UNCHANGED <<loopVars, stop_strings, closureVars, client>>

LEMMA RequestSteps == [RequestNext]_allVars => [Next]_vars \/ Refused
BY DEF RequestNext, PrepareChat, PrepareCompletion, Refuse, Generate, Refused,
       Preparing, allVars

LEMMA OutcomeKinds ==
    /\ None \notin Completed /\ Failure \notin Completed /\ None # Failure
    /\ \A result \in Completed \cup {None, Failure} :
           result # None /\ result.kind = "ok" <=> result \in Completed
<1>1. None \notin Completed /\ None # Failure
  BY OutcomeAssumption
<1>2. \A result \in Completed : result.kind = "ok"
  BY DEF Completed
<1>3. Failure.kind = "error"
  BY DEF Failure
<1> QED BY <1>1, <1>2, <1>3

LEMMA LoopSteps ==
    [RequestNext]_allVars => [LoopNext]_loopVars
<1> SUFFICES ASSUME [Next]_vars \/ Refused PROVE [LoopNext]_loopVars
  BY RequestSteps
<1>1. CASE Loop
  BY <1>1 DEF Loop, LoopNext
<1>2. CASE Callback
  BY <1>2 DEF Callback, TokenUndecodable, TokenBroken, TokenCompletesStop,
              TokenEmits, TokenHeld, LoopNext, Listening
<1>3. CASE ReturnError \/ Return \/ ClientLeaves \/ Refused \/ UNCHANGED vars
  BY <1>3 DEF ReturnError, Return, ClientLeaves, Refused, loopVars, vars
<1> QED BY <1>1, <1>2, <1>3 DEF Next

LEMMA TextInit == ASSUME TokenizerKeepsText PROVE Init => LoopInv /\ TextInv
<1> SUFFICES ASSUME Init PROVE LoopInv /\ TextInv
  OBVIOUS
<1>1. LoopInv
  BY LoopInitInv DEF Init
<1>2. reported = <<>> /\ reason = None /\ None # "Cancelled"
  BY LoopAssumption DEF Init, LoopInit
<1>3. Sent(stop_strings, reported, emitted, deltas)
  BY <1>2, NothingSent DEF Init
<1>4. Text(reported) # Undecodable /\ Text(reported) = <<>>
  <2>1. Text(<<>>) = <<>> /\ <<>> \in Seq(Char)
    BY DEF TokenizerKeepsText, KeepsWholeText
  <2>2. Undecodable \notin Seq(Char)
    BY StopAssumption
  <2> QED BY <1>2, <2>1, <2>2
<1>5. StopsIn(stop_strings, Text(reported)) = {}
  BY <1>2, <1>4, NothingStops DEF Init
<1>6. TextTypesOK
  <2>1. <<>> \in Seq(Char)
    OBVIOUS
  <2> QED BY <2>1 DEF Init, TextTypesOK
<1>7. StreamInv
  BY <1>2, <1>3, <1>4, <1>5 DEF Init, StreamInv, Looked
<1>8. OutcomeInv
  BY OutcomeKinds DEF Init, OutcomeInv
<1> QED BY <1>1, <1>6, <1>7, <1>8 DEF TextInv

(* What the callback sees is the text that will be there after it. *)
LEMMA FullIs ==
    ASSUME TokenizerKeepsText, LoopInv, NEW answer \in BOOLEAN, OnToken(answer)
    PROVE  /\ reported \in Seq(Token) /\ Last(sampled) \in Token
           /\ reported' = Append(reported, Last(sampled))
           /\ reported' \in Seq(Token)
           /\ Text(reported') = Full
           /\ phase = "callback" /\ reason = None
           /\ answer => phase' # "ended" /\ reason' = None
           /\ ~answer => phase' = "ended" /\ reason' = "Cancelled"
<1>1. /\ phase = "callback" /\ sampled \in Seq(Token) /\ reported \in Seq(Token)
      /\ Len(sampled) = Len(reported) + 1 /\ reason = None
  BY DEF LoopInv, LoopTypeOK, OnToken
<1>2. Last(sampled) \in Token
  BY <1>1 DEF Last
<1>3. reported' = Append(reported, Last(sampled))
  BY DEF OnToken
<1>4. reported' \in Seq(Token)
  BY <1>1, <1>2, <1>3
<1>5. /\ answer => phase' # "ended" /\ reason' = None
      /\ ~answer => phase' = "ended" /\ reason' = "Cancelled"
  BY <1>1 DEF OnToken, End
<1> QED BY <1>1, <1>2, <1>3, <1>4, <1>5 DEF Full

LEMMA CallbackStep ==
    ASSUME TokenizerKeepsText, LoopInv, TextInv, Callback,
           UNCHANGED <<client, outcome, stop_strings>>
    PROVE  TextInv'
<1>1. PICK answer \in BOOLEAN : OnToken(answer)
  BY DEF Callback, TokenUndecodable, TokenBroken, TokenCompletesStop,
         TokenEmits, TokenHeld, Listening
<1>2. /\ reported \in Seq(Token) /\ Last(sampled) \in Token
      /\ reported' = Append(reported, Last(sampled))
      /\ reported' \in Seq(Token)
      /\ Text(reported') = Full
      /\ phase = "callback" /\ reason = None
  BY <1>1, FullIs
<1>3. /\ OnToken(TRUE) => phase' # "ended" /\ reason' = None
      /\ OnToken(FALSE) => phase' = "ended" /\ reason' = "Cancelled"
  BY FullIs
<1>4. reason # "Cancelled" /\ phase # "ended"
  BY <1>2, LoopAssumption
<1>5. truncated = None /\ failed = FALSE /\ outcome \notin Completed
  BY <1>4 DEF TextInv, TextTypesOK, StreamInv, OutcomeInv
<1>6. OutcomeInv'
  BY <1>5 DEF OutcomeInv
<1>7. Sent(stop_strings, reported, emitted, deltas)
  BY <1>5 DEF TextInv, StreamInv
<1>8. Sent(stop_strings, reported', emitted, deltas)
  BY <1>2, <1>7, SentStays
<1>9. stop_strings \in StopChoices /\ emitted \in Nat /\ deltas \in Seq(Char)
  BY DEF TextInv, TextTypesOK
<1>10. CASE TokenUndecodable
  <2>1. /\ Full = Undecodable /\ failed' = TRUE /\ reason' = "Cancelled"
        /\ UNCHANGED <<emitted, deltas, truncated, stop_strings>>
    BY <1>3, <1>10 DEF TokenUndecodable
  <2>2. StreamInv'
    BY <1>2, <1>5, <1>8, <2>1 DEF StreamInv
  <2>3. TextTypesOK'
    BY <2>1 DEF TextInv, TextTypesOK
  <2> QED BY <1>6, <2>2, <2>3 DEF TextInv
<1>11. CASE TokenBroken \/ TokenHeld
  <2>1. /\ Full # Undecodable
        /\ EndsBroken(Full) \/ StopsIn(stop_strings, Full) = {}
        /\ reason' # "Cancelled"
        /\ UNCHANGED <<emitted, deltas, truncated, failed>>
    BY <1>3, <1>11, SameStops, LoopAssumption
    DEF TokenBroken, TokenHeld, closureVars
  <2>2. StreamInv'
    BY <1>2, <1>5, <1>8, <2>1 DEF StreamInv, Looked
  <2>3. TextTypesOK'
    BY <2>1 DEF TextInv, TextTypesOK
  <2> QED BY <1>6, <2>2, <2>3 DEF TextInv
<1>12. CASE TokenCompletesStop
  <2> DEFINE position == FirstStop(stop_strings, Full)
  <2>1. /\ Full # Undecodable /\ ~EndsBroken(Full)
        /\ StopsIn(stop_strings, Full) # {}
        /\ IF position > emitted THEN Emit(Full, position)
                                 ELSE UNCHANGED <<emitted, deltas>>
        /\ truncated' = Prefix(Full, position)
        /\ UNCHANGED failed
        /\ reason' = "Cancelled"
    BY <1>3, <1>12, SameStops DEF TokenCompletesStop
  <2>2. /\ Full \in Seq(Char)
        /\ emitted \in 0..Len(Full)
        /\ deltas = Prefix(Full, emitted)
        /\ \A p \in StopsIn(stop_strings, Full) : emitted <= p
    BY <1>2, <1>8, <1>9, <2>1, SentFacts
  <2>3. /\ position \in 0..Len(Full)
        /\ position \in StopsIn(stop_strings, Full)
    BY <2>1, <2>2, FirstStopIsFirst
  <2> HIDE DEF position
  <2>4. emitted <= position
    BY <2>2, <2>3
  <2>5. emitted' = position /\ deltas' = Prefix(Full, position)
    <3>1. CASE position > emitted
      <4>1. emitted \in 0..position
        BY <2>2, <2>3, <2>4
      <4> QED BY <2>1, <2>2, <2>3, <3>1, <4>1, DeltaContinues DEF Emit
    <3>2. CASE ~(position > emitted)
      <4>1. position = emitted
        BY <2>2, <2>3, <2>4, <3>2
      <4> QED BY <2>1, <2>2, <3>2, <4>1
    <3> QED BY <3>1, <3>2
  <2>6. Prefix(Full, position) \in Seq(Char)
    BY <2>2, <2>3, PrefixIs
  <2>7. truncated' # None
    BY <2>1, <2>6, StopAssumption
  <2>8. StreamInv'
    BY <1>2, <1>5, <2>1, <2>5, <2>7 DEF StreamInv, Cut, position
  <2>9. TextTypesOK'
    BY <2>1, <2>3, <2>5, <2>6 DEF TextInv, TextTypesOK
  <2> QED BY <1>6, <2>8, <2>9 DEF TextInv
<1>13. CASE TokenEmits
  <2> DEFINE end == HoldbackBoundary(Full, Holdback(stop_strings))
  <2>1. /\ Full # Undecodable /\ ~EndsBroken(Full)
        /\ StopsIn(stop_strings, Full) = {}
        /\ end > emitted
        /\ Emit(Full, end)
        /\ UNCHANGED <<truncated, failed>>
    BY <1>13, SameStops DEF TokenEmits
  <2>2. reason' = "Cancelled" => client = "gone"
    <3>1. Listening => reason' = None
      BY <1>2, <1>13 DEF TokenEmits, OnToken
    <3>2. None # "Cancelled" /\ client \in {"listening", "gone"}
      BY LoopAssumption DEF TextInv, TextTypesOK
    <3> QED BY <3>1, <3>2 DEF Listening
  <2>3. /\ Full \in Seq(Char)
        /\ emitted \in 0..Len(Full)
        /\ deltas = Prefix(Full, emitted)
    BY <1>2, <1>8, <1>9, <2>1, SentFacts
  <2>4. Holdback(stop_strings) \in Nat
    BY <1>9, HoldbackCovers
  <2>5. /\ end \in 0..Len(Full)
        /\ end + Holdback(stop_strings) <= Len(Full)
        /\ emitted \in 0..end
    <3>1. Len(Full) \in Nat
      BY <2>3
    <3> QED BY <1>9, <2>1, <2>4, <3>1 DEF HoldbackBoundary
  <2> HIDE DEF end
  <2>6. emitted' = end /\ deltas' = Prefix(Full, end)
    BY <2>1, <2>3, <2>5, DeltaContinues DEF Emit
  <2>7. Clear(stop_strings, Text(reported'))
    BY <1>2, <2>1 DEF Clear
  <2>8. Sent(stop_strings, reported', end, Prefix(Full, end))
    BY <1>2, <2>5, <2>7, SentNow
  <2>9. StreamInv'
    BY <1>2, <1>5, <2>1, <2>6, <2>8, <2>2 DEF StreamInv, Looked
  <2>10. TextTypesOK'
    BY <2>1, <2>3, <2>5, <2>6, PrefixIs DEF TextInv, TextTypesOK
  <2> QED BY <1>6, <2>9, <2>10 DEF TextInv
<1> QED BY <1>10, <1>11, <1>12, <1>13 DEF Callback

LEMMA OutcomeReturned ==
    ASSUME LoopInv, TextInv, NEW text \in Seq(Char),
           phase = "ended", outcome = None, reason # "Error", ~failed,
           text = IF truncated # None THEN truncated ELSE Text(reported),
           outcome' = [kind |-> "ok", text |-> text,
                       completion_tokens |-> Len(sampled),
                       finish_reason |-> FinishReason],
           emitted' = Len(text), deltas' = text,
           truncated # None => emitted' = emitted /\ deltas' = deltas,
           UNCHANGED <<phase, sampled, reported, fed, reason,
                       stop_strings, truncated, failed, client>>
    PROVE  TextInv' /\ outcome' \in Completed
<1>1. Len(sampled) \in Nat /\ Len(text) \in Nat
  BY DEF LoopInv, LoopTypeOK
<1>2. FinishReason \in FinishReasons
  BY DEF FinishReason, FinishReasons
<1>3. /\ outcome' \in Completed
      /\ outcome'.text = text /\ outcome'.finish_reason = FinishReason
  BY <1>1, <1>2 DEF Completed
<1>4. TextTypesOK'
  BY <1>1, <1>3 DEF TextInv, TextTypesOK
<1>5. StreamInv'
  BY <1>3 DEF TextInv, StreamInv
<1>6. FinishReason' = FinishReason
  BY DEF FinishReason
<1>7. OutcomeInv'
  BY <1>3, <1>6 DEF OutcomeInv
<1> QED BY <1>3, <1>4, <1>5, <1>7 DEF TextInv

LEMMA ReturnStep ==
    ASSUME TokenizerKeepsText, LoopInv, TextInv, Return, UNCHANGED stop_strings
    PROVE  TextInv' /\ outcome' \in Completed
<1> DEFINE text == IF truncated # None THEN truncated ELSE Text(reported)
<1>1. /\ phase = "ended" /\ outcome = None /\ reason # "Error" /\ ~failed
      /\ text # Undecodable
      /\ IF Len(text) > emitted THEN Emit(text, Len(text))
                                ELSE UNCHANGED <<emitted, deltas>>
      /\ outcome' = [kind |-> "ok", text |-> text,
                     completion_tokens |-> Len(sampled),
                     finish_reason |-> FinishReason]
      /\ UNCHANGED <<phase, sampled, reported, fed, reason,
                     truncated, failed, client>>
  BY DEF Return, loopVars
<1>2. /\ reported \in Seq(Token) /\ Len(sampled) \in Nat
      /\ stop_strings \in StopChoices /\ emitted \in Nat
      /\ outcome \notin Completed
  BY <1>1, OutcomeKinds DEF LoopInv, LoopTypeOK, TextInv, TextTypesOK
<1>3. CASE truncated # None
  <2>1. Cut(stop_strings, reported, emitted, deltas, truncated)
    BY <1>3 DEF TextInv, StreamInv
  <2>2. Text(reported) \in Seq(Char)
    BY <1>2, <2>1, TextTypes DEF Cut
  <2>3. emitted \in 0..Len(Text(reported))
    BY <2>1, <2>2, FirstStopIsFirst DEF Cut
  <2>4. text = deltas /\ Len(text) = emitted /\ text \in Seq(Char)
    BY <1>3, <2>1, <2>2, <2>3, PrefixIs DEF Cut
  <2>5. emitted' = emitted /\ deltas' = deltas
    BY <1>1, <1>2, <2>4
  <2> QED BY <1>1, <2>4, <2>5, OutcomeReturned
<1>4. CASE truncated = None
  <2>1. Sent(stop_strings, reported, emitted, deltas)
    BY <1>2, <1>4 DEF TextInv, StreamInv
  <2>2. /\ text = Text(reported)
        /\ text = IF truncated # None THEN truncated ELSE Text(reported)
    BY <1>4
  <2>3. /\ text \in Seq(Char) /\ emitted \in 0..Len(text)
        /\ deltas = Prefix(text, emitted)
    BY <1>1, <1>2, <2>1, <2>2, SentFacts
  <2> HIDE DEF text
  <2>4. Prefix(text, Len(text)) = text /\ Len(text) \in 0..Len(text)
    BY <2>3, WholePrefix
  <2>5. emitted' = Len(text) /\ deltas' = text
    <3>1. CASE Len(text) > emitted
      BY <1>1, <2>3, <2>4, <3>1, DeltaContinues DEF Emit
    <3>2. CASE ~(Len(text) > emitted)
      <4>1. emitted = Len(text)
        BY <2>3, <2>4, <3>2
      <4> QED BY <1>1, <2>3, <2>4, <3>2, <4>1
    <3> QED BY <3>1, <3>2
  <2> QED BY <1>1, <1>4, <2>2, <2>3, <2>5, OutcomeReturned
<1> QED BY <1>3, <1>4

LEMMA TextStep ==
    ASSUME TokenizerKeepsText, LoopInv, TextInv, [RequestNext]_allVars
    PROVE  TextInv'
<1>1. CASE Refused \/ (ReturnError /\ UNCHANGED stop_strings)
  <2>1. /\ outcome' = Failure
        /\ UNCHANGED <<phase, reported, reason, stop_strings,
                       emitted, deltas, truncated, failed, client>>
    BY <1>1 DEF Refused, ReturnError, loopVars, closureVars
  <2>2. outcome \notin Completed \/ outcome' \in Completed
    BY <1>1, OutcomeKinds DEF Refused, ReturnError
  <2> QED BY <2>1, <2>2, OutcomeKinds
          DEF TextInv, TextTypesOK, StreamInv, OutcomeInv
<1>2. CASE ClientLeaves /\ UNCHANGED stop_strings
  <2>1. /\ client' = "gone" /\ outcome = None /\ outcome' = outcome
        /\ UNCHANGED <<phase, reported, reason, stop_strings,
                       emitted, deltas, truncated, failed>>
    BY <1>2 DEF ClientLeaves, loopVars, closureVars
  <2> QED BY <2>1, OutcomeKinds
          DEF TextInv, TextTypesOK, StreamInv, OutcomeInv
<1>3. CASE UNCHANGED vars
  BY <1>3 DEF vars, TextInv, TextTypesOK, StreamInv, OutcomeInv, FinishReason
<1>4. CASE Loop /\ UNCHANGED <<client, outcome, stop_strings>>
  <2>1. /\ UNCHANGED <<reported, stop_strings, emitted, deltas, truncated,
                       failed, client, outcome>>
        /\ phase # "ended" /\ reason' # "Cancelled"
    BY <1>4, LoopAssumption
    DEF Loop, LoopInv, Prefill, LoopFails, Decode, Exhausted, Sample, End,
        closureVars
  <2>2. reason = None /\ reason # "Cancelled"
    BY <2>1, LoopAssumption DEF LoopInv
  <2> QED BY <2>1, <2>2 DEF TextInv, TextTypesOK, StreamInv, OutcomeInv
<1>5. CASE Callback /\ UNCHANGED <<client, outcome, stop_strings>>
  BY <1>5, CallbackStep
<1>6. CASE Return /\ UNCHANGED stop_strings
  BY <1>6, ReturnStep
<1>7. Next \/ UNCHANGED vars \/ Refused
  BY RequestSteps
<1>8. ASSUME Next
      PROVE  \/ Loop /\ UNCHANGED <<client, outcome, stop_strings>>
             \/ Callback /\ UNCHANGED <<client, outcome, stop_strings>>
             \/ Return /\ UNCHANGED stop_strings
             \/ ReturnError /\ UNCHANGED stop_strings
             \/ ClientLeaves /\ UNCHANGED stop_strings
  BY <1>8 DEF Next
<1> QED BY <1>1, <1>2, <1>3, <1>4, <1>5, <1>6, <1>7, <1>8
-----------------------------------------------------------------------------
(* The loop keeps its contract whatever the tokenizer does: at most        *)
(* max_tokens tokens, a reason that is true, no stop token to on_token.    *)
LEMMA LoopAlways == RequestSpec => []LoopInv
<1>1. RequestInit => LoopInv
  BY LoopInitInv DEF RequestInit, Init
<1>2. LoopInv /\ [RequestNext]_allVars => LoopInv'
  BY LoopSteps, LoopStep
<1> QED BY <1>1, <1>2, PTL DEF RequestSpec

THEOREM LoopKeepsContract == RequestSpec => []LoopContract
BY LoopAlways, LoopInvGives, PTL

(* The decoder evaluates each reported token once, in order, before the    *)
(* next one is sampled: its caches stay aligned with the text.             *)
THEOREM DecoderKeepsUp == RequestSpec => []DecoderFollows
BY LoopAlways, LoopInvGives, PTL

LEMMA TextAlways ==
    ASSUME TokenizerKeepsText PROVE RequestSpec => [](LoopInv /\ TextInv)
<1>1. RequestInit => LoopInv /\ TextInv
  BY TextInit DEF RequestInit
<1>2. (LoopInv /\ TextInv) /\ [RequestNext]_allVars => (LoopInv /\ TextInv)'
  BY LoopSteps, LoopStep, TextStep
<1> QED BY <1>1, <1>2, PTL DEF RequestSpec

THEOREM ChatTypeCorrect ==
    ASSUME TokenizerKeepsText PROVE RequestSpec => []TypeOK
<1>1. LoopInv /\ TextInv => TypeOK
  BY DEF LoopInv, TextInv, TextTypesOK, TypeOK
<1> QED BY <1>1, TextAlways, PTL

LEMMA CurrentText ==
    ASSUME TokenizerKeepsText, LoopInv, Current # Undecodable
    PROVE  Current \in Seq(Char) /\ Len(Current) \in Nat
BY TextTypes DEF Current, LoopInv, LoopTypeOK

(* What went to the client is at every moment a beginning of the text      *)
(* decoded so far, and ends before a character that is still incomplete.   *)
THEOREM StreamNeverTakesBack ==
    ASSUME TokenizerKeepsText PROVE RequestSpec => []StreamIsStable
<1>1. ASSUME LoopInv, TextInv, Current # Undecodable
      PROVE  /\ emitted <= Len(Current)
             /\ deltas = Prefix(Current, emitted)
             /\ outcome = None /\ EndsBroken(Current) => emitted < Len(Current)
  <2>1. Current \in Seq(Char) /\ reported \in Seq(Token)
        /\ stop_strings \in StopChoices /\ emitted \in Nat
    BY <1>1, CurrentText DEF LoopInv, LoopTypeOK, TextInv, TextTypesOK
  <2>2. CASE truncated # None
    <3>1. Cut(stop_strings, reported, emitted, deltas, truncated)
      BY <1>1, <2>2 DEF TextInv, StreamInv
    <3> QED BY <2>1, <3>1, FirstStopIsFirst DEF Cut, Current
  <2>3. CASE truncated = None /\ outcome \notin Completed
    <3>1. Sent(stop_strings, reported, emitted, deltas)
      BY <1>1, <2>3 DEF TextInv, StreamInv
    <3> QED BY <1>1, <2>1, <3>1, SentFacts DEF Current
  <2>4. CASE truncated = None /\ outcome \in Completed
    <3>1. deltas = Current /\ emitted = Len(Current) /\ outcome # None
      BY <1>1, <2>4, OutcomeKinds DEF TextInv, OutcomeInv, Current
    <3> QED BY <2>1, <3>1, WholePrefix
  <2> QED BY <2>2, <2>3, <2>4
<1>2. LoopInv /\ TextInv => StreamIsStable
  BY <1>1 DEF StreamIsStable
<1> QED BY <1>2, TextAlways, PTL

(* The deltas of a finished request add up to the text it returns.         *)
THEOREM StreamedIsReturned ==
    ASSUME TokenizerKeepsText PROVE RequestSpec => []DeltasAddUp
<1>1. TextInv => DeltasAddUp
  BY OutcomeKinds DEF TextInv, TextTypesOK, OutcomeInv, DeltasAddUp
<1> QED BY <1>1, TextAlways, PTL

(* Nothing from the first stop string on is sent, but at the end of a      *)
(* generation that stopped within a character.                             *)
THEOREM StopsStayInside ==
    ASSUME TokenizerKeepsText PROVE RequestSpec => []NoStopLeaks
<1>1. ASSUME LoopInv, TextInv, Current # Undecodable, HasStop(Current)
      PROVE  \/ Len(deltas) <= EarliestStop(Current)
             \/ outcome # None /\ EndsBroken(Current)
  <2>1. Current \in Seq(Char) /\ reported \in Seq(Token)
        /\ stop_strings \in StopChoices /\ emitted \in Nat
    BY <1>1, CurrentText DEF LoopInv, LoopTypeOK, TextInv, TextTypesOK
  <2>2. /\ StopsIn(stop_strings, Current) # {}
        /\ EarliestStop(Current) = FirstStop(stop_strings, Current)
    BY <1>1, SameStops
  <2>3. /\ FirstStop(stop_strings, Current) \in 0..Len(Current)
        /\ FirstStop(stop_strings, Current) \in StopsIn(stop_strings, Current)
    BY <2>1, <2>2, FirstStopIsFirst
  <2>4. CASE truncated # None
    <3>1. Cut(stop_strings, reported, emitted, deltas, truncated)
      BY <1>1, <2>4 DEF TextInv, StreamInv
    <3> QED BY <2>1, <2>2, <2>3, <3>1, PrefixIs DEF Cut, Current
  <2>5. CASE truncated = None /\ outcome \notin Completed
    <3>1. Sent(stop_strings, reported, emitted, deltas)
      BY <1>1, <2>5 DEF TextInv, StreamInv
    <3>2. /\ emitted \in 0..Len(Current) /\ deltas = Prefix(Current, emitted)
          /\ emitted <= FirstStop(stop_strings, Current)
      BY <1>1, <2>1, <2>3, <3>1, SentFacts DEF Current
    <3> QED BY <2>1, <2>2, <3>2, PrefixIs
  <2>6. CASE truncated = None /\ outcome \in Completed
    <3>1. Looked(stop_strings, reported) /\ outcome # None
      BY <1>1, <2>6, OutcomeKinds DEF TextInv, OutcomeInv, StreamInv
    <3> QED BY <2>2, <3>1 DEF Looked, Current
  <2> QED BY <2>4, <2>5, <2>6
<1>2. LoopInv /\ TextInv => NoStopLeaks
  BY <1>1 DEF NoStopLeaks
<1> QED BY <1>2, TextAlways, PTL

(* "cancelled" only for a client that left, "length" only for max_tokens   *)
(* tokens, "stop" only at a stop token or at the first stop string.        *)
THEOREM FinishReasonIsTrue ==
    ASSUME TokenizerKeepsText PROVE RequestSpec => []FinishReasonTells
<1>1. ASSUME LoopInv, TextInv, outcome # None, outcome.kind = "ok"
      PROVE  FinishReasonTells
  <2>1. /\ phase = "ended" /\ reason # "Error" /\ ~failed
        /\ outcome.text =
               IF truncated # None THEN truncated ELSE Text(reported)
        /\ outcome.finish_reason = FinishReason
    BY <1>1, OutcomeKinds DEF TextInv, TextTypesOK, OutcomeInv
  <2>2. reason \in {"StopToken", "MaxTokens", "Cancelled"}
    BY <1>1, <2>1 DEF LoopInv, LoopTypeOK, Reasons
  <2>3. truncated # None => reason = "Cancelled"
    BY <1>1 DEF TextInv, StreamInv
  <2>4. CASE reason = "StopToken"
    <3>1. /\ outcome.finish_reason = "stop" /\ outcome.text = Current
          /\ Last(sampled) \in StopTokens
      BY <1>1, <2>1, <2>3, <2>4 DEF FinishReason, LoopInv, Current
    <3> QED BY <3>1 DEF FinishReasonTells
  <2>5. CASE reason = "MaxTokens"
    <3>1. /\ outcome.finish_reason = "length" /\ outcome.text = Current
          /\ Len(sampled) = MaxTokens
      BY <1>1, <2>1, <2>3, <2>5 DEF FinishReason, LoopInv, Current
    <3> QED BY <3>1 DEF FinishReasonTells
  <2>6. CASE reason = "Cancelled" /\ truncated = None
    <3>1. outcome.finish_reason = "cancelled" /\ client = "gone"
      BY <1>1, <2>1, <2>6 DEF FinishReason, TextInv, StreamInv
    <3> QED BY <3>1 DEF FinishReasonTells
  <2>7. CASE reason = "Cancelled" /\ truncated # None
    <3>1. Cut(stop_strings, reported, emitted, deltas, truncated)
      BY <1>1, <2>7 DEF TextInv, StreamInv
    <3>2. Current # Undecodable
      BY <3>1 DEF Cut, Current
    <3>3. Current \in Seq(Char)
      BY <1>1, <3>2, CurrentText
    <3>4. FirstStop(stop_strings, Current) \in 0..Len(Current)
      BY <3>1, <3>3, FirstStopIsFirst DEF Cut, Current
    <3>5. outcome.text = Prefix(Current, FirstStop(stop_strings, Current))
      BY <2>1, <2>7, <3>1 DEF Cut, Current
    <3>6. Len(outcome.text) = FirstStop(stop_strings, Current)
      BY <3>3, <3>4, <3>5, PrefixIs
    <3>7. /\ HasStop(Current)
          /\ EarliestStop(Current) = FirstStop(stop_strings, Current)
      BY <3>1, SameStops DEF Cut, Current
    <3>8. outcome.finish_reason = "stop"
      BY <2>1, <2>7 DEF FinishReason
    <3> QED BY <3>6, <3>7, <3>8 DEF FinishReasonTells
  <2> QED BY <2>2, <2>4, <2>5, <2>6, <2>7
<1>2. LoopInv /\ TextInv => FinishReasonTells
  <2>1. ~(outcome # None /\ outcome.kind = "ok") => FinishReasonTells
    BY DEF FinishReasonTells
  <2> QED BY <1>1, <2>1
<1> QED BY <1>2, TextAlways, PTL
-----------------------------------------------------------------------------
(* The sampler.  Logits that are numbers have a last largest one, which is *)
(* what a greedy request gets.                                             *)
Numbers(scores) ==
    /\ Len(scores) \in Nat
    /\ \A i \in 1..Len(scores) : scores[i] \in Int

IsLastMaximum(scores, n, i) ==
    \A j \in 1..n :
        scores[j] < scores[i] \/ (scores[j] = scores[i] /\ j <= i)

LEMMA MaximumExists ==
    ASSUME NEW scores, NEW n \in Nat \ {0}, \A i \in 1..n : scores[i] \in Int
    PROVE  \E i \in 1..n : IsLastMaximum(scores, n, i)
<1> DEFINE Without ==
              {k \in 1..n : ~ \E i \in 1..k : IsLastMaximum(scores, k, i)}
<1>1. SUFFICES ASSUME Without # {} PROVE FALSE
  <2>1. n \in 1..n
    OBVIOUS
  <2> QED BY <2>1
<1>2. PICK k \in Without : \A m \in Without : k <= m
  <2>1. Without \subseteq Nat
    OBVIOUS
  <2> HIDE DEF Without
  <2> QED BY <1>1, <2>1, LeastOf
<1>3. k \in 1..n /\ ~ \E i \in 1..k : IsLastMaximum(scores, k, i)
  BY <1>2
<1>4. k # 1
  <2>1. SUFFICES ASSUME k = 1 PROVE FALSE
    OBVIOUS
  <2>2. IsLastMaximum(scores, 1, 1) /\ 1 \in 1..1
    BY <2>1 DEF IsLastMaximum
  <2> QED BY <1>3, <2>1, <2>2
<1>5. k - 1 \in 1..n /\ k - 1 \notin Without
  BY <1>2, <1>3, <1>4
<1>6. PICK i \in 1..(k - 1) : IsLastMaximum(scores, k - 1, i)
  BY <1>5
<1> HIDE DEF Without
<1>7. /\ scores[i] \in Int /\ scores[k] \in Int /\ i \in 1..k /\ k \in 1..k
      /\ \A j \in 1..k : (j \in 1..(k - 1) \/ j = k) /\ scores[j] \in Int
  BY <1>3, <1>6
<1>8. CASE scores[i] > scores[k]
  <2>1. IsLastMaximum(scores, k, i)
    BY <1>6, <1>7, <1>8 DEF IsLastMaximum
  <2> QED BY <1>3, <1>7, <2>1
<1>9. CASE ~(scores[i] > scores[k])
  <2>1. IsLastMaximum(scores, k, k)
    BY <1>3, <1>6, <1>7, <1>9 DEF IsLastMaximum
  <2> QED BY <1>3, <1>7, <2>1
<1> QED BY <1>8, <1>9

LEMMA ArgmaxIs ==
    ASSUME NEW scores, Numbers(scores), scores # <<>>, Len(scores) # 0
    PROVE  /\ Argmax(scores) \in 1..Len(scores)
           /\ \A j \in 1..Len(scores) : ~(scores[j] > scores[Argmax(scores)])
<1>1. \E i \in 1..Len(scores) : IsLastMaximum(scores, Len(scores), i)
  BY MaximumExists DEF Numbers
<1>2. Argmax(scores) \in 1..Len(scores)
      /\ IsLastMaximum(scores, Len(scores), Argmax(scores))
  BY <1>1 DEF Argmax, IsLastMaximum
<1> QED BY <1>2 DEF IsLastMaximum, Numbers

(* How many scores come before one in the sorted order: each number below  *)
(* that of the scores is the rank of one of them.                          *)
Before(scores, i) == {j \in 1..Len(scores) : Precedes(scores, j, i)}

LEMMA BeforeIsFinite ==
    ASSUME NEW scores, Numbers(scores), NEW i \in 1..Len(scores)
    PROVE  /\ IsFiniteSet(Before(scores, i))
           /\ Cardinality(Before(scores, i)) \in 0..(Len(scores) - 1)
<1>1. /\ IsFiniteSet(1..Len(scores))
      /\ Cardinality(1..Len(scores)) = Len(scores)
  BY FS_Interval DEF Numbers
<1>2. /\ IsFiniteSet(1..Len(scores) \ {i})
      /\ Cardinality(1..Len(scores) \ {i}) = Len(scores) - 1
  BY <1>1, FS_RemoveElement
<1>3. Before(scores, i) \in SUBSET (1..Len(scores) \ {i})
  BY DEF Before, Precedes, Numbers
<1>4. /\ IsFiniteSet(Before(scores, i))
      /\ Cardinality(Before(scores, i)) <= Len(scores) - 1
  BY <1>2, <1>3, FS_Subset
<1>5. Cardinality(Before(scores, i)) \in Nat
  BY <1>4, FS_CardinalityType
<1> QED BY <1>4, <1>5 DEF Numbers

LEMMA RanksDiffer ==
    ASSUME NEW scores, Numbers(scores), NEW i \in 1..Len(scores),
           NEW j \in 1..Len(scores), Precedes(scores, i, j)
    PROVE  Cardinality(Before(scores, i)) < Cardinality(Before(scores, j))
<1>1. i \in Before(scores, j)
  BY DEF Before
<1>2. Before(scores, i) \in SUBSET (Before(scores, j) \ {i})
  BY DEF Before, Precedes, Numbers
<1>3. /\ IsFiniteSet(Before(scores, j) \ {i})
      /\ Cardinality(Before(scores, j) \ {i})
             = Cardinality(Before(scores, j)) - 1
  BY <1>1, BeforeIsFinite, FS_RemoveElement
<1>4. Cardinality(Before(scores, i)) <= Cardinality(Before(scores, j)) - 1
  BY <1>2, <1>3, FS_Subset
<1> QED BY <1>4, BeforeIsFinite

LEMMA EachRankTaken ==
    ASSUME NEW scores, Numbers(scores), NEW n \in 1..Len(scores)
    PROVE  \E i \in 1..Len(scores) : Cardinality(Before(scores, i)) = n - 1
<1> DEFINE S == 1..Len(scores)
           rank == [i \in S |-> Cardinality(Before(scores, i)) + 1]
<1>1. rank \in [S -> S]
  <2>1. ASSUME NEW i \in S PROVE Cardinality(Before(scores, i)) + 1 \in S
    BY BeforeIsFinite DEF Numbers
  <2> QED BY <2>1
<1>2. ASSUME NEW i \in S, NEW j \in S, rank[i] = rank[j] PROVE i = j
  <2>1. SUFFICES ASSUME i # j PROVE FALSE
    OBVIOUS
  <2>2. Precedes(scores, i, j) \/ Precedes(scores, j, i)
    BY <2>1 DEF Precedes, Numbers
  <2>3. /\ Cardinality(Before(scores, i)) \in Nat
        /\ Cardinality(Before(scores, j)) \in Nat
    BY BeforeIsFinite
  <2>4. Cardinality(Before(scores, i)) = Cardinality(Before(scores, j))
    BY <1>2, <2>3
  <2> QED BY <2>2, <2>3, <2>4, RanksDiffer
<1> HIDE DEF rank
<1>3. rank \in Injection(S, S)
  BY <1>1, <1>2 DEF Injection, IsInjective
<1>4. IsFiniteSet(S)
  BY FS_Interval DEF Numbers
<1>5. rank \in Surjection(S, S)
  BY <1>3, <1>4, FS_Injection
<1>6. PICK i \in S : rank[i] = n
  BY <1>5 DEF Surjection
<1>7. Cardinality(Before(scores, i)) = n - 1
  BY <1>6, BeforeIsFinite DEF rank
<1> QED BY <1>7

(* The sorted scores are all of them, each behind those that come before.  *)
LEMMA SortedRanks ==
    ASSUME NEW scores, Numbers(scores)
    PROVE  LET s == Sorted(scores, 1..Len(scores)) IN
           /\ s \in Seq(1..Len(scores)) /\ Len(s) = Len(scores)
           /\ \A n \in 1..Len(scores) :
                  Cardinality(Before(scores, s[n])) = n - 1
<1> DEFINE size == Len(scores)
           s == Sorted(scores, 1..size)
           Ranked(n) == CHOOSE i \in 1..size :
                            Cardinality(Before(scores, i)) = n - 1
<1>1. Cardinality(1..size) = size /\ size \in Nat
  <2>1. size \in Nat
    BY DEF Numbers
  <2> HIDE DEF size
  <2> QED BY <2>1, FS_Interval
<1>2. s = [n \in 1..size |-> Ranked(n)]
  BY <1>1 DEF Sorted, Before
<1>3. ASSUME NEW n \in 1..size
      PROVE  /\ Ranked(n) \in 1..size
             /\ Cardinality(Before(scores, Ranked(n))) = n - 1
  BY EachRankTaken
<1> HIDE DEF Ranked, s
<1>4. s \in [1..size -> 1..size]
        /\ \A n \in 1..size : Cardinality(Before(scores, s[n])) = n - 1
  BY <1>2, <1>3
<1>5. s \in Seq(1..size)
  BY <1>1, <1>4, SeqDef
<1>6. Len(s) = size
  <2>1. Len(s) \in Nat /\ DOMAIN s = 1..Len(s) /\ DOMAIN s = 1..size
    BY <1>4, <1>5, LenProperties
  <2> QED BY <1>1, <2>1
<1> QED BY <1>4, <1>5, <1>6 DEF s

(* A candidate has fewer than top_k scores above it. *)
LEMMA CandidatesAreBest ==
    ASSUME NEW scores, Numbers(scores), Len(scores) # 0,
           NEW top_k \in Nat \ {0}
    PROVE  LET c == Candidates(scores, top_k) IN
           /\ Len(c) \in Nat \ {0}
           /\ \A n \in 1..Len(c) :
                  /\ c[n] \in 1..Len(scores)
                  /\ Cardinality({j \in 1..Len(scores) :
                                     scores[j] > scores[c[n]]}) < top_k
<1> DEFINE s == Sorted(scores, 1..Len(scores))
           size == IF top_k < Len(s) THEN top_k ELSE Len(s)
           c == SubSeq(s, 1, size)
<1>1. /\ s \in Seq(1..Len(scores)) /\ Len(s) = Len(scores)
      /\ \A n \in 1..Len(scores) : Cardinality(Before(scores, s[n])) = n - 1
  BY SortedRanks
<1>2. Candidates(scores, top_k) = c
  BY DEF Candidates, AtMost
<1> HIDE DEF s
<1>3. size \in 1..Len(s) /\ size <= top_k /\ Len(s) \in Nat
  BY <1>1 DEF Numbers
<1> HIDE DEF size
<1>4. Len(c) = size /\ \A n \in 1..size : c[n] = s[n]
  <2>1. \A n \in 1..size : s[n] \in 1..Len(scores)
    BY <1>1, <1>3, ElementOfSeq
  <2>2. /\ Len(c) = IF 1 <= size THEN size - 1 + 1 ELSE 0
        /\ \A n \in 1..(size - 1 + 1) : c[n] = s[1 + n - 1]
    BY <1>3, <2>1, SubSeqProperties
  <2> HIDE DEF c
  <2> QED BY <1>3, <2>2
<1> HIDE DEF c
<1>5. ASSUME NEW n \in 1..size
      PROVE  /\ c[n] \in 1..Len(scores)
             /\ Cardinality({j \in 1..Len(scores) :
                                scores[j] > scores[c[n]]}) < top_k
  <2> DEFINE better == {j \in 1..Len(scores) : scores[j] > scores[c[n]]}
  <2>1. n \in 1..Len(scores) /\ n <= top_k
    BY <1>1, <1>3
  <2>2. c[n] \in 1..Len(scores) /\ Cardinality(Before(scores, c[n])) = n - 1
    <3>1. s[n] \in 1..Len(scores)
      BY <1>1, <2>1, ElementOfSeq
    <3> QED BY <1>1, <1>4, <2>1, <3>1
  <2>3. better \in SUBSET Before(scores, c[n])
    BY DEF Before, Precedes
  <2>4. IsFiniteSet(Before(scores, c[n]))
    BY <2>2, BeforeIsFinite
  <2>5. IsFiniteSet(better) /\ Cardinality(better) <= n - 1
    BY <2>2, <2>3, <2>4, FS_Subset
  <2>6. Cardinality(better) \in Nat
    BY <2>5, FS_CardinalityType
  <2> HIDE DEF better
  <2>7. Cardinality(better) < top_k
    BY <2>1, <2>5, <2>6
  <2> QED BY <2>2, <2>7 DEF better
<1> QED BY <1>2, <1>3, <1>4, <1>5

(* Whatever the threshold, one of the candidates is picked. *)
LEMMA FirstHit ==
    ASSUME NEW size \in Nat \ {0}, NEW hits, hits \subseteq 1..size
    PROVE  (IF hits = {} THEN size
            ELSE CHOOSE n \in hits : \A m \in hits : n <= m) \in 1..size
<1>1. CASE hits = {}
  BY <1>1
<1>2. CASE hits # {}
  <2>1. hits \subseteq Nat
    OBVIOUS
  <2>2. \E n \in hits : \A m \in hits : n <= m
    BY <1>2, <2>1, LeastOf
  <2> QED BY <1>2, <2>2
<1> QED BY <1>1, <1>2

LEMMA PickedIsIn ==
    ASSUME NEW weights, Len(weights) \in Nat \ {0}, NEW t
    PROVE  Picked(weights, t) \in 1..Len(weights)
<1>1. \A hits : hits \subseteq 1..Len(weights) =>
          (IF hits = {} THEN Len(weights)
           ELSE CHOOSE n \in hits : \A m \in hits : n <= m) \in 1..Len(weights)
  BY FirstHit
<1>2. {n \in 1..Len(weights) :
          t <= Upto(weights, n)} \subseteq 1..Len(weights)
  BY Zenon
<1> QED BY <1>1, <1>2, Zenon DEF Picked

(* What `sample` may return, for any scores and request. *)
LEMMA SampledIsAllowed ==
    ASSUME NEW scores \in Seq(Int \cup {NotFinite}), NEW choice,
           choice.top_k \in Nat, ValidSampling(choice),
           NEW i \in Sampled(scores, choice)
    PROVE  /\ i \in 1..Len(scores)
           /\ \A j \in 1..Len(scores) : scores[j] # NotFinite
           /\ LET better == {j \in 1..Len(scores) : scores[j] > scores[i]} IN
              /\ Cardinality(better) < choice.top_k
              /\ choice.temperature = "zero" => better = {}
<1> DEFINE better == {j \in 1..Len(scores) : scores[j] > scores[i]}
           candidates == Candidates(scores, choice.top_k)
<1>1. ValidLogits(scores)
  BY Zenon DEF Sampled
<1>2. Numbers(scores) /\ Len(scores) # 0
  <2>1. Len(scores) \in Nat /\ \A j \in 1..Len(scores) : scores[j] \in Int
    BY <1>1, LenProperties, ElementOfSeq DEF ValidLogits
  <2>2. Len(scores) # 0
    BY <1>1, EmptySeq DEF ValidLogits
  <2> QED BY <2>1, <2>2 DEF Numbers
<1>3. choice.top_k \in Nat \ {0}
  BY DEF ValidSampling
<1>4. CASE choice.temperature = "zero"
  <2>1. i = Argmax(scores)
    <3>1. Sampled(scores, choice) = {Argmax(scores)}
      BY <1>1, <1>4, Zenon DEF Sampled
    <3> QED BY <3>1
  <2>2. i \in 1..Len(scores) /\ better = {}
    BY <1>1, <1>2, <2>1, ArgmaxIs DEF ValidLogits
  <2>3. Cardinality(better) = 0
    BY <2>2, FS_EmptySet
  <2> HIDE DEF better
  <2>4. Cardinality(better) < choice.top_k
    BY <1>3, <2>3
  <2> QED BY <1>1, <2>2, <2>4 DEF ValidLogits, better
<1>5. CASE choice.temperature # "zero"
  <2> DEFINE weights == [n \in 1..Len(candidates) |->
                 Weight(scores, candidates, choice.temperature, n)]
             total == Upto(weights, Len(weights))
  <2>1. i \in {candidates[Picked(weights, t)] : t \in 0..(total + 1)}
    BY <1>1, <1>5, Zenon DEF Sampled
  <2>2. PICK t : i = candidates[Picked(weights, t)]
    BY <2>1, Zenon
  <2> HIDE DEF candidates, total
  <2>3. /\ Len(candidates) \in Nat \ {0}
        /\ \A n \in 1..Len(candidates) :
               /\ candidates[n] \in 1..Len(scores)
               /\ Cardinality({j \in 1..Len(scores) :
                      scores[j] > scores[candidates[n]]}) < choice.top_k
    BY <1>2, <1>3, CandidatesAreBest DEF candidates
  <2>4. Len(weights) = Len(candidates)
    OBVIOUS
  <2> HIDE DEF weights
  <2>5. Picked(weights, t) \in 1..Len(candidates)
    BY <2>3, <2>4, PickedIsIn
  <2>6. i \in 1..Len(scores) /\ Cardinality(better) < choice.top_k
    BY <2>2, <2>3, <2>5
  <2> QED BY <1>1, <1>5, <2>6 DEF ValidLogits
<1> QED BY <1>4, <1>5

(* While the loop runs the request's configuration is one that validate    *)
(* accepts, and at the head of an iteration there are logits to draw from. *)
DrawInv ==
    /\ sampling \in SamplingChoices
    /\ phase \notin {"start", "ended"} => ValidSampling(sampling)
    /\ phase = "top" => logits \in LogitsChoices

LEMMA DrawsKept == DrawInv /\ [RequestNext]_allVars => DrawInv'
<1> SUFFICES ASSUME DrawInv, [RequestNext]_allVars PROVE DrawInv'
  OBVIOUS
<1>1. CASE Generate
  <2>1. [LoopNext]_loopVars
    BY LoopSteps
  <2>2. phase' \notin {"start", "ended"} =>
            phase \notin {"start", "ended"} \/ (phase = "start" /\ phase' = "top")
    BY <2>1
    DEF LoopNext, Prefill, LoopFails, CancelledAtTop, Decode, Exhausted, Sample,
        OnToken, End, loopVars
  <2>3. phase' = "top" => logits' \in LogitsChoices
    BY <1>1 DEF Generate, Draws, DrawInv
  <2> QED BY <1>1, <2>2, <2>3 DEF Generate, DrawInv, ValidSampling
<1>2. ASSUME UNCHANGED <<phase, sampling, logits>> PROVE DrawInv'
  BY <1>2 DEF DrawInv, ValidSampling
<1>3. CASE PrepareChat \/ PrepareCompletion \/ Refuse \/ UNCHANGED allVars
  BY <1>2, <1>3
  DEF PrepareChat, PrepareCompletion, Refuse, allVars, vars, loopVars
<1> QED BY <1>1, <1>3 DEF RequestNext

(* A token is added at the head of an iteration only, and drawn there.     *)
LEMMA SampledHere ==
    ASSUME [RequestNext]_allVars, sampled' # sampled
    PROVE  /\ phase = "top"
           /\ \E i \in Sampled(logits, sampling) : Vocab[i] = Last(sampled')
<1>1. [LoopNext]_loopVars
  BY LoopSteps
<1>2. phase = "top" /\ phase' # "top"
  BY <1>1
  DEF LoopNext, Prefill, LoopFails, CancelledAtTop, Decode, Exhausted, Sample,
      OnToken, End, loopVars
<1>3. Generate
  BY DEF RequestNext, PrepareChat, PrepareCompletion, Refuse, allVars, vars,
         loopVars
<1>4. Draws
  BY <1>3 DEF Generate
<1> QED BY <1>2, <1>4 DEF Draws

(* Each token is one that the request allows: among the top_k most likely, *)
(* a largest one if the temperature is 0, and never from logits that are   *)
(* not numbers or a configuration that validate refuses (sample, validate, *)
(* generate_with), for any logits, however many ties they have.            *)
THEOREM TokensAreAllowed == RequestSpec => DrawsAreAllowed
<1>1. RequestInit => DrawInv
  BY DEF RequestInit, Init, LoopInit, DrawInv
<1>2. ASSUME DrawInv, [RequestNext]_allVars, sampled' # sampled
      PROVE  \E i \in 1..Len(logits) :
                /\ Vocab[i] = Last(sampled')
                /\ ValidSampling(sampling)
                /\ \A j \in 1..Len(logits) : logits[j] # NotFinite
                /\ LET better == {j \in 1..Len(logits) : logits[j] > logits[i]}
                   IN /\ Cardinality(better) < sampling.top_k
                      /\ sampling.temperature = "zero" => better = {}
  <2>1. PICK i \in Sampled(logits, sampling) : Vocab[i] = Last(sampled')
    BY <1>2, SampledHere
  <2>2. /\ logits \in Seq(Int \cup {NotFinite}) /\ sampling.top_k \in Nat
        /\ ValidSampling(sampling)
    BY <1>2, SampledHere, RequestAssumption DEF DrawInv
  <2>3. /\ i \in 1..Len(logits)
        /\ \A j \in 1..Len(logits) : logits[j] # NotFinite
        /\ LET better == {j \in 1..Len(logits) : logits[j] > logits[i]} IN
           /\ Cardinality(better) < sampling.top_k
           /\ sampling.temperature = "zero" => better = {}
    BY <2>2, SampledIsAllowed
  <2> QED BY <2>1, <2>2, <2>3
<1>3. DrawInv /\ [RequestNext]_allVars =>
         [sampled' # sampled =>
            \E i \in 1..Len(logits) :
                /\ Vocab[i] = Last(sampled')
                /\ ValidSampling(sampling)
                /\ \A j \in 1..Len(logits) : logits[j] # NotFinite
                /\ LET better == {j \in 1..Len(logits) : logits[j] > logits[i]}
                   IN /\ Cardinality(better) < sampling.top_k
                      /\ sampling.temperature = "zero" => better = {}]_allVars
  BY <1>2
<1> QED BY <1>1, <1>3, DrawsKept, PTL DEF RequestSpec, DrawsAreAllowed
-----------------------------------------------------------------------------
(* Prompts.  What a piece is, by its kind.                                 *)
LEMMA Pieces ==
    /\ ~IsTurn(BeginOfText) /\ ~IsTurn(Opening) /\ Opening # BeginOfText
    /\ \A role, texts :
           /\ IsTurn(Turn(role, texts)) /\ Turn(role, texts) # BeginOfText
           /\ Turn(role, texts).role = role /\ Turn(role, texts).texts = texts
<1>1. BeginOfText.mark = "bos" /\ Opening.mark = "open"
  BY DEF BeginOfText, Opening
<1>2. \A role, texts : /\ Turn(role, texts).mark = "turn"
                       /\ Turn(role, texts).role = role
                       /\ Turn(role, texts).texts = texts
  BY DEF Turn
<1> QED BY <1>1, <1>2 DEF IsTurn

(* The system texts among which InForce chooses, and the choice.           *)
SystemSince(messages, i) ==
    {j \in 1..(i - 1) : /\ messages[j].role = "system"
                        /\ \A k \in j..(i - 1) : messages[k].role # "user"}

LEMMA InForceIs ==
    ASSUME NEW messages, NEW i
    PROVE  /\ SystemSince(messages, i) = {} => InForce(messages, i) = Empty
           /\ \A j \in SystemSince(messages, i) :
                  (\A k \in SystemSince(messages, i) : k <= j) =>
                      InForce(messages, i) = messages[j].content
<1>1. ASSUME NEW j \in SystemSince(messages, i),
             \A k \in SystemSince(messages, i) : k <= j
      PROVE  InForce(messages, i) = messages[j].content
  <2> DEFINE latest == CHOOSE n \in SystemSince(messages, i) :
                           \A k \in SystemSince(messages, i) : k <= n
  <2>1. /\ latest \in SystemSince(messages, i)
        /\ \A k \in SystemSince(messages, i) : k <= latest
    BY <1>1
  <2>2. InForce(messages, i) = messages[latest].content
    BY <1>1 DEF InForce, SystemSince
  <2>3. latest = j
    <3> HIDE DEF latest
    <3>1. latest <= j /\ j <= latest
      BY <1>1, <2>1
    <3> QED BY <2>1, <3>1 DEF SystemSince
  <2> QED BY <2>2, <2>3
<1> QED BY <1>1 DEF InForce, SystemSince

(* There is a latest one unless there is none.                             *)
LEMMA LatestSystem ==
    ASSUME NEW messages, NEW i \in Nat, SystemSince(messages, i) # {}
    PROVE  \E j \in SystemSince(messages, i) :
               \A k \in SystemSince(messages, i) : k <= j
<1> DEFINE since == SystemSince(messages, i)
           back == {i - j : j \in since}
<1>1. since \subseteq 1..(i - 1)
  BY DEF SystemSince
<1> HIDE DEF since
<1>2. back \subseteq Nat /\ back # {}
  BY <1>1 DEF since
<1> HIDE DEF back
<1>3. PICK x \in back : \A y \in back : x <= y
  BY <1>2, LeastOf
<1>4. PICK j \in since : x = i - j
  BY <1>3 DEF back
<1>5. ASSUME NEW k \in since PROVE k <= j
  <2>1. i - k \in back
    BY DEF back
  <2> QED BY <1>1, <1>3, <1>4, <2>1
<1> QED BY <1>4, <1>5 DEF since

(* A message changes what is in force as the template's loop does.         *)
LEMMA InForceStep ==
    ASSUME NEW messages, NEW n \in Nat
    PROVE  InForce(messages, n + 2) =
               CASE messages[n + 1].role = "system" -> messages[n + 1].content
                 [] messages[n + 1].role = "user" -> Empty
                 [] OTHER -> InForce(messages, n + 1)
<1>1. /\ n + 2 - 1 = n + 1 /\ n + 1 - 1 = n
      /\ n + 1 \in 1..(n + 1)
      /\ \A j \in 1..(n + 1) : j = n + 1 \/ j \in 1..n
      /\ \A j \in 1..n : j \in 1..(n + 1) /\ n + 1 \in j..(n + 1)
      /\ \A j \in 1..n : \A k \in j..(n + 1) : k = n + 1 \/ k \in j..n
      /\ \A j \in 1..n : \A k \in j..n : k \in j..(n + 1)
  OBVIOUS
<1>2. CASE messages[n + 1].role = "system"
  <2>1. \A k \in (n + 1)..(n + 1) : k = n + 1
    OBVIOUS
  <2>2. n + 1 \in SystemSince(messages, n + 2)
    BY <1>1, <1>2, <2>1 DEF SystemSince
  <2>3. \A k \in SystemSince(messages, n + 2) : k <= n + 1
    BY <1>1 DEF SystemSince
  <2> QED BY <1>2, <2>2, <2>3, InForceIs
<1>3. CASE messages[n + 1].role = "user"
  <2>1. SystemSince(messages, n + 2) = {}
    BY <1>1, <1>3 DEF SystemSince
  <2> QED BY <1>3, <2>1, InForceIs
<1>4. CASE messages[n + 1].role \notin {"system", "user"}
  <2>1. SystemSince(messages, n + 2) = SystemSince(messages, n + 1)
    BY <1>1, <1>4 DEF SystemSince
  <2>2. CASE SystemSince(messages, n + 1) = {}
    BY <1>4, <2>1, <2>2, InForceIs
  <2>3. CASE SystemSince(messages, n + 1) # {}
    <3>1. PICK j \in SystemSince(messages, n + 1) :
              \A k \in SystemSince(messages, n + 1) : k <= j
      BY <2>3, LatestSystem
    <3> QED BY <1>4, <2>1, <3>1, InForceIs
  <2> QED BY <2>2, <2>3
<1> QED BY <1>2, <1>3, <1>4

(* The same system text is in force where the same was said before, after  *)
(* d pieces that are none.                                                 *)
LEMMA InForceShifts ==
    ASSUME NEW x, NEW y, NEW d \in Nat, NEW i \in Nat \ {0},
           \A j \in 1..(i - 1) : /\ y[j + d].role = x[j].role
                                 /\ y[j + d].content = x[j].content,
           \A j \in 1..d : y[j].role # "system"
    PROVE  InForce(y, i + d) = InForce(x, i)
<1>1. \A j \in 1..(i - 1) :
          j + d \in SystemSince(y, i + d) <=> j \in SystemSince(x, i)
  <2> TAKE j \in 1..(i - 1)
  <2>1. ASSUME \A k \in j..(i - 1) : x[k].role # "user",
               NEW k \in (j + d)..(i + d - 1)
        PROVE  y[k].role # "user"
    <3>1. k - d \in j..(i - 1) /\ k - d \in 1..(i - 1) /\ (k - d) + d = k
      OBVIOUS
    <3> QED BY <2>1, <3>1
  <2>2. ASSUME \A k \in (j + d)..(i + d - 1) : y[k].role # "user",
               NEW k \in j..(i - 1)
        PROVE  x[k].role # "user"
    <3>1. k + d \in (j + d)..(i + d - 1) /\ k \in 1..(i - 1)
      OBVIOUS
    <3> QED BY <2>2, <3>1
  <2>3. j + d \in 1..(i + d - 1)
    OBVIOUS
  <2> QED BY <2>1, <2>2, <2>3 DEF SystemSince
<1>2. \A m \in SystemSince(y, i + d) :
          m - d \in 1..(i - 1) /\ (m - d) + d = m
  <2> TAKE m \in SystemSince(y, i + d)
  <2>1. m \in 1..(i + d - 1) /\ y[m].role = "system"
    BY DEF SystemSince
  <2>2. ~(m <= d)
    BY <2>1
  <2> QED BY <2>1, <2>2
<1>3. CASE SystemSince(x, i) = {}
  <2>1. SystemSince(y, i + d) = {}
    BY <1>1, <1>2, <1>3
  <2> QED BY <1>3, <2>1, InForceIs
<1>4. CASE SystemSince(x, i) # {}
  <2>1. PICK j \in SystemSince(x, i) : \A k \in SystemSince(x, i) : k <= j
    BY <1>4, LatestSystem
  <2>2. j \in 1..(i - 1)
    BY DEF SystemSince
  <2>3. j + d \in SystemSince(y, i + d)
    BY <1>1, <2>1, <2>2
  <2>4. ASSUME NEW m \in SystemSince(y, i + d) PROVE m <= j + d
    <3>1. m - d \in 1..(i - 1) /\ (m - d) + d = m
      BY <1>2
    <3>2. PICK k : k = m - d
      OBVIOUS
    <3>3. k \in SystemSince(x, i)
      BY <1>1, <3>1, <3>2
    <3>4. k <= j
      BY <2>1, <3>3
    <3> QED BY <2>2, <3>1, <3>2, <3>4
  <2>5. InForce(y, i + d) = y[j + d].content
    BY <2>3, <2>4, InForceIs
  <2>6. InForce(x, i) = x[j].content
    BY <2>1, InForceIs
  <2> QED BY <2>2, <2>5, <2>6
<1> QED BY <1>3, <1>4
-----------------------------------------------------------------------------
(* The loop over the messages of a Mistral prompt is defined, message by   *)
(* message.                                                                *)
AfterStep(messages, n, before) ==
    IF n = 0 THEN [prompt |-> <<BeginOfText>>, system |-> Empty]
    ELSE MistralMessage(before, messages[n])

IsAfter(messages, m, g) ==
    g = [n \in 0..m |-> AfterStep(messages, n, g[n - 1])]

After(messages) == CHOOSE g : IsAfter(messages, Len(messages), g)

LEMMA MistralIs ==
    \A messages : Mistral(messages) = After(messages)[Len(messages)].prompt
BY DEF Mistral, After, IsAfter, AfterStep

LEMMA AfterIsDefined ==
    ASSUME NEW messages, NEW m \in Nat
    PROVE  \E g : IsAfter(messages, m, g)
<1> DEFINE Without == {n \in Nat : ~ \E g : IsAfter(messages, n, g)}
<1>1. SUFFICES ASSUME Without # {} PROVE FALSE
  OBVIOUS
<1>2. PICK n \in Without : \A k \in Without : n <= k
  <2>1. Without \subseteq Nat
    OBVIOUS
  <2> HIDE DEF Without
  <2> QED BY <1>1, <2>1, LeastOf
<1>3. n \in Nat /\ ~ \E g : IsAfter(messages, n, g)
  BY <1>2
<1>4. CASE n = 0
  <2> DEFINE g == [k \in 0..0 |-> AfterStep(messages, 0, 0)]
  <2>1. \A k \in 0..0 : k = 0 /\ AfterStep(messages, k, g[k - 1]) = AfterStep(messages, 0, 0)
    BY DEF AfterStep
  <2>2. IsAfter(messages, 0, g)
    BY <2>1 DEF IsAfter
  <2> QED BY <1>3, <1>4, <2>2
<1>5. CASE n # 0
  <2>1. n - 1 \in Nat /\ n - 1 \notin Without
    BY <1>2, <1>3, <1>5
  <2>2. PICK g : IsAfter(messages, n - 1, g)
    BY <2>1
  <2> DEFINE h == [k \in 0..n |-> IF k = n THEN AfterStep(messages, n, g[n - 1])
                                  ELSE g[k]]
  <2>3. \A k \in 0..(n - 1) : g[k] = AfterStep(messages, k, g[k - 1])
    BY <2>2, Zenon DEF IsAfter
  <2>4. \A k \in 1..n : h[k - 1] = g[k - 1]
    BY <1>3
  <2>5. ASSUME NEW k \in 0..n
        PROVE  h[k] = AfterStep(messages, k, h[k - 1])
    <3>1. CASE k = 0
      <4>1. h[k] = g[0] /\ g[0] = AfterStep(messages, 0, g[0 - 1])
        BY <1>3, <1>5, <2>3, <3>1
      <4> QED BY <3>1, <4>1 DEF AfterStep
    <3>2. CASE k # 0
      <4>1. k \in 1..n /\ (k = n \/ k \in 0..(n - 1))
        BY <1>3, <3>2
      <4>2. h[k] = AfterStep(messages, k, g[k - 1])
        BY <2>3, <4>1
      <4> QED BY <2>4, <4>1, <4>2
    <3> QED BY <3>1, <3>2
  <2>6. h = [k \in 0..n |-> h[k]]
    OBVIOUS
  <2> HIDE DEF h
  <2>7. h = [k \in 0..n |-> AfterStep(messages, k, h[k - 1])]
    BY <2>5, <2>6, Zenon
  <2> QED BY <1>3, <2>7 DEF IsAfter
<1> QED BY <1>4, <1>5

LEMMA AfterEach ==
    ASSUME NEW messages, Len(messages) \in Nat
    PROVE  /\ After(messages)[0] =
                  [prompt |-> <<BeginOfText>>, system |-> Empty]
           /\ \A n \in 0..(Len(messages) - 1) :
                  After(messages)[n + 1] =
                      MistralMessage(After(messages)[n], messages[n + 1])
<1> DEFINE g == After(messages)
<1>1. IsAfter(messages, Len(messages), g)
  BY AfterIsDefined DEF After
<1> HIDE DEF g
<1>2. \A n \in 0..Len(messages) : g[n] = AfterStep(messages, n, g[n - 1])
  BY <1>1, Zenon DEF IsAfter
<1>3. 0 \in 0..Len(messages)
      /\ \A n \in 0..(Len(messages) - 1) :
             n + 1 \in 0..Len(messages) /\ n + 1 # 0 /\ (n + 1) - 1 = n
  OBVIOUS
<1>4. g[0] = [prompt |-> <<BeginOfText>>, system |-> Empty]
  BY <1>2, <1>3 DEF AfterStep
<1>5. ASSUME NEW n \in 0..(Len(messages) - 1)
      PROVE  g[n + 1] = MistralMessage(g[n], messages[n + 1])
  BY <1>2, <1>3 DEF AfterStep
<1> QED BY <1>4, <1>5 DEF g
-----------------------------------------------------------------------------
(* The turn that the Mistral loop makes of a message, and the pieces of    *)
(* its prompts.                                                            *)
TurnOf(messages, i) ==
    IF messages[i].role = "user"
    THEN Turn("user", IF InForce(messages, i) = Empty
                      THEN <<messages[i].content>>
                      ELSE <<InForce(messages, i), messages[i].content>>)
    ELSE Turn("assistant", <<messages[i].content>>)

MistralTurn == {Turn(role, texts) : role \in {"user", "assistant"},
                                    texts \in Seq(Content)}

SpokenUpTo(messages, n) == {i \in 1..n : messages[i].role # "system"}

(* What the loop has after n messages: the turns of those that are no      *)
(* system text, and the system text in force.                              *)
InOrder(turn, said, pieces) ==
    /\ \A j \in pieces : \E i \in said : turn[i] = j
    /\ \A i, k \in said : i < k => turn[i] < turn[k]

MistralInv(messages, n, acc) ==
    /\ acc \in [prompt : Seq(MistralTurn \cup {BeginOfText}), system : Content]
    /\ Len(acc.prompt) > 0 /\ acc.prompt[1] = BeginOfText
    /\ acc.system = InForce(messages, n + 1)
    /\ \E turn \in [SpokenUpTo(messages, n) -> 2..Len(acc.prompt)] :
           /\ InOrder(turn, SpokenUpTo(messages, n), 2..Len(acc.prompt))
           /\ \A i \in SpokenUpTo(messages, n) :
                  acc.prompt[turn[i]] = TurnOf(messages, i)

LEMMA MistralBegins ==
    ASSUME NEW messages, Empty \in Content
    PROVE  MistralInv(messages, 0,
                      [prompt |-> <<BeginOfText>>, system |-> Empty])
<1> DEFINE acc == [prompt |-> <<BeginOfText>>, system |-> Empty]
<1>1. /\ acc.prompt = <<BeginOfText>> /\ acc.system = Empty
      /\ acc \in [prompt : Seq(MistralTurn \cup {BeginOfText}), system : Content]
  OBVIOUS
<1>2. InForce(messages, 0 + 1) = Empty
  <2>1. SystemSince(messages, 0 + 1) = {}
    BY DEF SystemSince
  <2> QED BY <2>1, InForceIs
<1>3. SpokenUpTo(messages, 0) = {} /\ 2..Len(acc.prompt) = {}
  BY <1>1 DEF SpokenUpTo
<1>4. Len(acc.prompt) > 0 /\ acc.prompt[1] = BeginOfText
  BY <1>1
<1> HIDE DEF acc
<1>5. \E turn \in [{} -> {}] : TRUE
  <2> DEFINE none == [i \in {} |-> i]
  <2>1. none \in [{} -> {}]
    OBVIOUS
  <2> QED BY <2>1
<1>6. PICK turn \in [{} -> {}] : TRUE
  BY <1>5
<1>7. InOrder(turn, {}, {})
  BY DEF InOrder
<1> QED BY <1>1, <1>2, <1>3, <1>4, <1>6, <1>7 DEF MistralInv, acc

(* One more turn: the positions grow with it.                              *)
LEMMA MistralSays ==
    ASSUME NEW messages, NEW n \in Nat, NEW acc, NEW next,
           MistralInv(messages, n, acc),
           messages[n + 1].role # "system",
           TurnOf(messages, n + 1) \in MistralTurn,
           next \in [prompt : Seq(MistralTurn \cup {BeginOfText}),
                     system : Content],
           next.prompt = Append(acc.prompt, TurnOf(messages, n + 1)),
           next.system = InForce(messages, n + 2)
    PROVE  MistralInv(messages, n + 1, next)
<1> DEFINE p == acc.prompt
           q == next.prompt
           said == SpokenUpTo(messages, n)
           now == SpokenUpTo(messages, n + 1)
<1>1. /\ p \in Seq(MistralTurn \cup {BeginOfText})
      /\ Len(p) \in Nat /\ Len(p) > 0 /\ p[1] = BeginOfText
  BY DEF MistralInv
<1>2. /\ Len(q) = Len(p) + 1 /\ q[Len(p) + 1] = TurnOf(messages, n + 1)
      /\ \A j \in 1..Len(p) : q[j] = p[j]
  BY <1>1, AppendProperties
<1>3. PICK turn \in [said -> 2..Len(p)] :
          InOrder(turn, said, 2..Len(p))
          /\ \A i \in said : p[turn[i]] = TurnOf(messages, i)
  BY DEF MistralInv
<1>4. /\ now = said \cup {n + 1} /\ said \subseteq 1..n /\ n + 1 \notin said
      /\ now \subseteq 1..(n + 1)
  BY DEF SpokenUpTo
<1> HIDE DEF p, q, said, now
<1> DEFINE longer == [i \in now |-> IF i = n + 1 THEN Len(p) + 1 ELSE turn[i]]
<1>5. /\ longer[n + 1] = Len(p) + 1
      /\ \A i \in said : longer[i] = turn[i] /\ turn[i] \in 2..Len(p)
  BY <1>3, <1>4
<1>6. longer \in [now -> 2..Len(q)]
  <2>1. Len(p) + 1 \in 2..Len(q) /\ 2..Len(p) \subseteq 2..Len(q)
    BY <1>1, <1>2
  <2> QED BY <1>3, <1>4, <2>1
<1> HIDE DEF longer
<1>7. InOrder(longer, now, 2..Len(q))
  <2>1. ASSUME NEW j \in 2..Len(q) PROVE \E i \in now : longer[i] = j
    <3>1. j = Len(p) + 1 \/ j \in 2..Len(p)
      BY <1>1, <1>2
    <3>2. CASE j = Len(p) + 1
      BY <1>4, <1>5, <3>2
    <3>3. CASE j \in 2..Len(p)
      BY <1>3, <1>4, <1>5, <3>3 DEF InOrder
    <3> QED BY <3>1, <3>2, <3>3
  <2>2. ASSUME NEW i \in now, NEW k \in now, i < k
        PROVE  longer[i] < longer[k]
    <3>1. i \in said /\ (k = n + 1 \/ k \in said)
      <4>1. i # n + 1
        BY <1>4, <2>2
      <4> QED BY <1>4, <4>1
    <3>2. CASE k = n + 1
      BY <1>1, <1>5, <3>1, <3>2
    <3>3. CASE k \in said
      BY <1>3, <1>5, <2>2, <3>1, <3>3 DEF InOrder
    <3> QED BY <3>1, <3>2, <3>3
  <2> QED BY <2>1, <2>2 DEF InOrder
<1>8. ASSUME NEW i \in now PROVE q[longer[i]] = TurnOf(messages, i)
  <2>1. CASE i = n + 1
    BY <1>2, <1>5, <2>1
  <2>2. CASE i \in said
    <3>1. longer[i] = turn[i] /\ turn[i] \in 1..Len(p)
      BY <1>1, <1>5, <2>2
    <3>2. PICK j : j = turn[i]
      OBVIOUS
    <3> QED BY <1>2, <1>3, <2>2, <3>1, <3>2
  <2> QED BY <1>4, <2>1, <2>2
<1>9. Len(q) > 0 /\ q[1] = BeginOfText
  BY <1>1, <1>2
<1>10. (n + 1) + 1 = n + 2
  OBVIOUS
<1> QED BY <1>6, <1>7, <1>8, <1>9, <1>10 DEF MistralInv, q, now

LEMMA MistralStep ==
    ASSUME Empty \in Content, NEW messages \in Seq(Message),
           NEW n \in 0..(Len(messages) - 1),
           messages[n + 1].role \in {"system", "user", "assistant"},
           NEW acc, MistralInv(messages, n, acc)
    PROVE  MistralInv(messages, n + 1, MistralMessage(acc, messages[n + 1]))
<1> DEFINE message == messages[n + 1]
           next == MistralMessage(acc, message)
<1>1. /\ n \in Nat /\ n + 1 \in 1..Len(messages) /\ (n + 1) + 1 = n + 2
      /\ message.content \in Content
  <2>1. n \in Nat /\ n + 1 \in 1..Len(messages) /\ (n + 1) + 1 = n + 2
    OBVIOUS
  <2>2. messages[n + 1] \in Message
    BY <2>1, ElementOfSeq
  <2> QED BY <2>1, <2>2 DEF Message
<1>2. /\ acc \in [prompt : Seq(MistralTurn \cup {BeginOfText}), system : Content]
      /\ acc.system = InForce(messages, n + 1)
  BY DEF MistralInv
<1>3. acc.system \in Content /\ acc.prompt \in Seq(MistralTurn \cup {BeginOfText})
  BY <1>2
<1>4. CASE message.role = "system"
  <2>1. next = [acc EXCEPT !.system = message.content]
    BY <1>4 DEF MistralMessage
  <2>2. /\ next.prompt = acc.prompt /\ next.system = message.content
        /\ next \in [prompt : Seq(MistralTurn \cup {BeginOfText}), system : Content]
    BY <1>1, <1>2, <2>1
  <2>3. SpokenUpTo(messages, n + 1) = SpokenUpTo(messages, n)
    BY <1>1, <1>4 DEF SpokenUpTo
  <2>4. InForce(messages, n + 2) = message.content
    BY <1>1, <1>4, InForceStep
  <2> HIDE DEF message, next
  <2> QED BY <1>1, <2>2, <2>3, <2>4 DEF MistralInv, message, next
<1>5. CASE message.role = "user"
  <2> DEFINE texts == IF acc.system = Empty THEN <<message.content>>
                      ELSE <<acc.system, message.content>>
  <2>1. next = [prompt |-> Append(acc.prompt, Turn("user", texts)),
                system |-> Empty]
    BY <1>5 DEF MistralMessage
  <2>2. TurnOf(messages, n + 1) = Turn("user", texts)
    BY <1>2, <1>5 DEF TurnOf
  <2>3. texts \in Seq(Content)
    BY <1>1, <1>3
  <2> HIDE DEF texts
  <2>4. TurnOf(messages, n + 1) \in MistralTurn
    BY <2>2, <2>3 DEF MistralTurn
  <2>5. Append(acc.prompt, Turn("user", texts)) \in
            Seq(MistralTurn \cup {BeginOfText})
    BY <1>3, <2>2, <2>4, AppendProperties
  <2>6. /\ next \in [prompt : Seq(MistralTurn \cup {BeginOfText}), system : Content]
        /\ next.prompt = Append(acc.prompt, TurnOf(messages, n + 1))
        /\ next.system = Empty
    BY <2>1, <2>2, <2>5
  <2>7. InForce(messages, n + 2) = Empty
    BY <1>1, <1>5, InForceStep
  <2> HIDE DEF next
  <2>8. messages[n + 1].role # "system"
    BY <1>5
  <2>9. MistralInv(messages, n + 1, next)
    BY <1>1, <2>4, <2>6, <2>7, <2>8, MistralSays
  <2> QED BY <2>9 DEF next
<1>6. CASE message.role = "assistant"
  <2> DEFINE texts == <<message.content>>
  <2>1. next = [acc EXCEPT !.prompt =
                    Append(@, Turn("assistant", texts))]
    BY <1>6 DEF MistralMessage
  <2>2. TurnOf(messages, n + 1) = Turn("assistant", texts)
    BY <1>6 DEF TurnOf
  <2>3. texts \in Seq(Content)
    BY <1>1
  <2> HIDE DEF texts
  <2>4. TurnOf(messages, n + 1) \in MistralTurn
    BY <2>2, <2>3 DEF MistralTurn
  <2>5. Append(acc.prompt, TurnOf(messages, n + 1)) \in
            Seq(MistralTurn \cup {BeginOfText})
    BY <1>3, <2>4, AppendProperties
  <2>6. /\ next \in [prompt : Seq(MistralTurn \cup {BeginOfText}), system : Content]
        /\ next.prompt = Append(acc.prompt, TurnOf(messages, n + 1))
        /\ next.system = acc.system
    BY <1>2, <2>1, <2>2, <2>5
  <2>7. InForce(messages, n + 2) = InForce(messages, n + 1)
    BY <1>1, <1>6, InForceStep
  <2> HIDE DEF next
  <2>8. messages[n + 1].role # "system"
    BY <1>6
  <2>9. MistralInv(messages, n + 1, next)
    BY <1>1, <1>2, <2>4, <2>6, <2>7, <2>8, MistralSays
  <2> QED BY <2>9 DEF next
<1> QED BY <1>4, <1>5, <1>6

LEMMA MistralEnds ==
    ASSUME Empty \in Content, NEW messages \in Seq(Message),
           \A i \in 1..Len(messages) :
               messages[i].role \in {"system", "user", "assistant"}
    PROVE  MistralInv(messages, Len(messages), After(messages)[Len(messages)])
<1> DEFINE Wrong == {n \in 0..Len(messages) :
                        ~MistralInv(messages, n, After(messages)[n])}
<1>1. Len(messages) \in Nat
  OBVIOUS
<1>2. SUFFICES ASSUME Wrong # {} PROVE FALSE
  BY <1>1
<1>3. PICK n \in Wrong : \A k \in Wrong : n <= k
  <2>1. Wrong \subseteq Nat
    OBVIOUS
  <2> HIDE DEF Wrong
  <2> QED BY <1>2, <2>1, LeastOf
<1>4. n \in 0..Len(messages) /\ ~MistralInv(messages, n, After(messages)[n])
  BY <1>3
<1>5. n # 0
  BY <1>1, <1>4, AfterEach, MistralBegins
<1>6. PICK k : k = n - 1
  OBVIOUS
<1>7. /\ k \in 0..(Len(messages) - 1) /\ k + 1 = n /\ k + 1 \in 1..Len(messages)
      /\ k \in 0..Len(messages) /\ ~(n <= k)
  BY <1>1, <1>4, <1>5, <1>6
<1>8. MistralInv(messages, k, After(messages)[k])
  BY <1>3, <1>7
<1>9. MistralInv(messages, k + 1,
                 MistralMessage(After(messages)[k], messages[k + 1]))
  BY <1>7, <1>8, MistralStep
<1> QED BY <1>1, <1>4, <1>7, <1>9, AfterEach

(* A prompt of the Mistral loop tells what it has put into turns.          *)
LEMMA MistralTells ==
    ASSUME Empty \in Content, NEW messages \in Seq(Message),
           \A i \in 1..Len(messages) :
               messages[i].role \in {"system", "user", "assistant"}
    PROVE  /\ Tells(Mistral(messages), messages)
           /\ Len(Mistral(messages)) > 0
           /\ \A j \in 2..Len(Mistral(messages)) :
                  Mistral(messages)[j] # BeginOfText
<1> DEFINE p == Mistral(messages)
           said == Spoken(messages)
<1>1. /\ p \in Seq(MistralTurn \cup {BeginOfText})
      /\ Len(p) \in Nat /\ Len(p) > 0 /\ p[1] = BeginOfText
      /\ \E turn \in [said -> 2..Len(p)] :
             /\ InOrder(turn, said, 2..Len(p))
             /\ \A i \in said : p[turn[i]] = TurnOf(messages, i)
  <2>1. SpokenUpTo(messages, Len(messages)) = said
    BY DEF SpokenUpTo, Spoken
  <2>2. p = After(messages)[Len(messages)].prompt
    BY MistralIs
  <2> HIDE DEF p, said
  <2> QED BY <2>1, <2>2, MistralEnds DEF MistralInv
<1> HIDE DEF p
<1>2. PICK turn \in [said -> 2..Len(p)] :
          /\ InOrder(turn, said, 2..Len(p))
          /\ \A i \in said : p[turn[i]] = TurnOf(messages, i)
  BY <1>1
<1>3. ASSUME NEW j \in 2..Len(p)
      PROVE  /\ IsTurn(p[j]) /\ p[j].role # "system" /\ p[j] # BeginOfText
  <2>1. PICK i \in said : turn[i] = j
    BY <1>2 DEF InOrder
  <2>2. p[j] = TurnOf(messages, i)
    BY <1>2, <2>1
  <2>3. PICK texts :
            p[j] = Turn("user", texts) \/ p[j] = Turn("assistant", texts)
    BY <2>2 DEF TurnOf
  <2> HIDE DEF said
  <2>4. CASE p[j] = Turn("user", texts)
    BY <2>4, Pieces
  <2>5. CASE p[j] = Turn("assistant", texts)
    BY <2>5, Pieces
  <2> QED BY <2>3, <2>4, <2>5
<1>4. Turns(p) = 2..Len(p)
  <2>1. ~IsTurn(p[1])
    BY <1>1, Pieces
  <2>2. \A j \in 1..Len(p) : j = 1 \/ j \in 2..Len(p)
    OBVIOUS
  <2>3. \A j \in 2..Len(p) : j \in 1..Len(p)
    OBVIOUS
  <2> QED BY <1>3, <2>1, <2>2, <2>3 DEF Turns
<1>5. \A j \in 1..Len(p) : AsMessages(p)[j].role # "system"
  <2> TAKE j \in 1..Len(p)
  <2>1. IsTurn(p[j]) => p[j].role # "system"
    BY <1>1, <1>3, Pieces
  <2>2. AsMessages(p)[j].role = IF IsTurn(p[j]) THEN p[j].role ELSE "nobody"
    BY DEF AsMessages
  <2> QED BY <2>1, <2>2
<1>6. ASSUME NEW j \in 1..Len(p) PROVE InForce(AsMessages(p), j) = Empty
  <2>1. \A k \in 1..(j - 1) : k \in 1..Len(p)
    OBVIOUS
  <2>2. SystemSince(AsMessages(p), j) = {}
    BY <1>5, <2>1 DEF SystemSince
  <2> QED BY <2>2, InForceIs
<1>7. ASSUME NEW i \in said
      PROVE  LET told == AsMessages(p)[turn[i]] IN
             /\ told.role = messages[i].role
             /\ told.content = messages[i].content
             /\ told.role = "user" =>
                    SystemFor(p, turn[i]) = InForce(messages, i)
  <2>1. PICK j : j = turn[i]
    OBVIOUS
  <2>2. j \in 2..Len(p) /\ j \in 1..Len(p)
    BY <1>2, <2>1
  <2>3. messages[i].role \in {"user", "assistant"}
    BY DEF Spoken
  <2>4. p[j] = TurnOf(messages, i)
    BY <1>2, <2>1
  <2>5. AsMessages(p)[j] = [role |-> p[j].role,
                            content |-> p[j].texts[Len(p[j].texts)]]
    BY <1>3, <2>2 DEF AsMessages
  <2>6. CASE messages[i].role = "assistant"
    <3>1. p[j] = Turn("assistant", <<messages[i].content>>)
      BY <2>4, <2>6 DEF TurnOf
    <3>2. p[j].role = "assistant" /\ p[j].texts = <<messages[i].content>>
      BY <3>1, Pieces
    <3> QED BY <2>1, <2>5, <2>6, <3>2
  <2>7. CASE messages[i].role = "user" /\ InForce(messages, i) = Empty
    <3>1. p[j] = Turn("user", <<messages[i].content>>)
      BY <2>4, <2>7 DEF TurnOf
    <3>2. p[j].role = "user" /\ p[j].texts = <<messages[i].content>>
      BY <3>1, Pieces
    <3>3. Len(p[j].texts) = 1
      BY <3>2
    <3>4. SystemFor(p, j) = Empty
      BY <1>6, <2>2, <3>3 DEF SystemFor
    <3> QED BY <2>1, <2>5, <2>7, <3>2, <3>4
  <2>8. CASE messages[i].role = "user" /\ InForce(messages, i) # Empty
    <3> DEFINE system == InForce(messages, i)
    <3>1. p[j] = Turn("user", <<system, messages[i].content>>)
      BY <2>4, <2>8 DEF TurnOf
    <3> HIDE DEF system
    <3>2. p[j].role = "user" /\ p[j].texts = <<system, messages[i].content>>
      BY <3>1, Pieces
    <3>3. /\ Len(p[j].texts) = 2 /\ p[j].texts[1] = system
          /\ p[j].texts[2] = messages[i].content
      BY <3>2
    <3>4. SystemFor(p, j) = system
      BY <3>3 DEF SystemFor
    <3> QED BY <2>1, <2>5, <2>8, <3>2, <3>3, <3>4 DEF system
  <2> QED BY <2>3, <2>6, <2>7, <2>8
<1>8. Tells(p, messages)
  BY <1>2, <1>4, <1>7 DEF Tells, InOrder
<1> QED BY <1>1, <1>3, <1>8 DEF p
-----------------------------------------------------------------------------
(* A prompt that has a turn of each message, after d marks and before one, *)
(* tells the conversation: a system text is a turn of its own.             *)
LEMMA PlainTells ==
    ASSUME NEW messages \in Seq(Message), NEW d \in Nat, NEW p,
           Len(p) = Len(messages) + d + 1,
           \A i \in 1..Len(messages) :
               p[i + d] = Turn(messages[i].role, <<messages[i].content>>),
           \A j \in 1..d : ~IsTurn(p[j]),
           ~IsTurn(p[Len(messages) + d + 1])
    PROVE  Tells(p, messages)
<1> DEFINE size == Len(messages)
           said == Spoken(messages)
           turn == [i \in said |-> i + d]
<1>1. size \in Nat /\ said \subseteq 1..size
  BY DEF Spoken
<1>2. ASSUME NEW i \in 1..size
      PROVE  /\ i + d \in 1..Len(p) /\ IsTurn(p[i + d])
             /\ p[i + d].role = messages[i].role
             /\ Len(p[i + d].texts) = 1
             /\ p[i + d].texts[1] = messages[i].content
  <2>1. p[i + d] = Turn(messages[i].role, <<messages[i].content>>)
    OBVIOUS
  <2>2. i + d \in 1..Len(p)
    BY <1>1
  <2>3. /\ IsTurn(p[i + d]) /\ p[i + d].role = messages[i].role
        /\ p[i + d].texts = <<messages[i].content>>
    BY <2>1, Pieces
  <2>4. \A s : Len(<<s>>) = 1 /\ <<s>>[1] = s
    OBVIOUS
  <2> QED BY <2>2, <2>3, <2>4
<1>3. ASSUME NEW i \in 1..size
      PROVE  /\ AsMessages(p)[i + d].role = messages[i].role
             /\ AsMessages(p)[i + d].content = messages[i].content
  <2>1. AsMessages(p)[i + d] =
            [role |-> p[i + d].role,
             content |-> p[i + d].texts[Len(p[i + d].texts)]]
    BY <1>2 DEF AsMessages
  <2>2. p[i + d].texts[Len(p[i + d].texts)] = messages[i].content
    BY <1>2
  <2> QED BY <1>2, <2>1, <2>2
<1>4. \A j \in 1..d : AsMessages(p)[j].role # "system"
  <2> TAKE j \in 1..d
  <2>1. j \in 1..Len(p)
    BY <1>1
  <2> QED BY <2>1 DEF AsMessages
<1>5. ASSUME NEW i \in 1..size
      PROVE  SystemFor(p, i + d) = InForce(messages, i)
  <2>1. Len(p[i + d].texts) = 1
    BY <1>2
  <2>2. i \in Nat \ {0} /\ \A j \in 1..(i - 1) : j \in 1..size
    BY <1>1
  <2>3. InForce(AsMessages(p), i + d) = InForce(messages, i)
    BY <1>3, <1>4, <2>2, InForceShifts
  <2> QED BY <2>1, <2>3 DEF SystemFor
<1>6. ASSUME NEW j \in Turns(p)
      PROVE  \E i \in said : turn[i] = j
  <2>1. j \in 1..Len(p) /\ IsTurn(p[j]) /\ p[j].role # "system"
    BY DEF Turns
  <2>2. j \notin 1..d /\ j # size + d + 1
    BY <2>1
  <2>3. PICK i : i = j - d
    OBVIOUS
  <2>4. i \in 1..size /\ i + d = j
    BY <1>1, <2>1, <2>2, <2>3
  <2>5. i \in said
    BY <1>2, <2>1, <2>4 DEF Spoken
  <2> QED BY <2>4, <2>5
<1>7. turn \in [said -> Turns(p)]
  <2>1. \A i \in said : i + d \in Turns(p)
    BY <1>1, <1>2 DEF Spoken, Turns
  <2> QED BY <2>1
<1>8. \A i \in said : turn[i] = i + d /\ i \in 1..size
  BY <1>1
<1> HIDE DEF turn, size
<1>9. \A i, k \in said : i < k => turn[i] < turn[k]
  BY <1>1, <1>8
<1>10. \A i \in said :
          LET told == AsMessages(p)[turn[i]] IN
          /\ told.role = messages[i].role
          /\ told.content = messages[i].content
          /\ told.role = "user" => SystemFor(p, turn[i]) = InForce(messages, i)
  BY <1>3, <1>5, <1>8
<1> QED BY <1>6, <1>7, <1>9, <1>10 DEF Tells

(* The prompt of each template tells the conversation.                     *)
LEMMA RenderTells ==
    ASSUME Empty \in Content, NEW messages \in Seq(Message),
           NEW template \in {"ChatMl", "Llama3", "MistralInstruct"},
           Renderable(template, messages)
    PROVE  /\ Tells(Render(template, messages), messages)
           /\ Len(Render(template, messages)) > 0
           /\ \A j \in 2..Len(Render(template, messages)) :
                  Render(template, messages)[j] # BeginOfText
<1> DEFINE turns == [i \in 1..Len(messages) |->
                        Turn(messages[i].role, <<messages[i].content>>)]
           plain == ChatMl(messages)
           S == {turns[i] : i \in 1..Len(messages)} \cup {Opening}
<1>1. Len(messages) \in Nat
  OBVIOUS
<1>2. /\ plain \in Seq(S) /\ Len(plain) = Len(messages) + 1
      /\ \A i \in 1..Len(messages) :
             plain[i] = Turn(messages[i].role, <<messages[i].content>>)
      /\ plain[Len(messages) + 1] = Opening
  <2>1. turns \in Seq(S) /\ Len(turns) = Len(messages)
    BY <1>1
  <2>2. \A i \in 1..Len(messages) :
            turns[i] = Turn(messages[i].role, <<messages[i].content>>)
    OBVIOUS
  <2>3. plain = Append(turns, Opening) /\ Opening \in S
    BY DEF ChatMl
  <2> HIDE DEF turns, plain, S
  <2>4. /\ plain \in Seq(S) /\ Len(plain) = Len(turns) + 1
        /\ \A i \in 1..Len(turns) : plain[i] = turns[i]
        /\ plain[Len(turns) + 1] = Opening
    BY <2>1, <2>3, AppendProperties
  <2> QED BY <2>1, <2>2, <2>4
<1> HIDE DEF turns, plain, S
<1>3. \A j \in 1..Len(plain) : plain[j] # BeginOfText
  <2> TAKE j \in 1..Len(plain)
  <2>1. j = Len(messages) + 1 \/ j \in 1..Len(messages)
    BY <1>1, <1>2
  <2>2. CASE j = Len(messages) + 1
    BY <1>2, <2>2, Pieces
  <2>3. CASE j \in 1..Len(messages)
    <3>1. plain[j] = Turn(messages[j].role, <<messages[j].content>>)
      BY <1>2, <2>3
    <3>2. PICK texts : plain[j] = Turn(messages[j].role, texts)
      BY <3>1
    <3> QED BY <3>2, Pieces
  <2> QED BY <2>1, <2>2, <2>3
<1>4. CASE template = "ChatMl"
  <2>1. Render(template, messages) = plain
    BY <1>4 DEF Render, plain
  <2>2. /\ Len(plain) = Len(messages) + 0 + 1
        /\ \A i \in 1..Len(messages) : i + 0 = i
        /\ Len(messages) + 0 + 1 = Len(messages) + 1
        /\ 1..0 = {} /\ 0 \in Nat
    BY <1>1, <1>2
  <2>3. Tells(plain, messages)
    BY <1>2, <2>2, Pieces, PlainTells
  <2>4. \A j \in 2..Len(plain) : j \in 1..Len(plain)
    OBVIOUS
  <2> QED BY <1>1, <1>2, <1>3, <2>1, <2>3, <2>4
<1>5. CASE template = "Llama3"
  <2> DEFINE p == <<BeginOfText>> \o plain
  <2>1. Render(template, messages) = p
    BY <1>5 DEF Render, Llama3, plain
  <2>2. /\ Len(p) = Len(messages) + 1 + 1 /\ p[1] = BeginOfText
        /\ \A i \in 1..(Len(messages) + 1) : p[i + 1] = plain[i]
        /\ \A j \in 2..Len(p) : p[j] = plain[j - 1] /\ j - 1 \in 1..Len(plain)
    <3>1. <<BeginOfText>> \in Seq({BeginOfText}) /\ Len(<<BeginOfText>>) = 1
      OBVIOUS
    <3>2. PICK T : T = S \cup {BeginOfText}
      OBVIOUS
    <3>3. <<BeginOfText>> \in Seq(T) /\ plain \in Seq(T)
      BY <1>2, <3>2
    <3>4. /\ Len(p) = 1 + Len(plain)
          /\ \A j \in 1..Len(p) :
                 p[j] = IF j <= 1 THEN <<BeginOfText>>[j] ELSE plain[j - 1]
      BY <3>1, <3>3, ConcatProperties
    <3> HIDE DEF p
    <3>5. Len(p) = Len(messages) + 1 + 1 /\ p[1] = BeginOfText
      BY <1>1, <1>2, <3>4
    <3>6. ASSUME NEW i \in 1..(Len(messages) + 1) PROVE p[i + 1] = plain[i]
      <4>1. i + 1 \in 1..Len(p) /\ ~(i + 1 <= 1) /\ i + 1 - 1 = i
        BY <1>1, <3>5
      <4> QED BY <3>4, <4>1
    <3>7. ASSUME NEW j \in 2..Len(p)
          PROVE  p[j] = plain[j - 1] /\ j - 1 \in 1..Len(plain)
      <4>1. j \in 1..Len(p) /\ ~(j <= 1) /\ j - 1 \in 1..Len(plain)
        BY <1>1, <1>2, <3>5
      <4> QED BY <3>4, <4>1
    <3> QED BY <3>5, <3>6, <3>7
  <2> HIDE DEF p
  <2>3. \A i \in 1..Len(messages) :
            p[i + 1] = Turn(messages[i].role, <<messages[i].content>>)
    BY <1>1, <1>2, <2>2
  <2>4. ~IsTurn(p[Len(messages) + 1 + 1])
    <3>1. Len(messages) + 1 \in 1..(Len(messages) + 1)
      BY <1>1
    <3> QED BY <1>2, <2>2, <3>1, Pieces
  <2>5. \A j \in 1..1 : ~IsTurn(p[j])
    BY <2>2, Pieces
  <2>6. Tells(p, messages)
    BY <2>2, <2>3, <2>4, <2>5, PlainTells
  <2> QED BY <1>1, <1>3, <2>1, <2>2, <2>6
<1>6. CASE template = "MistralInstruct"
  <2>1. Render(template, messages) = Mistral(messages)
    BY <1>6 DEF Render
  <2>2. \A i \in 1..Len(messages) :
            messages[i].role \in {"system", "user", "assistant"}
    BY <1>6 DEF Renderable
  <2> QED BY <2>1, <2>2, MistralTells
<1> QED BY <1>4, <1>5, <1>6

(* Before the loop begins the request is one that may be asked, and a      *)
(* prompt is the one that its preparation made.                            *)
Asked ==
    \/ request = [surface |-> "completion"]
    \/ /\ request.surface = "chat"
       /\ request.messages \in Conversations
       /\ request.template \in
              {"ChatMl", "Llama3", "MistralInstruct", NoTemplate}

Prepared ==
    \/ request.surface = "completion" /\ prompt = Encode(Raw, TRUE)
    \/ /\ request.surface = "chat"
       /\ request.template # NoTemplate
       /\ Renderable(request.template, request.messages)
       /\ prompt = Render(request.template, request.messages)

PromptInv ==
    /\ phase = "start" => Asked
    /\ prompt # <<>> => Asked /\ Prepared

LEMMA Templates ==
    \A name, architecture : TemplateOf(name, architecture) \in
        {"ChatMl", "Llama3", "MistralInstruct", NoTemplate}
BY DEF TemplateOf, FromName, ForArchitecture, NoTemplate

LEMMA PromptKept == PromptInv /\ [RequestNext]_allVars => PromptInv'
<1> SUFFICES ASSUME PromptInv, [RequestNext]_allVars PROVE PromptInv'
  OBVIOUS
<1>1. CASE PrepareChat
  <2>1. /\ phase' = phase /\ request' = request /\ Asked /\ Asked'
        /\ prompt' = Render(request.template, request.messages)
    BY <1>1 DEF PrepareChat, Preparing, Encode, PromptInv, Asked, vars
  <2> QED BY <1>1, <2>1 DEF PromptInv, Prepared, PrepareChat
<1>2. CASE PrepareCompletion
  <2>1. /\ phase' = phase /\ request' = request /\ Asked /\ Asked'
        /\ prompt' = Encode(Raw, TRUE)
    BY <1>2 DEF PrepareCompletion, Preparing, PromptInv, Asked, vars
  <2> QED BY <1>2, <2>1 DEF PromptInv, Prepared, PrepareCompletion
<1>3. ASSUME phase' = "start" => phase = "start", UNCHANGED <<request, prompt>>
      PROVE  PromptInv'
  BY <1>3 DEF PromptInv, Asked, Prepared
<1>4. CASE Refuse \/ UNCHANGED allVars
  BY <1>3, <1>4 DEF Refuse, allVars, vars, loopVars
<1>5. CASE Generate
  <2>1. phase' = "start" => phase = "start"
    <3>1. [LoopNext]_loopVars
      BY LoopSteps
    <3> QED BY <3>1
    DEF LoopNext, Prefill, LoopFails, CancelledAtTop, Decode, Exhausted, Sample,
        OnToken, End, loopVars
  <2>2. CASE phase' = "start"
    BY <1>3, <1>5, <2>1, <2>2 DEF Generate
  <2>3. CASE phase' # "start"
    BY <1>5, <2>3 DEF Generate, PromptInv
  <2> QED BY <2>2, <2>3
<1> QED BY <1>1, <1>2, <1>4, <1>5 DEF RequestNext

LEMMA PromptInvGives == PromptInv => PromptTellsConversation
<1> SUFFICES ASSUME PromptInv, prompt # <<>>
             PROVE  /\ \A i \in 2..Len(prompt) : prompt[i] # BeginOfText
                    /\ request.surface = "chat" =>
                           Tells(prompt, request.messages)
  BY DEF PromptTellsConversation
<1>1. Asked /\ Prepared
  BY DEF PromptInv
<1>2. CASE request.surface = "completion"
  <2>1. prompt = <<BeginOfText>> \o <<[mark |-> "raw"]>>
    BY <1>1, <1>2 DEF Prepared, Encode, Raw
  <2>2. PICK raw : raw = [mark |-> "raw"]
    OBVIOUS
  <2>3. raw.mark = "raw" /\ BeginOfText.mark = "bos"
    BY <2>2 DEF BeginOfText
  <2>4. \A first : Len(<<first>> \o <<raw>>) = 2
                   /\ (<<first>> \o <<raw>>)[2] = raw
    OBVIOUS
  <2>5. Len(prompt) = 2 /\ prompt[2] = raw
    BY <2>1, <2>2, <2>4
  <2>6. \A i \in 2..Len(prompt) : i = 2
    BY <2>5
  <2> QED BY <1>2, <2>3, <2>5, <2>6
<1>3. CASE request.surface = "chat"
  <2>1. /\ request.messages \in Seq(Message) /\ Empty \in Content
        /\ request.template \in {"ChatMl", "Llama3", "MistralInstruct"}
        /\ Renderable(request.template, request.messages)
        /\ prompt = Render(request.template, request.messages)
    <3>1. request # [surface |-> "completion"]
      BY <1>3
    <3>2. /\ request.messages \in Conversations
          /\ request.template # NoTemplate
          /\ request.template \in
                 {"ChatMl", "Llama3", "MistralInstruct", NoTemplate}
      BY <1>1, <1>3, <3>1 DEF Asked, Prepared
    <3> QED BY <1>1, <1>3, <3>2, RequestAssumption DEF Prepared
  <2> QED BY <2>1, RenderTells
<1> QED BY <1>1, <1>2, <1>3 DEF Prepared

(* The prompt tells the model the conversation: what was said is in it     *)
(* once and in order, each turn of the user is read with the system text   *)
(* in force for it, and a begin-of-text token stands in front only         *)
(* (prepare_chat, ChatTemplate::render), for every template and every      *)
(* conversation, however long and whatever its texts are.                  *)
THEOREM PromptTellsAll == RequestSpec => []PromptTellsConversation
<1>1. RequestInit => PromptInv
  BY Templates DEF RequestInit, PromptInv, Asked
<1> QED BY <1>1, PromptKept, PromptInvGives, PTL DEF RequestSpec
-----------------------------------------------------------------------------
(* How many steps a request may still take: those of its loop, its         *)
(* preparation, its return and its client's departure.                     *)
LoopLeft ==
    CASE phase = "start" -> 3 * MaxTokens + 2
      [] phase = "top" -> 3 * (MaxTokens - Len(sampled)) + 1
      [] phase = "callback" -> 3 * (MaxTokens - Len(sampled)) + 3
      [] phase = "decode" -> 3 * (MaxTokens - Len(sampled)) + 2
      [] phase = "ended" -> 0

One(condition) == IF condition THEN 1 ELSE 0

RequestLeft ==
    LoopLeft + One(phase = "start" /\ prompt = <<>>) + One(outcome = None)
             + One(client = "listening")

LEMMA LoopLeftIs == LoopInv => LoopLeft \in Nat
<1> SUFFICES ASSUME LoopInv PROVE LoopLeft \in Nat
  OBVIOUS
<1>1. MaxTokens \in Nat /\ phase \in Phases /\ Len(sampled) \in 0..MaxTokens
  BY LoopAssumption DEF LoopInv, LoopTypeOK
<1>2. MaxTokens - Len(sampled) \in Nat
  BY <1>1
<1> QED BY <1>1, <1>2 DEF LoopLeft, Phases

LEMMA LoopLeftStays == LoopInv' => LoopLeft' \in Nat
<1> SUFFICES ASSUME LoopInv' PROVE LoopLeft' \in Nat
  OBVIOUS
<1>1. /\ MaxTokens \in Nat /\ phase' \in Phases
      /\ Len(sampled') \in 0..MaxTokens
  BY LoopAssumption DEF LoopInv, LoopTypeOK
<1>2. MaxTokens - Len(sampled') \in Nat
  BY <1>1
<1> QED BY <1>1, <1>2 DEF LoopLeft, Phases

LEMMA LoopAdvances ==
    ASSUME LoopInv, LoopNext
    PROVE  /\ LoopLeft' < LoopLeft /\ phase' # "start"
<1> USE LoopAssumption DEF LoopInv, LoopTypeOK, Phases, LoopLeft, End
<1>1. CASE Prefill
  BY <1>1 DEF Prefill
<1>2. CASE LoopFails
  BY <1>2 DEF LoopFails
<1>3. CASE CancelledAtTop
  BY <1>3 DEF CancelledAtTop
<1>4. CASE Decode
  BY <1>4 DEF Decode
<1>5. CASE Exhausted
  BY <1>5 DEF Exhausted
<1>6. ASSUME NEW token \in Token, Sample(token)
      PROVE  LoopLeft' < LoopLeft /\ phase' # "start"
  <2>1. Len(sampled') = Len(sampled) + 1 /\ Len(sampled) \in Nat
    BY <1>6 DEF Sample
  <2> QED BY <1>6, <2>1 DEF Sample
<1>7. ASSUME NEW answer \in BOOLEAN, OnToken(answer)
      PROVE  LoopLeft' < LoopLeft /\ phase' # "start"
  BY <1>7 DEF OnToken
<1> QED BY <1>1, <1>2, <1>3, <1>4, <1>5, <1>6, <1>7 DEF LoopNext

LEMMA RequestAdvances ==
    ASSUME TokenizerKeepsText, LoopInv, TextInv, PromptInv, RequestNext
    PROVE  RequestLeft' < RequestLeft
<1> DEFINE waits == One(phase = "start" /\ prompt = <<>>)
           open == One(outcome = None)
           stays == One(client = "listening")
<1>1. /\ LoopLeft \in Nat /\ LoopLeft' \in Nat
      /\ waits \in 0..1 /\ open \in 0..1 /\ stays \in 0..1
      /\ waits' \in 0..1 /\ open' \in 0..1 /\ stays' \in 0..1
  <2>1. LoopInv'
    BY LoopSteps, LoopStep
  <2>2. LoopLeft' \in Nat
    BY <2>1, LoopLeftStays
  <2> QED BY <2>2, LoopLeftIs DEF One
<1>2. /\ RequestLeft = LoopLeft + waits + open + stays
      /\ RequestLeft' = LoopLeft' + waits' + open' + stays'
  BY DEF RequestLeft
<1>3. UNCHANGED loopVars => LoopLeft' = LoopLeft
  BY DEF loopVars, LoopLeft
<1>4. /\ outcome' = outcome => open' = open
      /\ client' = client => stays' = stays
      /\ phase' = phase /\ prompt' = prompt => waits' = waits
  OBVIOUS
<1>5. (/\ LoopLeft' <= LoopLeft /\ waits' <= waits /\ open' <= open
       /\ stays' <= stays
       /\ \/ LoopLeft' < LoopLeft \/ waits' < waits \/ open' < open
          \/ stays' < stays) => RequestLeft' < RequestLeft
  <2>1. \A m, n \in Nat, v, w, x, y, z, u \in 0..1 :
            (/\ n <= m /\ w <= v /\ y <= x /\ u <= z
             /\ n < m \/ w < v \/ y < x \/ u < z)
                => n + w + y + u < m + v + x + z
    OBVIOUS
  <2> QED BY <1>1, <1>2, <2>1
<1>6. CASE PrepareChat
  <2>1. Asked /\ request.surface = "chat" /\ request.template # NoTemplate
        /\ Renderable(request.template, request.messages)
        /\ prompt' = Render(request.template, request.messages)
    BY <1>6 DEF PrepareChat, Preparing, Encode, PromptInv
  <2>2. request # [surface |-> "completion"]
    BY <2>1
  <2>3. Len(prompt') > 0
    BY <2>1, <2>2, RenderTells, RequestAssumption DEF Asked
  <2>4. prompt' # <<>>
    BY <2>3
  <2>5. waits = 1 /\ waits' = 0
    BY <1>6, <2>4 DEF PrepareChat, Preparing, One
  <2>6. UNCHANGED <<loopVars, outcome, client>>
    BY <1>6 DEF PrepareChat, vars, loopVars
  <2> HIDE DEF waits, open, stays
  <2> QED BY <1>1, <1>2, <1>3, <1>4, <2>5, <2>6
<1>7. CASE PrepareCompletion
  <2>1. prompt' # <<>>
    <3>1. \A first, next : <<first>> \o <<next>> # <<>>
      OBVIOUS
    <3> QED BY <1>7, <3>1 DEF PrepareCompletion, Encode, Raw
  <2>2. waits = 1 /\ waits' = 0
    BY <1>7, <2>1 DEF PrepareCompletion, Preparing, One
  <2>3. UNCHANGED <<loopVars, outcome, client>>
    BY <1>7 DEF PrepareCompletion, vars, loopVars
  <2> HIDE DEF waits, open, stays
  <2> QED BY <1>1, <1>2, <1>3, <1>4, <2>2, <2>3
<1>8. CASE Refuse
  <2>1. open = 1 /\ open' = 0
    BY <1>8, OutcomeKinds DEF Refuse, Preparing, One
  <2>2. UNCHANGED <<loopVars, phase, prompt, client>>
    BY <1>8 DEF Refuse, loopVars
  <2> HIDE DEF waits, open, stays
  <2> QED BY <1>1, <1>2, <1>3, <1>4, <2>1, <2>2
<1>9. CASE Generate
  <2>1. waits' <= waits
    <3>1. phase' = "start" => phase' = phase /\ prompt' = prompt
      <4>1. [LoopNext]_loopVars
        BY LoopSteps
      <4>2. LoopNext => phase' # "start"
        BY LoopAdvances
      <4> QED BY <1>9, <4>1, <4>2 DEF loopVars, Generate
    <3>2. phase' # "start" => waits' = 0
      BY DEF One
    <3> HIDE DEF waits
    <3> QED BY <1>1, <1>4, <3>1, <3>2
  <2>2. \/ (Loop \/ Callback) /\ UNCHANGED <<client, outcome>>
        \/ ReturnError \/ (Return /\ UNCHANGED stop_strings) \/ ClientLeaves
    BY <1>9 DEF Generate, Next
  <2>3. CASE (Loop \/ Callback) /\ UNCHANGED <<client, outcome>>
    <3>1. LoopNext
      BY <2>3 DEF Loop, Callback, TokenUndecodable, TokenBroken,
                  TokenCompletesStop, TokenEmits, TokenHeld, Listening, LoopNext
    <3>2. LoopLeft' < LoopLeft /\ open' = open /\ stays' = stays
      BY <1>4, <2>3, <3>1, LoopAdvances
    <3> QED BY <1>1, <1>5, <2>1, <3>2
  <2>4. CASE ReturnError \/ (Return /\ UNCHANGED stop_strings)
    <3>1. /\ outcome = None /\ outcome' # None
          /\ UNCHANGED <<loopVars, client>>
      BY <2>4, OutcomeKinds, ReturnStep DEF ReturnError, Return
    <3>2. open = 1 /\ open' = 0
      BY <3>1 DEF One
    <3>3. LoopLeft' = LoopLeft /\ open' < open /\ stays' = stays
      BY <1>3, <1>4, <3>1, <3>2
    <3> QED BY <1>1, <1>5, <2>1, <3>3
  <2>5. CASE ClientLeaves
    <3>1. stays = 1 /\ stays' = 0 /\ UNCHANGED <<loopVars, outcome>>
      BY <2>5 DEF ClientLeaves, One
    <3>2. LoopLeft' = LoopLeft /\ open' = open /\ stays' < stays
      BY <1>3, <1>4, <3>1
    <3> QED BY <1>1, <1>5, <2>1, <3>2
  <2> QED BY <2>2, <2>3, <2>4, <2>5
<1> QED BY <1>6, <1>7, <1>8, <1>9 DEF RequestNext

(* A request takes finitely many steps, at most 3 * max_tokens + 5, under  *)
(* no fairness: each step of its preparation, its loop, its return or its  *)
(* client leaves fewer to take (generate_with samples at most max_tokens   *)
(* tokens and run_generation returns once), whatever the decoder samples   *)
(* and the client does.                                                    *)
THEOREM RequestsAreFinite ==
    ASSUME TokenizerKeepsText
    PROVE  /\ RequestSpec => [](RequestLeft \in 0..(3 * MaxTokens + 5))
           /\ RequestSpec => [][RequestLeft' < RequestLeft]_allVars
<1>1. LoopInv => RequestLeft \in 0..(3 * MaxTokens + 5)
  <2> SUFFICES ASSUME LoopInv PROVE RequestLeft \in 0..(3 * MaxTokens + 5)
    OBVIOUS
  <2>1. LoopLeft \in 0..(3 * MaxTokens + 2) /\ MaxTokens \in Nat
    BY LoopAssumption DEF LoopInv, LoopTypeOK, Phases, LoopLeft
  <2>2. \A condition : One(condition) \in 0..1
    BY DEF One
  <2>3. \A l \in 0..(3 * MaxTokens + 2), x, y, z \in 0..1 :
            l + x + y + z \in 0..(3 * MaxTokens + 5)
    BY <2>1
  <2> QED BY <2>1, <2>2, <2>3 DEF RequestLeft
<1>2. LoopInv /\ TextInv /\ PromptInv /\ [RequestNext]_allVars
          => [RequestLeft' < RequestLeft]_allVars
  BY RequestAdvances
<1>3. RequestInit => PromptInv
  BY Templates DEF RequestInit, PromptInv, Asked
<1> QED BY <1>1, <1>2, <1>3, PromptKept, TextAlways, PTL DEF RequestSpec
=============================================================================
