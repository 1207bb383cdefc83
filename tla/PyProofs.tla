------------------------------ MODULE PyProofs ------------------------------
(***************************************************************************)
(* Proofs about the generating calls of the Python extension, for any      *)
(* number of threads and calls, any limit and any tokenizer that keeps     *)
(* whole text (TokenizerKeepsText): who holds the session and the GIL,     *)
(* what a callback was given, what a call returns, and how many steps it   *)
(* may take.                                                               *)
(***************************************************************************)
EXTENDS PyStream, SequenceTheorems, TLAPS

TokenizerKeepsText == KeepsWholeText(Seq(Token))
-----------------------------------------------------------------------------
(* Texts.  Everything that was delivered is a whole text of the first      *)
(* tokens.                                                                 *)
Whole(tokens, e, d) ==
    \E n \in 0..Len(tokens) :
        LET earlier == Text(SubSeq(tokens, 1, n)) IN
        /\ earlier # Undecodable
        /\ ~EndsBroken(earlier)
        /\ e = Len(earlier)
        /\ d = earlier

LEMMA TextTypes ==
    ASSUME TokenizerKeepsText, NEW tokens \in Seq(Token)
    PROVE  Text(tokens) \in Seq(Char) \cup {Undecodable}
BY DEF TokenizerKeepsText, KeepsWholeText

LEMMA NothingIsWhole ==
    ASSUME TokenizerKeepsText PROVE Whole(<<>>, 0, <<>>)
<1>1. SubSeq(<<>>, 1, 0) = <<>> /\ Len(<<>>) = 0 /\ <<>> \in Seq(Char)
  OBVIOUS
<1>2. Text(<<>>) = <<>>
  BY DEF TokenizerKeepsText, KeepsWholeText
<1>3. <<>> # Undecodable
  BY <1>1, PyAssumption
<1>4. ~EndsBroken(<<>>)
  BY DEF EndsBroken
<1>5. 0 \in 0..Len(<<>>)
  BY <1>1
<1> QED BY <1>1, <1>2, <1>3, <1>4, <1>5 DEF Whole

LEMMA PrefixIs ==
    ASSUME NEW S, NEW s \in Seq(S), NEW n \in 0..Len(s)
    PROVE  /\ SubSeq(s, 1, n) \in Seq(S)
           /\ Len(SubSeq(s, 1, n)) = n
           /\ \A i \in 1..n : SubSeq(s, 1, n)[i] = s[i]
OBVIOUS

LEMMA WholePrefix ==
    ASSUME NEW S, NEW s \in Seq(S)
    PROVE  SubSeq(s, 1, Len(s)) = s
BY PrefixIs, SeqEqual

(* More tokens do not change what was delivered. *)
LEMMA WholeStays ==
    ASSUME NEW tokens \in Seq(Token), NEW token \in Token, NEW e, NEW d,
           Whole(tokens, e, d)
    PROVE  Whole(Append(tokens, token), e, d)
<1> DEFINE more == Append(tokens, token)
<1>1. PICK n \in 0..Len(tokens) :
          LET earlier == Text(SubSeq(tokens, 1, n)) IN
          /\ earlier # Undecodable /\ ~EndsBroken(earlier)
          /\ e = Len(earlier) /\ d = earlier
  BY DEF Whole
<1>2. /\ more \in Seq(Token) /\ n \in 0..Len(more)
      /\ \A i \in 1..n : more[i] = tokens[i]
  OBVIOUS
<1> HIDE DEF more
<1>3. SubSeq(more, 1, n) = SubSeq(tokens, 1, n)
  <2>1. /\ SubSeq(more, 1, n) \in Seq(Token)
        /\ Len(SubSeq(more, 1, n)) = n
        /\ \A i \in 1..n : SubSeq(more, 1, n)[i] = tokens[i]
    BY <1>2, PrefixIs
  <2>2. /\ SubSeq(tokens, 1, n) \in Seq(Token)
        /\ Len(SubSeq(tokens, 1, n)) = n
        /\ \A i \in 1..n : SubSeq(tokens, 1, n)[i] = tokens[i]
    BY PrefixIs
  <2> QED BY <2>1, <2>2, SeqEqual
<1>4. Whole(more, e, d)
  BY <1>1, <1>2, <1>3 DEF Whole
<1> QED BY <1>4 DEF more

LEMMA WholeNow ==
    ASSUME NEW tokens \in Seq(Token), Text(tokens) # Undecodable,
           ~EndsBroken(Text(tokens))
    PROVE  Whole(tokens, Len(Text(tokens)), Text(tokens))
<1>1. SubSeq(tokens, 1, Len(tokens)) = tokens /\ Len(tokens) \in 0..Len(tokens)
  BY WholePrefix
<1> QED BY <1>1 DEF Whole

(* What was delivered is a beginning of the text there is now. *)
LEMMA WholeBegins ==
    ASSUME TokenizerKeepsText, NEW tokens \in Seq(Token), NEW e, NEW d,
           Whole(tokens, e, d), Text(tokens) # Undecodable
    PROVE  /\ Text(tokens) \in Seq(Char) /\ d \in Seq(Char)
           /\ e = Len(d) /\ e \in Nat
           /\ Begins(d, Text(tokens))
<1>1. PICK n \in 0..Len(tokens) :
          LET earlier == Text(SubSeq(tokens, 1, n)) IN
          /\ earlier # Undecodable /\ ~EndsBroken(earlier)
          /\ e = Len(earlier) /\ d = earlier
  BY DEF Whole
<1>2. SubSeq(tokens, 1, n) \in Seq(Token)
  BY PrefixIs
<1>3. d \in Seq(Char) /\ Text(tokens) \in Seq(Char)
  BY <1>1, <1>2, TextTypes
<1>4. Begins(d, Text(tokens))
  BY <1>1 DEF TokenizerKeepsText, KeepsWholeText, EndsBroken
<1> QED BY <1>1, <1>3, <1>4

(* A delta completes it. *)
LEMMA DeltaCompletes ==
    ASSUME NEW d \in Seq(Char), NEW text \in Seq(Char), Begins(d, text)
    PROVE  /\ d \o From(text, Len(d)) = text
           /\ Len(text) <= Len(d) => d = text
<1>1. Len(d) \in 0..Len(text) /\ \A i \in 1..Len(d) : d[i] = text[i]
  BY DEF Begins
<1>2. SubSeq(text, 1, Len(d)) = d
  <2>1. /\ SubSeq(text, 1, Len(d)) \in Seq(Char)
        /\ Len(SubSeq(text, 1, Len(d))) = Len(d)
        /\ \A i \in 1..Len(d) : SubSeq(text, 1, Len(d))[i] = text[i]
    BY <1>1, PrefixIs
  <2> QED BY <1>1, <2>1, SeqEqual
<1>3. SubSeq(text, 1, Len(d)) \o SubSeq(text, Len(d) + 1, Len(text))
          = SubSeq(text, 1, Len(text))
  <2>1. /\ 1 \in 1..Len(text) + 1
        /\ Len(d) \in (1 - 1)..Len(text)
        /\ Len(text) \in Len(d)..Len(text)
    BY <1>1
  <2> QED BY <2>1, ConcatAdjacentSubSeq
<1>4. SubSeq(text, 1, Len(text)) = text
  BY WholePrefix
<1>5. Len(text) <= Len(d) => d = text
  BY <1>1, <1>2, <1>4
<1> QED BY <1>2, <1>3, <1>4, <1>5 DEF From
-----------------------------------------------------------------------------
(* Who holds what. *)
HolderTypes ==
    /\ pc \in [Thread -> PC]
    /\ gil = None \/ (gil \in Thread /\ pc[gil] \in RunsPython)
    /\ mutex \in Thread \cup {None}
    /\ \A t \in Thread : pc[t] \in InSession <=> mutex = t

(* The loop, as far as the calls rely on it: what was sampled is what was  *)
(* reported, and the token that waits for its report or ended the loop.    *)
LoopInv ==
    /\ LoopTypeOK
    /\ phase = "ended" <=> reason # None
    /\ phase \in {"callback", "decode"} => Len(sampled) > 0
    /\ phase \in {"start", "top", "decode"} => sampled = reported
    /\ phase = "callback" \/ reason = "StopToken" =>
           sampled = Append(reported, Last(sampled))
    /\ reason \in {"Cancelled", "MaxTokens"} => sampled = reported

CallTypes ==
    /\ streaming \in BOOLEAN
    /\ emitted \in Nat
    /\ delivered \in Seq(Char)
    /\ callback_error \in BOOLEAN
    /\ decode_error \in BOOLEAN
    /\ answer \in Answers \cup {None}
    /\ \/ outcome \in {None, Exception, EngineError}
       \/ outcome = Answer(outcome.text) /\ outcome.text \in Seq(Char)

(* No call is under way. *)
Blank ==
    /\ LoopInit
    /\ streaming = FALSE /\ emitted = 0 /\ delivered = <<>>
    /\ callback_error = FALSE /\ outcome = None /\ answer = None

Refused == answer \in {"cancel", "raise"}

InGenerate ==
    /\ outcome = None
    /\ Refused => phase = "ended" /\ reason = "Cancelled"
    /\ callback_error <=> answer = "raise"
    /\ streaming => Whole(reported, emitted, delivered)
    /\ ~streaming => emitted = 0 /\ delivered = <<>> /\ answer = None
    /\ answer = "cancel" => Len(Text(reported)) <= emitted

InCallback ==
    /\ phase = "callback" /\ streaming /\ outcome = None
    /\ ~Refused
    /\ Full # Undecodable /\ ~EndsBroken(Full)
    /\ delivered = Full /\ emitted = Len(Full)

InFlush ==
    /\ phase = "ended" /\ streaming /\ outcome = None
    /\ ~Refused
    /\ delivered = Text(reported) /\ delivered \in Seq(Char)

InUnlock ==
    /\ phase = "ended"
    /\ DeltasAddUp
    /\ outcome = Exception <=> answer = "raise"

CallInv ==
    /\ mutex = None => Blank
    /\ mutex # None =>
           /\ pc[mutex] = "generate" => InGenerate
           /\ pc[mutex] = "callback" => InCallback
           /\ pc[mutex] = "flush" => InFlush
           /\ pc[mutex] = "unlock" => InUnlock

PyInv == HolderTypes /\ LoopInv /\ CallTypes /\ CallInv

LEMMA InitInv == ASSUME TokenizerKeepsText PROVE Init => PyInv
<1> SUFFICES ASSUME Init PROVE PyInv
  OBVIOUS
<1>1. <<>> \in Seq(Token) /\ <<>> \in Seq(Char)
  OBVIOUS
<1>2. HolderTypes
  BY PyAssumption DEF Init, HolderTypes, PC, RunsPython, InSession
<1>3. LoopInv
  BY <1>1, LoopAssumption DEF Init, LoopInit, LoopInv, LoopTypeOK, Phases
<1>4. CallTypes
  BY <1>1 DEF Init, CallTypes
<1>5. CallInv
  BY DEF Init, CallInv, Blank
<1> QED BY <1>2, <1>3, <1>4, <1>5 DEF PyInv

(* Steps that leave the call alone: the GIL changes hands between threads  *)
(* that run Python code, and threads move outside of the session.          *)
LEMMA OutsideKeeps ==
    ASSUME PyInv, NEW t \in Thread, NEW label \in PC,
           label \in InSession <=> pc[t] \in InSession,
           pc[t] \in InSession => label = pc[t],
           GoTo(t, label),
           \/ gil' = None
           \/ gil' = t /\ label \in RunsPython
           \/ gil' = gil /\ pc[t] \notin RunsPython,
           UNCHANGED <<mutex, callVars>>
    PROVE  PyInv'
<1>1. HolderTypes'
  BY DEF PyInv, HolderTypes, GoTo
<1>2. LoopInv' /\ CallTypes'
  BY DEF PyInv, LoopInv, LoopTypeOK, CallTypes, callVars, loopVars, closureVars
<1>3. CallInv'
  <2>1. mutex # None => pc'[mutex] = pc[mutex]
    BY DEF PyInv, HolderTypes, GoTo
  <2>2. /\ Blank' = Blank /\ InGenerate' = InGenerate
        /\ InCallback' = InCallback /\ InFlush' = InFlush
        /\ InUnlock' = InUnlock
    BY DEF callVars, loopVars, closureVars, Blank, LoopInit, InGenerate,
           InCallback, InFlush, InUnlock, Refused, Full, DeltasAddUp
  <2> QED BY <2>1, <2>2 DEF PyInv, CallInv
<1> QED BY <1>1, <1>2, <1>3 DEF PyInv

(* A step of the thread that holds the session. *)
LEMMA HolderKeeps ==
    ASSUME PyInv, NEW t \in Thread, pc[t] \in InSession,
           NEW label \in InSession, GoTo(t, label), UNCHANGED mutex,
           \/ gil' = None
           \/ gil' = t /\ label \in RunsPython
           \/ gil' = gil /\ pc[t] \notin RunsPython,
           LoopInv', CallTypes',
           label = "generate" => InGenerate',
           label = "callback" => InCallback',
           label = "flush" => InFlush',
           label = "unlock" => InUnlock'
    PROVE  PyInv'
<1>1. mutex = t /\ mutex # None
  BY PyAssumption DEF PyInv, HolderTypes
<1>2. label \in PC
  BY DEF PC
<1>3. HolderTypes'
  BY <1>1, <1>2 DEF PyInv, HolderTypes, GoTo
<1>4. pc'[t] = label
  BY DEF PyInv, HolderTypes, GoTo
<1>5. CallInv'
  BY <1>1, <1>4 DEF CallInv
<1> QED BY <1>3, <1>5 DEF PyInv

(* The call is over, its locals are gone. *)
LEMMA ForgetKeeps ==
    ASSUME PyInv, NEW t \in Thread, mutex' = None, pc[t] \in InSession,
           pc[t] \notin RunsPython, ForgetCall, GoTo(t, "return"),
           UNCHANGED gil
    PROVE  PyInv'
<1>1. mutex = t
  BY DEF PyInv, HolderTypes
<1>2. HolderTypes'
  BY <1>1, PyAssumption
  DEF PyInv, HolderTypes, GoTo, PC, InSession, RunsPython
<1>3. <<>> \in Seq(Token) /\ <<>> \in Seq(Char) /\ Len(<<>>) = 0
  OBVIOUS
<1>4. LoopInv'
  BY <1>3, LoopAssumption DEF ForgetCall, LoopInv, LoopTypeOK, Phases
<1>5. CallTypes'
  BY <1>3 DEF ForgetCall, CallTypes
<1>6. CallInv'
  BY DEF ForgetCall, CallInv, Blank, LoopInit
<1> QED BY <1>2, <1>4, <1>5, <1>6 DEF PyInv

(* The loop's own steps. *)
LEMMA LoopKeeps == LoopInv /\ LoopNext => LoopInv'
<1> SUFFICES ASSUME LoopInv, LoopNext PROVE LoopInv'
  OBVIOUS
<1> USE LoopAssumption DEF LoopInv, LoopTypeOK, Phases, Reasons, End
<1>1. CASE Prefill \/ LoopFails \/ CancelledAtTop \/ Exhausted
  BY <1>1 DEF Prefill, LoopFails, CancelledAtTop, Exhausted
<1>2. CASE Decode
  <2>1. phase = "decode" /\ fed' = Append(fed, Last(sampled))
        /\ phase' = "top" /\ UNCHANGED <<sampled, reported, reason>>
    BY <1>2 DEF Decode
  <2> QED BY <2>1 DEF Last
<1>3. ASSUME NEW token \in Token, Sample(token) PROVE LoopInv'
  <2>1. /\ sampled' \in Seq(Token) /\ Len(sampled') > 0
        /\ sampled' = Append(sampled, token) /\ Last(sampled') = token
    BY <1>3 DEF Sample, Last
  <2>2. sampled' = Append(reported, Last(sampled'))
    BY <1>3, <2>1 DEF Sample
  <2> QED BY <1>3, <2>1, <2>2 DEF Sample
<1>4. ASSUME NEW value \in BOOLEAN, OnToken(value) PROVE LoopInv'
  <2>1. /\ Last(sampled) \in Token /\ reported' \in Seq(Token)
        /\ reported' = sampled /\ sampled' = sampled
    BY <1>4 DEF OnToken, Last
  <2> QED BY <1>4, <2>1 DEF OnToken
<1> QED BY <1>1, <1>2, <1>3, <1>4 DEF LoopNext

(* on_token of the loop: what the closure sees is the text of all reported *)
(* tokens after it.                                                        *)
LEMMA TokenIs ==
    ASSUME PyInv, NEW value \in BOOLEAN, OnToken(value)
    PROVE  /\ LoopInv'
           /\ reported \in Seq(Token) /\ Last(sampled) \in Token
           /\ reported' = Append(reported, Last(sampled))
           /\ reported' \in Seq(Token)
           /\ Text(reported') = Full
           /\ phase = "callback" /\ reason = None
           /\ ~value => phase' = "ended" /\ reason' = "Cancelled"
<1>1. LoopInv'
  BY LoopKeeps DEF PyInv, LoopNext
<1>2. /\ phase = "callback" /\ sampled \in Seq(Token) /\ reported \in Seq(Token)
      /\ Len(sampled) > 0 /\ reason = None
  BY DEF PyInv, LoopInv, LoopTypeOK, OnToken
<1>3. Last(sampled) \in Token
  BY <1>2 DEF Last
<1>4. reported' = Append(reported, Last(sampled))
  BY DEF OnToken
<1>5. reported' \in Seq(Token)
  BY <1>2, <1>3, <1>4
<1>6. ~value => phase' = "ended" /\ reason' = "Cancelled"
  BY DEF OnToken, End
<1> QED BY <1>1, <1>2, <1>3, <1>4, <1>5, <1>6 DEF Full

LEMMA HolderFacts ==
    ASSUME PyInv, NEW t \in Thread, pc[t] \in InSession
    PROVE  /\ mutex = t /\ mutex # None
           /\ pc[t] = "generate" => InGenerate
           /\ pc[t] = "callback" => InCallback
           /\ pc[t] = "flush" => InFlush
           /\ pc[t] = "unlock" => InUnlock
BY PyAssumption DEF PyInv, HolderTypes, CallInv

LEMMA Labels ==
    /\ {"generate", "callback", "flush", "unlock"} = InSession
    /\ {"callback", "flush"} \subseteq RunsPython
    /\ "generate" \notin RunsPython /\ "unlock" \notin RunsPython
    /\ {"lock", "return", "python"} \cap InSession = {}
    /\ InSession \subseteq PC /\ {"lock", "return", "python"} \subseteq PC
    /\ "python" \in RunsPython
    /\ "lock" \notin RunsPython /\ "return" \notin RunsPython
BY DEF InSession, RunsPython, PC

LEMMA StaysAt ==
    ASSUME PyInv, NEW t \in Thread, pc' = pc PROVE GoTo(t, pc[t])
BY DEF GoTo, PyInv, HolderTypes

LEMMA InterpreterStep ==
    ASSUME PyInv, NEW t \in Thread,
           Resume(t) \/ Yield(t) \/ Call(t) \/ LoadFails(t) \/ Return(t)
    PROVE  PyInv'
<1>1. CASE Resume(t) \/ Yield(t)
  <2>1. /\ GoTo(t, pc[t]) /\ pc[t] \in PC /\ pc[t] \in RunsPython
        /\ gil' = t \/ gil' = None
        /\ UNCHANGED <<mutex, callVars>>
    BY <1>1, StaysAt DEF Resume, Yield, PyInv, HolderTypes
  <2> QED BY <2>1, OutsideKeeps
<1>2. CASE Call(t)
  <2>1. pc[t] = "python" /\ GoTo(t, "lock") /\ gil' = None
        /\ UNCHANGED <<mutex, callVars>>
    BY <1>2 DEF Call
  <2> QED BY <2>1, Labels, OutsideKeeps
<1>3. CASE LoadFails(t)
  <2>1. pc[t] = "lock" /\ GoTo(t, "return") /\ gil' = gil
        /\ UNCHANGED <<mutex, callVars>>
    BY <1>3 DEF LoadFails
  <2> QED BY <2>1, Labels, OutsideKeeps
<1>4. CASE Return(t)
  <2>1. pc[t] = "return" /\ GoTo(t, "python") /\ gil' = t
        /\ UNCHANGED <<mutex, callVars>>
    BY <1>4 DEF Return, TakeGil
  <2> QED BY <2>1, Labels, OutsideKeeps
<1> QED BY <1>1, <1>2, <1>3, <1>4

LEMMA LockStep ==
    ASSUME TokenizerKeepsText, PyInv, NEW t \in Thread, LockSession(t)
    PROVE  PyInv'
<1>1. /\ pc[t] = "lock" /\ mutex = None /\ mutex' = t
      /\ streaming' \in BOOLEAN /\ GoTo(t, "generate") /\ gil' = gil
      /\ UNCHANGED <<phase, sampled, reported, fed, reason, emitted, delivered,
                     callback_error, decode_error, outcome, answer>>
  BY DEF LockSession, loopVars, closureVars
<1>2. Blank /\ t # None
  BY <1>1, PyAssumption DEF PyInv, CallInv
<1>3. HolderTypes'
  BY <1>1, <1>2, Labels, PyAssumption DEF PyInv, HolderTypes, GoTo
<1>4. LoopInv' /\ CallTypes'
  BY <1>1 DEF PyInv, LoopInv, LoopTypeOK, CallTypes
<1>5. reported' = <<>> /\ emitted' = 0 /\ delivered' = <<>> /\ answer' = None
      /\ outcome' = None /\ callback_error' = FALSE
  BY <1>1, <1>2 DEF Blank, LoopInit
<1>6. Whole(reported', emitted', delivered')
  BY <1>5, NothingIsWhole
<1>7. InGenerate'
  BY <1>5, <1>6, PyAssumption DEF InGenerate, Refused, Answers
<1>8. pc'[t] = "generate"
  BY <1>1 DEF PyInv, HolderTypes, GoTo
<1>9. CallInv'
  BY <1>1, <1>2, <1>7, <1>8 DEF CallInv
<1> QED BY <1>3, <1>4, <1>9 DEF PyInv

LEMMA LoopStep ==
    ASSUME PyInv, NEW t \in Thread, Loop(t) PROVE PyInv'
<1>1. /\ pc[t] = "generate" /\ LoopNext /\ phase # "ended"
      /\ UNCHANGED <<gil, mutex, pc, streaming, reported, emitted, delivered,
                     callback_error, decode_error, outcome, answer>>
  BY DEF Loop, Generating, LoopNext, Prefill, LoopFails, Decode, Exhausted,
         Sample, closureVars
<1>2. LoopInv'
  BY <1>1, LoopKeeps DEF PyInv
<1>3. CallTypes'
  BY <1>1 DEF PyInv, CallTypes
<1>4. InGenerate
  BY <1>1, Labels, HolderFacts
<1>5. InGenerate'
  BY <1>1, <1>4 DEF InGenerate, Refused
<1>6. GoTo(t, "generate")
  BY <1>1, StaysAt
<1> QED BY <1>1, <1>2, <1>3, <1>5, <1>6, Labels, HolderKeeps

LEMMA KeptStep ==
    ASSUME PyInv, NEW t \in Thread,
           TokenKept(t) \/ TokenUndecodable(t) \/ TokenHeld(t)
    PROVE  PyInv'
<1>1. PICK value \in BOOLEAN :
          /\ OnToken(value)
          /\ pc[t] = "generate"
          /\ UNCHANGED <<gil, mutex, pc, streaming, emitted, delivered,
                         callback_error, outcome, answer>>
          /\ decode_error' \in BOOLEAN
  BY DEF TokenKept, TokenUndecodable, TokenHeld, Generating, closureVars,
         PyInv, CallTypes
<1>2. /\ LoopInv' /\ reported \in Seq(Token) /\ Last(sampled) \in Token
      /\ reported' = Append(reported, Last(sampled))
      /\ phase = "callback" /\ reason = None
  BY <1>1, TokenIs
<1>3. CallTypes'
  BY <1>1 DEF PyInv, CallTypes
<1>4. InGenerate /\ ~Refused
  BY <1>1, <1>2, Labels, HolderFacts DEF InGenerate
<1>5. streaming => Whole(reported', emitted, delivered)
  BY <1>2, <1>4, WholeStays DEF InGenerate
<1>6. InGenerate'
  BY <1>1, <1>4, <1>5 DEF InGenerate, Refused
<1>7. GoTo(t, "generate")
  BY <1>1, StaysAt
<1> QED BY <1>1, <1>2, <1>3, <1>6, <1>7, Labels, HolderKeeps

LEMMA DeliveredStep ==
    ASSUME TokenizerKeepsText, PyInv, NEW t \in Thread, TokenDelivered(t)
    PROVE  PyInv'
<1>1. /\ pc[t] = "generate" /\ phase = "callback" /\ streaming
      /\ Full # Undecodable /\ ~EndsBroken(Full)
      /\ gil' = t /\ GoTo(t, "callback")
      /\ delivered' = delivered \o From(Full, emitted)
      /\ emitted' = Len(Full)
      /\ UNCHANGED <<mutex, phase, sampled, reported, fed, reason, streaming,
                     callback_error, decode_error, outcome, answer>>
  BY DEF TokenDelivered, Generating, Deliver, TakeGil, loopVars
<1>2. InGenerate /\ ~Refused
  BY <1>1, Labels, HolderFacts DEF InGenerate
<1>3. /\ reported \in Seq(Token) /\ Last(sampled) \in Token
  BY <1>1 DEF PyInv, LoopInv, LoopTypeOK, Last
<1>4. Whole(Append(reported, Last(sampled)), emitted, delivered)
  BY <1>1, <1>2, <1>3, WholeStays DEF InGenerate
<1>5. Append(reported, Last(sampled)) \in Seq(Token)
  BY <1>3
<1>6. /\ Full \in Seq(Char) /\ delivered \in Seq(Char)
      /\ emitted = Len(delivered) /\ Begins(delivered, Full)
  BY <1>1, <1>4, <1>5, WholeBegins DEF Full
<1>7. delivered' = Full
  BY <1>1, <1>6, DeltaCompletes
<1>8. LoopInv'
  BY <1>1 DEF PyInv, LoopInv, LoopTypeOK
<1>9. CallTypes'
  <2>1. emitted' \in Nat /\ delivered' \in Seq(Char)
    <3>1. Len(Full) \in Nat
      BY <1>6
    <3>2. emitted' = Len(Full)
      BY <1>1
    <3> QED BY <1>6, <1>7, <3>1, <3>2
  <2>2. UNCHANGED <<streaming, callback_error, decode_error, outcome, answer>>
    BY <1>1
  <2> QED BY <2>1, <2>2 DEF PyInv, CallTypes
<1>10. Full' = Full
  BY <1>1 DEF Full
<1>11. InCallback'
  BY <1>1, <1>2, <1>7, <1>10 DEF InCallback, InGenerate, Refused
<1> QED BY <1>1, <1>8, <1>9, <1>11, Labels, HolderKeeps

LEMMA CallbackStep ==
    ASSUME PyInv, NEW t \in Thread, NEW value \in Answers,
           CallbackReturns(t, value)
    PROVE  PyInv'
<1>1. /\ pc[t] = "callback" /\ gil' = None /\ GoTo(t, "generate")
      /\ answer' = value /\ callback_error' = (value = "raise")
      /\ OnToken(value = "continue")
      /\ UNCHANGED <<mutex, streaming, emitted, delivered, decode_error,
                     outcome>>
  BY DEF CallbackReturns
<1>2. InCallback
  BY <1>1, Labels, HolderFacts
<1>3. /\ LoopInv' /\ reported' \in Seq(Token) /\ Text(reported') = Full
      /\ value # "continue" => phase' = "ended" /\ reason' = "Cancelled"
  BY <1>1, TokenIs
<1>4. CallTypes'
  BY <1>1 DEF PyInv, CallTypes
<1>5. Whole(reported', emitted', delivered')
  BY <1>1, <1>2, <1>3, WholeNow DEF InCallback
<1>6. Len(Text(reported')) <= emitted'
  BY <1>1, <1>2, <1>3 DEF InCallback, PyInv, CallTypes
<1>7. InGenerate'
  BY <1>1, <1>2, <1>3, <1>5, <1>6 DEF InGenerate, InCallback, Refused, Answers
<1> QED BY <1>1, <1>3, <1>4, <1>7, Labels, HolderKeeps

(* The rest of the text goes to a callback that has refused nothing.       *)
LEMMA FlushNotRefused ==
    ASSUME TokenizerKeepsText, PyInv, NEW t \in Thread, Flush(t)
    PROVE  ~Refused
<1>1. /\ pc[t] = "generate" /\ streaming /\ ~callback_error
      /\ Text(reported) # Undecodable /\ Len(Text(reported)) > emitted
  BY DEF Flush, LoopIsOver, Generating, Deliver, TextIsLost, Generated
<1>2. InGenerate /\ reported \in Seq(Token)
  BY <1>1, Labels, HolderFacts DEF PyInv, LoopInv, LoopTypeOK
<1>3. Text(reported) \in Seq(Char) /\ emitted \in Nat
  BY <1>1, <1>2, WholeBegins DEF InGenerate
<1>4. answer # "raise"
  BY <1>1, <1>2 DEF InGenerate
<1>5. answer # "cancel"
  BY <1>1, <1>2, <1>3 DEF InGenerate
<1> QED BY <1>4, <1>5 DEF Refused

LEMMA FlushStep ==
    ASSUME TokenizerKeepsText, PyInv, NEW t \in Thread, Flush(t)
    PROVE  PyInv'
<1>1. /\ pc[t] = "generate" /\ phase = "ended" /\ streaming
      /\ ~callback_error /\ Text(reported) # Undecodable
      /\ Len(Text(reported)) > emitted
      /\ gil' = t /\ GoTo(t, "flush")
      /\ delivered' = delivered \o From(Text(reported), emitted)
      /\ UNCHANGED <<mutex, phase, sampled, reported, fed, reason, streaming,
                     emitted, callback_error, decode_error, outcome, answer>>
  BY DEF Flush, LoopIsOver, Generating, Deliver, TakeGil, TextIsLost,
         Generated, loopVars
<1>2. InGenerate /\ reported \in Seq(Token)
  BY <1>1, Labels, HolderFacts DEF PyInv, LoopInv, LoopTypeOK
<1>3. /\ Text(reported) \in Seq(Char) /\ delivered \in Seq(Char)
      /\ emitted = Len(delivered) /\ Begins(delivered, Text(reported))
  BY <1>1, <1>2, WholeBegins DEF InGenerate
<1>4. ~Refused
  BY FlushNotRefused
<1>5. delivered' = Text(reported)
  BY <1>1, <1>3, DeltaCompletes
<1>6. LoopInv'
  BY <1>1 DEF PyInv, LoopInv, LoopTypeOK
<1>7. CallTypes'
  BY <1>1, <1>3, <1>5 DEF PyInv, CallTypes
<1>8. InFlush'
  BY <1>1, <1>2, <1>3, <1>4, <1>5 DEF InFlush, InGenerate, Refused
<1> QED BY <1>1, <1>6, <1>7, <1>8, Labels, HolderKeeps

LEMMA FlushedStep ==
    ASSUME PyInv, NEW t \in Thread, NEW value \in Answers,
           FlushReturns(t, value)
    PROVE  PyInv'
<1> DEFINE result == IF value = "raise" THEN Exception
                                        ELSE Answer(Text(reported))
<1>1. /\ pc[t] = "flush" /\ gil' = None /\ GoTo(t, "unlock")
      /\ answer' = value /\ outcome' = result
      /\ UNCHANGED <<mutex, phase, sampled, reported, fed, reason, streaming,
                     emitted, delivered, callback_error, decode_error>>
  BY DEF FlushReturns, EndsWith, loopVars, closureVars
<1>2. InFlush
  BY <1>1, Labels, HolderFacts
<1>3. /\ result = Exception <=> value = "raise"
      /\ result.kind = "text" => result.text = Text(reported)
  BY DEF Exception, Answer
<1>4. LoopInv'
  BY <1>1 DEF PyInv, LoopInv, LoopTypeOK
<1>5. \/ result = Exception
      \/ result = Answer(result.text) /\ result.text \in Seq(Char)
  BY <1>2 DEF InFlush, Answer
<1>6. CallTypes'
  BY <1>1, <1>5 DEF PyInv, CallTypes
<1>7. DeltasAddUp'
  BY <1>1, <1>2, <1>3 DEF DeltasAddUp, InFlush
<1>8. InUnlock'
  BY <1>1, <1>2, <1>3, <1>7 DEF InUnlock, InFlush
<1> QED BY <1>1, <1>4, <1>6, <1>8, Labels, HolderKeeps

LEMMA ReturnStep ==
    ASSUME TokenizerKeepsText, PyInv, NEW t \in Thread,
           ReturnError(t) \/ ReturnException(t) \/ ReturnText(t)
    PROVE  PyInv'
<1>1. /\ pc[t] = "generate" /\ phase = "ended" /\ GoTo(t, "unlock")
      /\ UNCHANGED <<gil, mutex, phase, sampled, reported, fed, reason,
                     streaming, emitted, delivered, callback_error,
                     decode_error, answer>>
  BY DEF ReturnError, ReturnException, ReturnText, LoopIsOver, Generating,
         EndsWith, loopVars, closureVars
<1>2. InGenerate /\ reported \in Seq(Token)
  BY <1>1, Labels, HolderFacts DEF PyInv, LoopInv, LoopTypeOK
<1>3. LoopInv'
  BY <1>1 DEF PyInv, LoopInv, LoopTypeOK
<1>4. /\ CallTypes' /\ DeltasAddUp'
      /\ outcome' = Exception <=> answer = "raise"
  <2>1. CASE ReturnError(t)
    <3>1. outcome' = EngineError
      BY <2>1 DEF ReturnError, EndsWith
    <3>2. answer # "raise"
      BY <1>2, <2>1, LoopAssumption DEF ReturnError, InGenerate, Refused
    <3>3. EngineError # Exception /\ EngineError.kind # "text"
      BY DEF EngineError, Exception
    <3>4. CallTypes'
      BY <1>1, <3>1 DEF PyInv, CallTypes
    <3> QED BY <3>1, <3>2, <3>3, <3>4 DEF DeltasAddUp
  <2>2. CASE ReturnException(t)
    <3>1. outcome' = Exception /\ answer = "raise"
      BY <1>2, <2>2 DEF ReturnException, EndsWith, InGenerate
    <3>2. Exception.kind # "text"
      BY DEF Exception
    <3>3. CallTypes'
      BY <1>1, <3>1 DEF PyInv, CallTypes
    <3> QED BY <3>1, <3>2, <3>3 DEF DeltasAddUp
  <2>3. CASE ReturnText(t)
    <3>1. /\ outcome' = Answer(Text(Generated)) /\ answer # "raise"
          /\ Text(Generated) # Undecodable /\ reason # "Error"
          /\ streaming => Len(Text(Generated)) <= emitted
      BY <1>2, <2>3 DEF ReturnText, EndsWith, InGenerate, TextIsLost
    <3>2. Text(Generated) \in Seq(Char)
      <4>1. Generated \in Seq(Token)
        BY <1>2 DEF Generated, PyInv, LoopInv, LoopTypeOK
      <4> QED BY <3>1, <4>1, TextTypes
    <3>3. delivered = IF streaming THEN Text(Generated) ELSE <<>>
      <4>1. CASE streaming
        BY <1>2, <3>1, <4>1, WholeBegins, DeltaCompletes
        DEF InGenerate, Generated
      <4>2. CASE ~streaming
        BY <1>2, <4>2 DEF InGenerate
      <4> QED BY <4>1, <4>2
    <3>4. /\ Answer(Text(Generated)).text = Text(Generated)
          /\ Answer(Text(Generated)) # Exception
      BY DEF Answer, Exception
    <3>5. CallTypes'
      BY <1>1, <3>1, <3>2, <3>4 DEF PyInv, CallTypes
    <3>6. ~streaming => Generated = IF reason = "StopToken"
                                    THEN Append(reported, Last(sampled))
                                    ELSE reported
      BY <1>1, <3>1 DEF Generated, PyInv, LoopInv, LoopTypeOK, Reasons
    <3>7. streaming => Generated = reported
      BY DEF Generated
    <3>8. DeltasAddUp'
      BY <1>1, <3>1, <3>3, <3>4, <3>6, <3>7 DEF DeltasAddUp
    <3> QED BY <3>1, <3>4, <3>5, <3>8
  <2> QED BY <2>1, <2>2, <2>3
<1>5. InUnlock'
  BY <1>1, <1>4 DEF InUnlock
<1> QED BY <1>1, <1>3, <1>4, <1>5, Labels, HolderKeeps

LEMMA EndStep ==
    ASSUME PyInv, NEW t \in Thread, Unlock(t) \/ Panic(t) PROVE PyInv'
<1>1. /\ pc[t] \in {"generate", "unlock"} /\ mutex' = None /\ ForgetCall
      /\ GoTo(t, "return") /\ UNCHANGED gil
  BY DEF Unlock, Panic, Generating
<1> QED BY <1>1, Labels, ForgetKeeps

LEMMA PyStep ==
    ASSUME TokenizerKeepsText, PyInv, [Next]_vars PROVE PyInv'
<1>1. CASE UNCHANGED vars
  BY <1>1
  DEF vars, callVars, loopVars, closureVars, PyInv, HolderTypes, LoopInv,
      LoopTypeOK, CallTypes, CallInv, Blank, LoopInit, InGenerate, InCallback,
      InFlush, InUnlock, Refused, Full, DeltasAddUp
<1>2. ASSUME NEW t \in Thread,
             \/ Yield(t) \/ Call(t) \/ LoadFails(t)
             \/ Native(t) \/ AcquiresGil(t) \/ CallbackEnds(t)
      PROVE  PyInv'
  BY <1>2, InterpreterStep, LockStep, LoopStep, KeptStep, DeliveredStep,
     CallbackStep, FlushStep, FlushedStep, ReturnStep, EndStep
  DEF Native, AcquiresGil, CallbackEnds
<1> QED BY <1>1, <1>2 DEF Next
-----------------------------------------------------------------------------
(* A call has an outcome only between its end and the end of its guard.    *)
LEMMA Holding ==
    ASSUME PyInv, outcome # None PROVE InUnlock
<1>1. mutex # None /\ mutex \in Thread
  BY DEF PyInv, HolderTypes, CallInv, Blank
<1>2. pc[mutex] \in InSession
  BY <1>1 DEF PyInv, HolderTypes
<1> QED BY <1>1, <1>2, Labels
        DEF PyInv, CallInv, InGenerate, InCallback, InFlush

LEMMA PyAlways == ASSUME TokenizerKeepsText PROVE Spec => []PyInv
BY InitInv, PyStep, PTL DEF Spec

(* Types, and: the GIL is held for Python code only, a session by exactly  *)
(* the one call that is using it.                                          *)
THEOREM PyTypeCorrect ==
    ASSUME TokenizerKeepsText PROVE Spec => []TypeOK
<1>1. PyInv => TypeOK
  <2> SUFFICES ASSUME PyInv PROVE TypeOK
    OBVIOUS
  <2>1. IF mutex = None THEN \A t \in Thread : pc[t] \notin InSession
        ELSE {t \in Thread : pc[t] \in InSession} = {mutex}
    BY PyAssumption DEF PyInv, HolderTypes
  <2>2. mutex = None => ~streaming
    BY DEF PyInv, CallInv, Blank
  <2> QED BY <2>1, <2>2 DEF PyInv, HolderTypes, LoopInv, CallTypes, TypeOK
<1> QED BY <1>1, PyAlways, PTL

(* A call that ends well returns exactly what went to its callback; one    *)
(* without a callback the text of every token it reported and of the stop  *)
(* token that ended it (generate, the closures of python.rs).              *)
THEOREM PyDeltasAddUp ==
    ASSUME TokenizerKeepsText PROVE Spec => []DeltasAddUp
<1>1. PyInv => DeltasAddUp
  <2> SUFFICES ASSUME PyInv, outcome # None PROVE DeltasAddUp
    BY DEF DeltasAddUp
  <2> QED BY Holding DEF InUnlock
<1> QED BY <1>1, PyAlways, PTL

(* The caller gets the exception of its callback and no other.             *)
THEOREM ExceptionsReachCallers ==
    ASSUME TokenizerKeepsText PROVE Spec => []ExceptionReachesCaller
<1>1. PyInv => ExceptionReachesCaller
  BY Holding DEF InUnlock, ExceptionReachesCaller
<1> QED BY <1>1, PyAlways, PTL

(* A callback that refused is not called again in its call, and nothing    *)
(* more is sampled or decoded for it.                                      *)
THEOREM RefusalsAreFinal ==
    ASSUME TokenizerKeepsText PROVE Spec => RefusalIsFinal
<1>1. ASSUME PyInv, [Next]_vars, Refused, mutex' = mutex
      PROVE  UNCHANGED <<delivered, sampled, fed>>
  <2>1. CASE UNCHANGED vars
    BY <2>1 DEF vars, callVars, loopVars, closureVars
  <2>2. CASE Next
    <3>1. PICK t \in Thread : \/ Yield(t) \/ Call(t) \/ LoadFails(t)
                              \/ Native(t) \/ AcquiresGil(t) \/ CallbackEnds(t)
      BY <2>2 DEF Next
    <3>2. CASE Yield(t) \/ Call(t) \/ LoadFails(t) \/ Resume(t) \/ Return(t)
      BY <3>2 DEF Yield, Call, LoadFails, Resume, Return, callVars, loopVars,
                  closureVars
    <3>3. CASE \/ ReturnError(t) \/ ReturnException(t) \/ ReturnText(t)
               \/ \E value \in Answers : FlushReturns(t, value)
      BY <3>3 DEF ReturnError, ReturnException, ReturnText, FlushReturns,
                  loopVars, closureVars
    <3>4. CASE LockSession(t) \/ Unlock(t) \/ Panic(t)
      <4>1. pc[t] = "lock" \/ pc[t] \in InSession
        BY <3>4, Labels DEF LockSession, Unlock, Panic, Generating
      <4> QED BY <1>1, <3>4, <4>1, Labels, HolderFacts, PyAssumption
              DEF LockSession, Unlock, Panic, Generating
    <3>5. CASE \/ Loop(t) \/ TokenKept(t) \/ TokenUndecodable(t) \/ TokenHeld(t)
               \/ TokenDelivered(t)
      <4>1. pc[t] = "generate" /\ phase # "ended"
        BY <3>5 DEF Loop, TokenKept, TokenUndecodable, TokenHeld,
                    TokenDelivered, Generating, OnToken, Prefill, LoopFails,
                    Decode, Exhausted, Sample
      <4> QED BY <1>1, <4>1, Labels, HolderFacts DEF InGenerate
    <3>6. CASE \E value \in Answers : CallbackReturns(t, value)
      <4>1. pc[t] = "callback"
        BY <3>6 DEF CallbackReturns
      <4> QED BY <1>1, <4>1, Labels, HolderFacts DEF InCallback
    <3>7. CASE Flush(t)
      BY <1>1, <3>7, FlushNotRefused
    <3> QED BY <3>1, <3>2, <3>3, <3>4, <3>5, <3>6, <3>7
            DEF Native, AcquiresGil, CallbackEnds
  <2> QED BY <1>1, <2>1, <2>2
<1>2. PyInv /\ [Next]_vars =>
          [(answer \in {"cancel", "raise"} /\ mutex' = mutex) =>
               UNCHANGED <<delivered, sampled, fed>>]_vars
  BY <1>1 DEF Refused
<1> QED BY <1>2, PyAlways, PTL DEF Spec, RefusalIsFinal
-----------------------------------------------------------------------------
(* How many steps a call may still take, but for those in which the GIL    *)
(* changes hands while its callback runs: the loop's, each of which may    *)
(* call on_delta, and those around it.                                     *)
LoopLeft ==
    CASE phase = "start" -> 3 * MaxTokens + 2
      [] phase = "top" -> 3 * (MaxTokens - Len(sampled)) + 1
      [] phase = "callback" -> 3 * (MaxTokens - Len(sampled)) + 3
      [] phase = "decode" -> 3 * (MaxTokens - Len(sampled)) + 2
      [] phase = "ended" -> 0

CallLeft(t) ==
    CASE pc[t] = "lock" -> 2 * (3 * MaxTokens + 2) + 5
      [] pc[t] = "generate" -> 2 * LoopLeft + 4
      [] pc[t] \in {"callback", "flush"} -> 2 * LoopLeft + 3
      [] pc[t] = "unlock" -> 2
      [] pc[t] = "return" -> 1
      [] OTHER -> 0

WithinLimit == Len(sampled) \in 0..MaxTokens

LEMMA LoopLeftIs ==
    ASSUME LoopInv, WithinLimit PROVE LoopLeft \in 0..(3 * MaxTokens + 2)
<1>1. MaxTokens \in Nat /\ phase \in Phases
  BY LoopAssumption DEF LoopInv, LoopTypeOK
<1>2. phase = "callback" => MaxTokens - Len(sampled) < MaxTokens
  BY <1>1 DEF LoopInv, WithinLimit
<1> QED BY <1>1, <1>2 DEF LoopLeft, WithinLimit, Phases

LEMMA LoopAdvances ==
    ASSUME LoopInv, WithinLimit, LoopNext
    PROVE  WithinLimit' /\ LoopLeft' < LoopLeft
<1>1. /\ MaxTokens \in Nat /\ sampled \in Seq(Token)
      /\ Len(sampled) \in 0..MaxTokens
  BY LoopAssumption DEF LoopInv, LoopTypeOK, WithinLimit
<1> USE DEF LoopLeft, End
<1>2. CASE Prefill \/ LoopFails \/ CancelledAtTop \/ Exhausted
  BY <1>1, <1>2
  DEF WithinLimit, Prefill, LoopFails, CancelledAtTop, Exhausted
<1>3. CASE Decode
  BY <1>1, <1>3 DEF WithinLimit, Decode
<1>4. ASSUME NEW token \in Token, Sample(token)
      PROVE  WithinLimit' /\ LoopLeft' < LoopLeft
  <2>1. Len(sampled') = Len(sampled) + 1
    BY <1>1, <1>4 DEF Sample
  <2> QED BY <1>1, <1>4, <2>1 DEF Sample, WithinLimit
<1>5. ASSUME NEW value \in BOOLEAN, OnToken(value)
      PROVE  WithinLimit' /\ LoopLeft' < LoopLeft
  BY <1>1, <1>5 DEF OnToken, WithinLimit
<1> QED BY <1>2, <1>3, <1>4, <1>5 DEF LoopNext

(* The steps of a call, by what they do to the loop.                       *)
LEMMA StepKinds ==
    ASSUME PyInv, NEW t \in Thread,
           \/ Yield(t) \/ Call(t) \/ LoadFails(t)
           \/ Native(t) \/ AcquiresGil(t) \/ CallbackEnds(t)
    PROVE  /\ \A u \in Thread \ {t} : pc'[u] = pc[u]
           /\ \/ UNCHANGED <<pc, loopVars>> /\ (Resume(t) \/ Yield(t))
              \/ /\ UNCHANGED loopVars
                 /\ \/ pc[t] = "python"
                    \/ pc[t] = "lock" /\ pc'[t] = "return"
                    \/ /\ pc[t] = "generate"
                       /\ pc'[t] \in {"callback", "flush", "unlock"}
                    \/ pc[t] = "flush" /\ pc'[t] = "unlock"
                    \/ pc[t] = "return" /\ pc'[t] = "python"
              \/ /\ LoopNext
                 /\ pc[t] \in {"generate", "callback"} /\ pc'[t] = "generate"
              \/ /\ pc[t] = "lock" /\ pc'[t] = "generate" /\ mutex = None
                 /\ UNCHANGED loopVars
              \/ /\ pc[t] \in {"generate", "unlock"} /\ pc'[t] = "return"
                 /\ ForgetCall
<1>1. pc \in [Thread -> PC]
  BY DEF PyInv, HolderTypes
<1>2. CASE Resume(t) \/ Yield(t)
  BY <1>1, <1>2 DEF Resume, Yield, callVars
<1>3. CASE Call(t) \/ LoadFails(t) \/ Return(t)
  BY <1>1, <1>3 DEF Call, LoadFails, Return, GoTo, callVars
<1>4. CASE LockSession(t)
  BY <1>1, <1>4 DEF LockSession, GoTo
<1>5. CASE Loop(t) \/ TokenKept(t) \/ TokenUndecodable(t) \/ TokenHeld(t)
  BY <1>1, <1>5
  DEF Loop, TokenKept, TokenUndecodable, TokenHeld, Generating, LoopNext
<1>6. CASE \E value \in Answers : CallbackReturns(t, value)
  BY <1>1, <1>6 DEF CallbackReturns, GoTo, LoopNext
<1>7. CASE TokenDelivered(t) \/ Flush(t)
  BY <1>1, <1>7 DEF TokenDelivered, Flush, LoopIsOver, Generating, Deliver, GoTo
<1>8. CASE ReturnError(t) \/ ReturnException(t) \/ ReturnText(t)
  BY <1>1, <1>8
  DEF ReturnError, ReturnException, ReturnText, EndsWith, LoopIsOver,
      Generating, GoTo
<1>9. CASE \E value \in Answers : FlushReturns(t, value)
  BY <1>1, <1>9 DEF FlushReturns, EndsWith, GoTo
<1>10. CASE Unlock(t) \/ Panic(t)
  BY <1>1, <1>10 DEF Unlock, Panic, Generating, GoTo
<1> QED BY <1>2, <1>3, <1>4, <1>5, <1>6, <1>7, <1>8, <1>9, <1>10
        DEF Native, AcquiresGil, CallbackEnds

LEMMA LimitKept ==
    ASSUME PyInv, WithinLimit, [Next]_vars PROVE WithinLimit'
<1>1. CASE UNCHANGED loopVars
  BY <1>1 DEF loopVars, WithinLimit
<1>2. CASE LoopNext
  BY <1>2, LoopAdvances DEF PyInv
<1>3. CASE ForgetCall
  BY <1>3, LoopAssumption DEF ForgetCall, WithinLimit
<1>4. [Next]_vars => UNCHANGED loopVars \/ LoopNext \/ ForgetCall
  BY StepKinds DEF Next, vars, callVars
<1> QED BY <1>1, <1>2, <1>3, <1>4

(* A step of a call leaves it less to do, and the calls of other threads   *)
(* as much as before: none of them is inside the session with it.          *)
LEMMA CallAdvances ==
    ASSUME PyInv, WithinLimit, NEW t \in Thread,
           \/ Yield(t) \/ Call(t) \/ LoadFails(t)
           \/ Native(t) \/ AcquiresGil(t) \/ CallbackEnds(t)
    PROVE  /\ \/ pc[t] = "python" \/ Resume(t) \/ Yield(t)
              \/ CallLeft(t)' < CallLeft(t)
           /\ \A u \in Thread \ {t} : CallLeft(u)' = CallLeft(u)
<1>1. /\ MaxTokens \in Nat /\ LoopLeft \in 0..(3 * MaxTokens + 2)
      /\ pc \in [Thread -> PC] /\ LoopInv
  BY LoopAssumption, LoopLeftIs DEF PyInv, HolderTypes
<1>2. \A u \in Thread \ {t} : pc'[u] = pc[u]
  BY StepKinds
<1>3. UNCHANGED loopVars => LoopLeft' = LoopLeft
  BY DEF loopVars, LoopLeft
<1>4. ASSUME NEW u \in Thread \ {t},
             LoopLeft' = LoopLeft \/ pc[t] \in InSession
      PROVE  CallLeft(u)' = CallLeft(u)
  <2>1. CASE LoopLeft' = LoopLeft
    BY <1>2, <2>1 DEF CallLeft
  <2>2. CASE pc[t] \in InSession
    <3>1. pc[u] \notin InSession
      BY <2>2, HolderFacts
    <3> QED BY <1>2, <3>1, Labels DEF CallLeft
  <2> QED BY <1>4, <2>1, <2>2
<1>5. CASE UNCHANGED <<pc, loopVars>> /\ (Resume(t) \/ Yield(t))
  BY <1>3, <1>4, <1>5
<1>6. CASE /\ UNCHANGED loopVars
           /\ \/ pc[t] = "python"
              \/ pc[t] = "lock" /\ pc'[t] = "return"
              \/ /\ pc[t] = "generate"
                 /\ pc'[t] \in {"callback", "flush", "unlock"}
              \/ pc[t] = "flush" /\ pc'[t] = "unlock"
              \/ pc[t] = "return" /\ pc'[t] = "python"
  <2>1. LoopLeft' = LoopLeft
    BY <1>3, <1>6
  <2>2. pc[t] = "python" \/ CallLeft(t)' < CallLeft(t)
    BY <1>1, <1>6, <2>1 DEF CallLeft
  <2> QED BY <1>4, <2>1, <2>2
<1>7. CASE LoopNext /\ pc[t] \in {"generate", "callback"} /\ pc'[t] = "generate"
  <2>1. LoopLeft' < LoopLeft
    BY <1>1, <1>7, LoopAdvances
  <2>2. LoopLeft' \in Nat
    <3>1. LoopInv' /\ WithinLimit'
      BY <1>1, <1>7, LoopKeeps, LoopAdvances
    <3>2. phase' \in Phases /\ Len(sampled') \in 0..MaxTokens
      BY <3>1 DEF LoopInv, LoopTypeOK, WithinLimit
    <3>3. MaxTokens - Len(sampled') \in Nat
      BY <1>1, <3>2
    <3> QED BY <1>1, <3>2, <3>3 DEF LoopLeft, Phases
  <2>3. CallLeft(t)' < CallLeft(t)
    BY <1>1, <1>7, <2>1, <2>2 DEF CallLeft
  <2> QED BY <1>4, <1>7, <2>3, Labels
<1>8. CASE /\ pc[t] = "lock" /\ pc'[t] = "generate" /\ mutex = None
           /\ UNCHANGED loopVars
  <2>1. LoopLeft' = LoopLeft
    BY <1>3, <1>8
  <2>2. CallLeft(t)' < CallLeft(t)
    BY <1>1, <1>8, <2>1 DEF CallLeft
  <2> QED BY <1>4, <2>1, <2>2
<1>9. CASE /\ pc[t] \in {"generate", "unlock"} /\ pc'[t] = "return"
           /\ ForgetCall
  <2>1. CallLeft(t)' < CallLeft(t)
    BY <1>1, <1>9 DEF CallLeft
  <2> QED BY <1>4, <1>9, <2>1, Labels
<1> QED BY <1>5, <1>6, <1>7, <1>8, <1>9, StepKinds

(* A call of the extension is finite: it takes at most 6 * max_tokens + 9  *)
(* steps of its own besides exchanges of the GIL, whoever else calls and   *)
(* whatever its callback answers or raises, and under no fairness; a step  *)
(* of a call leaves the calls of other threads as they were (generate,     *)
(* generate_with, the closures of python.rs).                              *)
THEOREM PyCallsAreFinite ==
    ASSUME TokenizerKeepsText
    PROVE  /\ Spec => [](\A t \in Thread :
                            CallLeft(t) \in 0..(6 * MaxTokens + 9))
           /\ Spec => [][\E t \in Thread :
                            /\ \/ pc[t] = "python" \/ Resume(t) \/ Yield(t)
                               \/ CallLeft(t)' < CallLeft(t)
                            /\ \A u \in Thread \ {t} :
                                   CallLeft(u)' = CallLeft(u)]_vars
<1>1. PyInv /\ WithinLimit =>
          \A t \in Thread : CallLeft(t) \in 0..(6 * MaxTokens + 9)
  <2> SUFFICES ASSUME PyInv, WithinLimit, NEW t \in Thread
               PROVE  CallLeft(t) \in 0..(6 * MaxTokens + 9)
    OBVIOUS
  <2>1. LoopLeft \in 0..(3 * MaxTokens + 2) /\ MaxTokens \in Nat
    BY LoopLeftIs, LoopAssumption DEF PyInv
  <2> QED BY <2>1 DEF CallLeft
<1>2. PyInv /\ WithinLimit /\ [Next]_vars =>
          [\E t \in Thread :
              /\ \/ pc[t] = "python" \/ Resume(t) \/ Yield(t)
                 \/ CallLeft(t)' < CallLeft(t)
              /\ \A u \in Thread \ {t} : CallLeft(u)' = CallLeft(u)]_vars
  BY CallAdvances DEF Next
<1>3. Init => WithinLimit
  BY LoopAssumption DEF Init, LoopInit, WithinLimit
<1> QED BY <1>1, <1>2, <1>3, LimitKept, PyAlways, PTL DEF Spec
=============================================================================
