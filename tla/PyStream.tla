------------------------------ MODULE PyStream ------------------------------
(***************************************************************************)
(* The generating calls of the Python extension (python crate, python.rs): *)
(* generate_chat_stream_registered_gguf and, without a callback, the calls *)
(* generate_registered_gguf and generate_chat_registered_gguf, made by the *)
(* threads of one interpreter for one model.  A call gives the GIL back,   *)
(* waits for the session, runs the loop of Generation, and takes the GIL   *)
(* again for each call of on_delta and to return.  The loop's variables    *)
(* belong to the thread that holds the session.                            *)
(*                                                                         *)
(* Callbacks are ordinary Python code: they may lose and regain the GIL,   *)
(* and they end.  They do not call into the same model: such a call would  *)
(* wait for the session that its own thread holds.                         *)
(*                                                                         *)
(* StopTokens holds what may end a call: the model's end token, which need *)
(* not be a special one, and, in calls without a callback, tokens that the *)
(* caller gives.  A call ends at the first of them, so that one set can    *)
(* stand for the choices of all calls.                                     *)
(***************************************************************************)
EXTENDS Generation

CONSTANTS
    Thread,         \* threads of the host program
    Char,           \* characters
    Broken,         \* U+FFFD, which stands for an incomplete character
    Text(_),        \* tokenizer.decode(tokens): a text, or Undecodable
    Undecodable     \* the tokenizer's error

VARIABLES
    gil,            \* the thread that holds the interpreter, or None
    mutex,          \* the thread that holds the session, or None
    pc,             \* where each thread is
    streaming,      \* the call that holds the session has a callback
    emitted,        \* how much of the text went to on_delta
    delivered,      \* the concatenation of the deltas passed to on_delta
    callback_error, \* an exception of on_delta is kept
    decode_error,   \* an error of the tokenizer is kept
    outcome,        \* what the call returns, or None
    answer          \* History: the last answer of on_delta in this call

closureVars == <<emitted, delivered, callback_error, decode_error>>
callVars == <<loopVars, streaming, closureVars, outcome, answer>>
vars == <<gil, mutex, pc, callVars>>

Answers == {"continue", "cancel", "raise"}

ASSUME PyAssumption ==
    /\ Broken \in Char
    /\ Undecodable \notin Seq(Char)
    /\ None \notin Thread
    /\ None \notin Answers

(* "python": host code; "callback", "flush": on_delta for a token or for   *)
(* the rest of the text.                                                   *)
RunsPython == {"python", "callback", "flush"}
InSession == {"generate", "callback", "flush", "unlock"}
PC == {"lock", "return"} \cup RunsPython \cup InSession
-----------------------------------------------------------------------------
From(text, n) == SubSeq(text, n + 1, Len(text))

(* Text goes out without waiting for the rest of a character. *)
NeverBroken(text) == FALSE

EndsBroken(text) == Len(text) > 0 /\ Last(text) = Broken

Begins(s, text) ==
    Len(s) <= Len(text) /\ \A i \in 1..Len(s) : text[i] = s[i]

(* What the callback takes for granted of tokenizer.decode: more tokens    *)
(* never change a text that did not end in an incomplete character.        *)
KeepsWholeText(sequences) ==
    /\ Text(<<>>) = <<>>
    /\ \A tokens \in sequences :
           /\ Text(tokens) \in Seq(Char) \cup {Undecodable}
           /\ \A n \in 0..Len(tokens) :
                  LET earlier == Text(SubSeq(tokens, 1, n)) IN
                  /\ earlier # Undecodable
                  /\ ~(Len(earlier) > 0 /\ Last(earlier) = Broken)
                  /\ Text(tokens) # Undecodable
                  => Begins(earlier, Text(tokens))

(* The text of the tokens reported so far and of this one. *)
Full == Text(Append(reported, Last(sampled)))

GoTo(t, label) == pc' = [pc EXCEPT ![t] = label]

(* Python::with_gil: by a thread without the GIL once it is free; a thread *)
(* that has it goes on.                                                    *)
TakeGil(t) == gil \in {None, t} /\ gil' = t

Init ==
    /\ gil = None
    /\ mutex = None
    /\ pc = [t \in Thread |-> "python"]
    /\ LoopInit
    /\ streaming = FALSE
    /\ emitted = 0
    /\ delivered = <<>>
    /\ callback_error = FALSE
    /\ decode_error = FALSE
    /\ outcome = None
    /\ answer = None

(* The locals of a call and of its loop are gone. *)
ForgetCall ==
    /\ phase' = "start"
    /\ sampled' = <<>>
    /\ reported' = <<>>
    /\ fed' = <<>>
    /\ reason' = None
    /\ streaming' = FALSE
    /\ emitted' = 0
    /\ delivered' = <<>>
    /\ callback_error' = FALSE
    /\ decode_error' = FALSE
    /\ outcome' = None
    /\ answer' = None
-----------------------------------------------------------------------------
(* The interpreter: any thread that runs Python code may get the GIL, and  *)
(* lose it between two bytecodes.                                          *)
Resume(t) ==
    /\ pc[t] \in RunsPython
    /\ gil = None
    /\ gil' = t
    /\ UNCHANGED <<mutex, pc, callVars>>

Yield(t) ==
    /\ pc[t] \in RunsPython
    /\ gil = t
    /\ gil' = None
    /\ UNCHANGED <<mutex, pc, callVars>>
-----------------------------------------------------------------------------
(* A call without allow_threads. *)
CallKeepsGil(t) ==
    /\ pc[t] = "python"
    /\ gil = t
    /\ GoTo(t, "lock")
    /\ UNCHANGED <<gil, mutex, callVars>>

(* py.allow_threads: the rest runs without the GIL. *)
Call(t) ==
    /\ pc[t] = "python"
    /\ gil = t
    /\ gil' = None
    /\ GoTo(t, "lock")
    /\ UNCHANGED <<mutex, callVars>>

(* The store cannot be opened or get_or_load fails. *)
LoadFails(t) ==
    /\ pc[t] = "lock"
    /\ GoTo(t, "return")
    /\ UNCHANGED <<gil, mutex, callVars>>

(* Any of the three calls gets the session. *)
LockSession(t) ==
    /\ pc[t] = "lock"
    /\ mutex = None
    /\ mutex' = t
    /\ streaming' \in BOOLEAN
    /\ GoTo(t, "generate")
    /\ UNCHANGED <<gil, loopVars, closureVars, outcome, answer>>

Generating(t) == pc[t] = "generate"

(* The loop outside of on_token.  The failures before the loop, of the     *)
(* template, the rendering and the encoding, are those of the phase        *)
(* "start"; the `cancelled` argument always says false.                    *)
Loop(t) ==
    /\ Generating(t)
    /\ \/ Prefill \/ LoopFails \/ Decode \/ Exhausted
       \/ \E token \in Token : Sample(token)
    /\ UNCHANGED <<gil, mutex, pc, streaming, closureVars, outcome, answer>>

(* generate: without a callback every token is accepted unread. *)
TokenKept(t) ==
    /\ Generating(t)
    /\ ~streaming
    /\ OnToken(TRUE)
    /\ UNCHANGED <<gil, mutex, pc, streaming, closureVars, outcome, answer>>

TokenUndecodable(t) ==
    /\ Generating(t)
    /\ streaming
    /\ OnToken(FALSE)
    /\ Full = Undecodable
    /\ decode_error' = TRUE
    /\ UNCHANGED <<gil, mutex, pc, streaming, emitted, delivered,
                   callback_error, outcome, answer>>

(* Nothing to deliver: an incomplete character, or no new text. *)
TokenHeld(t) ==
    /\ Generating(t)
    /\ streaming
    /\ OnToken(TRUE)
    /\ Full # Undecodable
    /\ EndsBroken(Full) \/ Len(Full) <= emitted
    /\ UNCHANGED <<gil, mutex, pc, streaming, closureVars, outcome, answer>>

(* on_delta is called with the text that is new. *)
Deliver(t, text, label) ==
    /\ streaming
    /\ Len(text) > emitted
    /\ TakeGil(t)
    /\ delivered' = delivered \o From(text, emitted)
    /\ GoTo(t, label)

TokenDelivered(t) ==
    /\ Generating(t)
    /\ phase = "callback"
    /\ Full # Undecodable
    /\ ~EndsBroken(Full)
    /\ Deliver(t, Full, "callback")
    /\ emitted' = Len(Full)
    /\ UNCHANGED <<mutex, loopVars, streaming, callback_error, decode_error,
                   outcome, answer>>

(* An exception that does not end the loop. *)
CallbackReturnsKeepGoing(t, value) ==
    /\ pc[t] = "callback"
    /\ gil = t
    /\ gil' = None
    /\ answer' = value
    /\ callback_error' = (value = "raise")
    /\ OnToken(value # "cancel")
    /\ GoTo(t, "generate")
    /\ UNCHANGED <<mutex, streaming, emitted, delivered, decode_error,
                   outcome>>

(* The GIL is not given back. *)
CallbackReturnsWithGil(t, value) ==
    /\ pc[t] = "callback"
    /\ gil = t
    /\ answer' = value
    /\ callback_error' = (value = "raise")
    /\ OnToken(value = "continue")
    /\ GoTo(t, "generate")
    /\ UNCHANGED <<gil, mutex, streaming, emitted, delivered, decode_error,
                   outcome>>

(* Only False cancels; an exception is kept and ends the loop as well. *)
CallbackReturns(t, value) ==
    /\ pc[t] = "callback"
    /\ gil = t
    /\ gil' = None
    /\ answer' = value
    /\ callback_error' = (value = "raise")
    /\ OnToken(value = "continue")
    /\ GoTo(t, "generate")
    /\ UNCHANGED <<mutex, streaming, emitted, delivered, decode_error,
                   outcome>>
-----------------------------------------------------------------------------
(* After the loop, in the code's order: the loop's own error, an exception *)
(* of the callback, an error of the tokenizer, the rest of the text.       *)
LoopIsOver(t) == Generating(t) /\ phase = "ended"

(* A call without a callback that decodes what a closure would have seen.  *)
OnlyReported == reported

(* generate returns all tokens, the stop token included; the closure kept  *)
(* those that were reported to it.                                         *)
Generated == IF streaming THEN reported ELSE sampled

TextIsLost == decode_error \/ Text(Generated) = Undecodable

EndsWith(t, what) ==
    /\ outcome' = what
    /\ GoTo(t, "unlock")

Exception == [kind |-> "exception"]
EngineError == [kind |-> "error"]
Answer(text) == [kind |-> "text", text |-> text]

ReturnError(t) ==
    /\ LoopIsOver(t)
    /\ reason = "Error" \/ (~callback_error /\ TextIsLost)
    /\ EndsWith(t, EngineError)
    /\ UNCHANGED <<gil, mutex, loopVars, streaming, closureVars, answer>>

ReturnException(t) ==
    /\ LoopIsOver(t)
    /\ reason # "Error"
    /\ callback_error
    /\ EndsWith(t, Exception)
    /\ UNCHANGED <<gil, mutex, loopVars, streaming, closureVars, answer>>

ReturnText(t) ==
    /\ LoopIsOver(t)
    /\ reason # "Error" /\ ~callback_error /\ ~TextIsLost
    /\ streaming => Len(Text(Generated)) <= emitted
    /\ EndsWith(t, Answer(Text(Generated)))
    /\ UNCHANGED <<gil, mutex, loopVars, streaming, closureVars, answer>>

Flush(t) ==
    /\ LoopIsOver(t)
    /\ reason # "Error" /\ ~callback_error /\ ~TextIsLost
    /\ Deliver(t, Text(reported), "flush")
    /\ UNCHANGED <<mutex, loopVars, streaming, emitted, callback_error,
                   decode_error, outcome, answer>>

(* A flush whose result nobody looks at. *)
FlushIgnored(t, value) ==
    /\ pc[t] = "flush"
    /\ gil = t
    /\ gil' = None
    /\ answer' = value
    /\ EndsWith(t, Answer(Text(reported)))
    /\ UNCHANGED <<mutex, loopVars, streaming, closureVars>>

(* `emit(..)?`: an exception is passed on, False has nothing to cancel. *)
FlushReturns(t, value) ==
    /\ pc[t] = "flush"
    /\ gil = t
    /\ gil' = None
    /\ answer' = value
    /\ EndsWith(t, IF value = "raise" THEN Exception
                                      ELSE Answer(Text(reported)))
    /\ UNCHANGED <<mutex, loopVars, streaming, closureVars>>

(* The closure's end drops the guard. *)
Unlock(t) ==
    /\ pc[t] = "unlock"
    /\ mutex' = None
    /\ ForgetCall
    /\ GoTo(t, "return")
    /\ UNCHANGED gil

(* A panic that leaves the session locked. *)
PanicKeepsLock(t) ==
    /\ Generating(t)
    /\ ForgetCall
    /\ GoTo(t, "return")
    /\ UNCHANGED <<gil, mutex>>

(* A panic in the decoder or the tokenizer, in the loop or in the decoding *)
(* of the whole text after it, unwinds to the extension's boundary and     *)
(* becomes a Python exception; the guard is dropped, and the poisoned      *)
(* mutex is entered all the same by the next call.                         *)
Panic(t) ==
    /\ Generating(t)
    /\ mutex' = None
    /\ ForgetCall
    /\ GoTo(t, "return")
    /\ UNCHANGED gil

(* allow_threads takes the GIL back. *)
Return(t) ==
    /\ pc[t] = "return"
    /\ TakeGil(t)
    /\ GoTo(t, "python")
    /\ UNCHANGED <<mutex, callVars>>
-----------------------------------------------------------------------------
(* Steps of the extension that need no GIL, those that wait for it, and    *)
(* the returns of on_delta.                                                *)
Native(t) ==
    \/ LockSession(t) \/ Loop(t)
    \/ TokenKept(t) \/ TokenUndecodable(t) \/ TokenHeld(t)
    \/ ReturnError(t) \/ ReturnException(t) \/ ReturnText(t)
    \/ Unlock(t) \/ Panic(t)

AcquiresGil(t) == Resume(t) \/ TokenDelivered(t) \/ Flush(t) \/ Return(t)

CallbackEnds(t) ==
    \E value \in Answers : CallbackReturns(t, value) \/ FlushReturns(t, value)

Next ==
    \E t \in Thread :
        \/ Yield(t) \/ Call(t) \/ LoadFails(t)
        \/ Native(t) \/ AcquiresGil(t) \/ CallbackEnds(t)

(* Native steps are taken.  The interpreter makes a thread give up the GIL *)
(* when others ask for it, and everyone who asks gets it in the end.       *)
(* Callbacks return although they may lose the GIL again and again.        *)
Fairness ==
    \A t \in Thread :
        /\ WF_vars(Native(t)) /\ WF_vars(Yield(t))
        /\ SF_vars(AcquiresGil(t)) /\ SF_vars(CallbackEnds(t))

Spec == Init /\ [][Next]_vars /\ Fairness
-----------------------------------------------------------------------------
TypeOK ==
    /\ LoopTypeOK
    /\ pc \in [Thread -> PC]
    \* The GIL is held for Python code only, the session in a call only.
    /\ gil = None \/ (gil \in Thread /\ pc[gil] \in RunsPython)
    /\ IF mutex = None THEN \A t \in Thread : pc[t] \notin InSession
       ELSE {t \in Thread : pc[t] \in InSession} = {mutex}
    /\ streaming \in BOOLEAN
    /\ mutex = None => ~streaming
    /\ emitted \in Nat
    /\ delivered \in Seq(Char)
    /\ callback_error \in BOOLEAN
    /\ decode_error \in BOOLEAN
    /\ answer \in Answers \cup {None}
    /\ \/ outcome \in {None, Exception, EngineError}
       \/ outcome = Answer(outcome.text) /\ outcome.text \in Seq(Char)

(* "Returns the full text generated so far, so a cancelled call yields the *)
(* partial answer": however the call ends well, by a stop token, the limit *)
(* or False, it returns exactly what went to the callback, piece by piece, *)
(* characters in pieces included.  A call without a callback returns the   *)
(* text of the tokens of its own loop, with the stop token that ended it,  *)
(* and nothing of it reaches the callback of another.                      *)
DeltasAddUp ==
    outcome # None /\ outcome.kind = "text" =>
        IF streaming
        THEN outcome.text = Text(reported) /\ delivered = outcome.text
        ELSE /\ delivered = <<>>
             /\ outcome.text = Text(IF reason = "StopToken"
                                    THEN Append(reported, Last(sampled))
                                    ELSE reported)

(* A callback that has said False or raised is not called again in this    *)
(* call, neither for a token nor by the final flush, and nothing more is   *)
(* sampled or decoded for it.                                              *)
RefusalIsFinal ==
    [][(answer \in {"cancel", "raise"} /\ mutex' = mutex) =>
           UNCHANGED <<delivered, sampled, fed>>]_vars

(* The caller gets the exception of its callback, whichever delta raised   *)
(* it, and no exception that the callback did not raise.                   *)
ExceptionReachesCaller ==
    outcome # None => (outcome = Exception <=> answer = "raise")

(* The session is released by every call, whether it returns, fails or     *)
(* panics, although its callbacks compete for the GIL with threads that    *)
(* wait for this session.                                                  *)
SessionIsReleased == \A t \in Thread : mutex = t ~> mutex # t

(* The README: the host is not stopped by a generation.  A thread with     *)
(* Python code to run gets the interpreter, and so does a call that wants  *)
(* to return; only a wait for the session may last.                        *)
HostKeepsRunning ==
    \A t \in Thread : pc[t] # "lock" ~> gil = t
=============================================================================
