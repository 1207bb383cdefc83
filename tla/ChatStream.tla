----------------------------- MODULE ChatStream -----------------------------
(***************************************************************************)
(* The HTTP surface (api crate, lib.rs): requests for one loaded model.    *)
(* Each runs on a blocking thread that holds the session's mutex while it  *)
(* generates.  A stream (chat_stream) pushes events into a bounded channel *)
(* that the connection task drains to the client; a plain request          *)
(* (complete, chat_complete) returns one answer, and nobody tells its      *)
(* thread that the client has left.  What run_generation does is seen      *)
(* through its callback here: it offers deltas one after the other and     *)
(* returns, fails or panics.                                               *)
(***************************************************************************)
EXTENDS Naturals, Sequences

CONSTANTS
    Request,    \* requests for one model
    Capacity,   \* capacity of the channel (64 in the code)
    MaxDeltas,  \* bound on the deltas of one generation
    None        \* nobody

VARIABLES
    streaming,  \* the requests with stream = true
    mutex,      \* the request that holds the session, or None
    poisoned,   \* a thread panicked with the session's mutex in its hands
    step,       \* where each request's thread is
    outcome,    \* what its generation came to: "pending", "ok" or "err"
    sent,       \* number of deltas its generation has offered
    channel,    \* events, or the one answer, on the way to its client
    received,   \* events its client has read
    client      \* "connected", or "gone": the receiver is dropped

vars ==
    <<streaming, mutex, poisoned, step, outcome, sent, channel, received, client>>

ASSUME StreamAssumption ==
    /\ Capacity \in Nat \ {0}
    /\ MaxDeltas \in Nat
    /\ None \notin Request

(* Steps of the handlers.  "refused" is an error ahead of the session;     *)
(* "closed" and "crashed" have returned, a stream has dropped its sender.  *)
Steps == {"resolve", "lock", "prepare", "generate", "respond", "done",
          "closed", "crashed", "refused"}
Ended == {"closed", "crashed", "refused"}

Role == [kind |-> "role"]
Content(n) == [kind |-> "content", index |-> n]
Finish == [kind |-> "finish"]
Done == [kind |-> "done"]
Error == [kind |-> "error"]
Answer == [kind |-> "answer"]
HttpError == [kind |-> "http error"]

Event == {Role, Finish, Done, Error, Answer, HttpError} \cup {Content(n) : n \in 1..MaxDeltas}
-----------------------------------------------------------------------------
Init ==
    /\ streaming \in SUBSET Request
    /\ mutex = None
    /\ poisoned = FALSE
    /\ step = [r \in Request |-> "resolve"]
    /\ outcome = [r \in Request |-> "pending"]
    /\ sent = [r \in Request |-> 0]
    /\ channel = [r \in Request |-> <<>>]
    /\ received = [r \in Request |-> <<>>]
    /\ client = [r \in Request |-> "connected"]

GoTo(r, label) == step' = [step EXCEPT ![r] = label]

(* The closure under `let outcome` returns. *)
Conclude(r, result) == outcome' = [outcome EXCEPT ![r] = result]

(* A channel without a limit. *)
AlwaysSendable(r) == TRUE

(* blocking_send waits for room or for the receiver to go away. *)
Sendable(r) == client[r] = "gone" \/ Len(channel[r]) < Capacity

(* It answers is_ok() and, then, the event is in the channel. *)
Delivers(r) == client[r] = "connected"

Push(r, event) ==
    channel' = IF Delivers(r)
               THEN [channel EXCEPT ![r] = Append(@, event)] ELSE channel

(* state.session(&model), for a stream too ahead of the response: errors   *)
(* are plain HTTP.                                                         *)
Resolve(r) ==
    /\ step[r] = "resolve"
    /\ \/ GoTo(r, "lock") /\ UNCHANGED channel
       \/ GoTo(r, "refused") /\ Push(r, HttpError)
    /\ UNCHANGED <<mutex, poisoned, outcome, sent, received, client>>

(* A lock().unwrap() that hands a panic on to the requests that follow. *)
LockUnwraps(r) ==
    /\ step[r] = "lock"
    /\ mutex = None
    /\ IF poisoned THEN GoTo(r, "crashed") /\ UNCHANGED mutex
                   ELSE GoTo(r, "prepare") /\ mutex' = r
    /\ UNCHANGED <<poisoned, outcome, sent, channel, received, client>>

(* session.lock().unwrap_or_else(PoisonError::into_inner): poisoned or not. *)
Lock(r) ==
    /\ step[r] = "lock"
    /\ mutex = None
    /\ mutex' = r
    /\ GoTo(r, "prepare")
    /\ UNCHANGED <<poisoned, outcome, sent, channel, received, client>>

(* prepare_chat fails, or the role chunk goes out; a client that is gone   *)
(* by then is an error.                                                    *)
PrepareFails(r) ==
    /\ r \in streaming
    /\ step[r] = "prepare"
    /\ GoTo(r, "respond")
    /\ Conclude(r, "err")
    /\ UNCHANGED <<mutex, poisoned, sent, channel, received, client>>

SendRole(r) ==
    /\ r \in streaming
    /\ step[r] = "prepare"
    /\ Sendable(r)
    /\ Push(r, Role)
    /\ IF Delivers(r) THEN GoTo(r, "generate") /\ UNCHANGED outcome
                      ELSE GoTo(r, "respond") /\ Conclude(r, "err")
    /\ UNCHANGED <<mutex, poisoned, sent, received, client>>

(* A delta that is dropped when the channel is full. *)
TrySendContent(r) ==
    /\ r \in streaming
    /\ step[r] = "generate"
    /\ sent[r] < MaxDeltas
    /\ sent' = [sent EXCEPT ![r] = @ + 1]
    /\ IF Len(channel[r]) < Capacity THEN Push(r, Content(sent[r] + 1))
                                      ELSE UNCHANGED channel
    /\ IF Delivers(r) THEN UNCHANGED <<step, outcome>>
                      ELSE GoTo(r, "respond") /\ Conclude(r, "ok")
    /\ UNCHANGED <<mutex, poisoned, received, client>>

(* A delta; false from the callback cancels the generation, which then     *)
(* returns an outcome, not an error.                                       *)
SendContent(r) ==
    /\ r \in streaming
    /\ step[r] = "generate"
    /\ sent[r] < MaxDeltas
    /\ Sendable(r)
    /\ sent' = [sent EXCEPT ![r] = @ + 1]
    /\ Push(r, Content(sent[r] + 1))
    /\ IF Delivers(r) THEN UNCHANGED <<step, outcome>>
                      ELSE GoTo(r, "respond") /\ Conclude(r, "ok")
    /\ UNCHANGED <<mutex, poisoned, received, client>>

(* A finished generation whose finish chunk is skipped. *)
GenerationEndsBare(r) ==
    /\ r \in streaming
    /\ step[r] = "generate"
    /\ \/ Conclude(r, "ok") /\ GoTo(r, "done")
       \/ Conclude(r, "err") /\ GoTo(r, "respond")
    /\ UNCHANGED <<mutex, poisoned, sent, channel, received, client>>

(* run_generation returns, with an outcome or an error. *)
GenerationEnds(r) ==
    /\ r \in streaming
    /\ step[r] = "generate"
    /\ GoTo(r, "respond")
    /\ \E result \in {"ok", "err"} : Conclude(r, result)
    /\ UNCHANGED <<mutex, poisoned, sent, channel, received, client>>

(* match outcome: the last events.  The results of these sends are ignored. *)
SendFinish(r) ==
    /\ step[r] = "respond"
    /\ outcome[r] = "ok"
    /\ Sendable(r)
    /\ Push(r, Finish)
    /\ GoTo(r, "done")
    /\ UNCHANGED <<mutex, poisoned, outcome, sent, received, client>>

(* A guard that outlives the request. *)
SendLastKeepsLock(r, label, event) ==
    /\ step[r] = label
    /\ Sendable(r)
    /\ Push(r, event)
    /\ GoTo(r, "closed")
    /\ UNCHANGED <<mutex, poisoned, outcome, sent, received, client>>

(* The session is unlocked when chat_stream returns, after its last send.  *)
SendLast(r, label, event) ==
    /\ step[r] = label
    /\ Sendable(r)
    /\ Push(r, event)
    /\ GoTo(r, "closed")
    /\ mutex' = None
    /\ UNCHANGED <<poisoned, outcome, sent, received, client>>

SendDone(r) == SendLast(r, "done", Done)

(* An error that is logged and not sent: the stream just ends with [DONE]. *)
SendErrorAsDone(r) == outcome[r] = "err" /\ SendLast(r, "respond", Done)

SendError(r) == outcome[r] = "err" /\ SendLast(r, "respond", Error)

(* The plain requests: prepare_chat or the encoding of a prompt, a         *)
(* callback that says true to every delta, and one answer.  The session is *)
(* free when the thread returns.                                           *)
PlainGenerates(r) ==
    /\ r \notin streaming
    /\ \/ /\ step[r] = "prepare"
          /\ GoTo(r, "generate")
          /\ UNCHANGED sent
       \/ /\ step[r] = "generate"
          /\ sent[r] < MaxDeltas
          /\ sent' = [sent EXCEPT ![r] = @ + 1]
          /\ UNCHANGED step
    /\ UNCHANGED <<mutex, poisoned, outcome, channel, received, client>>

PlainReturns(r) ==
    /\ r \notin streaming
    /\ \/ /\ step[r] \in {"prepare", "generate"}
          /\ Conclude(r, "err")
          /\ Push(r, HttpError)
       \/ /\ step[r] = "generate"
          /\ Conclude(r, "ok")
          /\ Push(r, Answer)
    /\ GoTo(r, "closed")
    /\ mutex' = None
    /\ UNCHANGED <<poisoned, sent, received, client>>

(* A panic that leaves the mutex locked for good. *)
PanicKeepsLock(r) ==
    /\ step[r] \in {"prepare", "generate"}
    /\ GoTo(r, "crashed")
    /\ poisoned' = TRUE
    /\ UNCHANGED <<mutex, outcome, sent, channel, received, client>>

(* A panic in a kernel or a tokenizer unwinds the thread: the guard        *)
(* poisons the mutex and frees it.  A stream loses its sender, and nobody  *)
(* looks at the thread's handle; the handler of a plain request awaits it  *)
(* and answers with the JoinError.                                         *)
Panic(r) ==
    /\ step[r] \in {"prepare", "generate"}
    /\ GoTo(r, "crashed")
    /\ mutex' = None
    /\ poisoned' = TRUE
    /\ IF r \in streaming THEN UNCHANGED channel ELSE Push(r, HttpError)
    /\ UNCHANGED <<outcome, sent, received, client>>
-----------------------------------------------------------------------------
(* The connection: hyper polls the stream as the client takes the bytes.   *)
Read(r) ==
    /\ client[r] = "connected"
    /\ channel[r] # <<>>
    /\ received' = [received EXCEPT ![r] = Append(@, Head(channel[r]))]
    /\ channel' = [channel EXCEPT ![r] = Tail(@)]
    /\ UNCHANGED <<mutex, poisoned, step, outcome, sent, client>>

Leave(r) ==
    /\ client[r] = "connected"
    /\ client' = [client EXCEPT ![r] = "gone"]
    /\ channel' = [channel EXCEPT ![r] = <<>>]
    /\ UNCHANGED <<mutex, poisoned, step, outcome, sent, received>>

Server(r) ==
    \/ Resolve(r) \/ Lock(r) \/ PrepareFails(r) \/ SendRole(r)
    \/ SendContent(r) \/ GenerationEnds(r) \/ SendFinish(r)
    \/ SendDone(r) \/ SendError(r) \/ Panic(r)
    \/ PlainGenerates(r) \/ PlainReturns(r)

AllEnded == \A r \in Request : step[r] \in Ended

(* All requests are over: nothing more happens in this instance. *)
Idle == AllEnded /\ UNCHANGED vars

Next ==
    \/ /\ \E r \in Request : Server(r) \/ Read(r) \/ Leave(r)
       /\ UNCHANGED streaming
    \/ Idle

(* Threads run.  A client that stays connected reads; one that neither     *)
(* reads nor leaves would hold the session for ever (see the README).      *)
Fairness ==
    \A r \in Request :
        /\ WF_vars(Server(r) /\ UNCHANGED streaming)
        /\ WF_vars(Read(r) /\ UNCHANGED streaming)

Spec == Init /\ [][Next]_vars /\ Fairness
-----------------------------------------------------------------------------
TypeOK ==
    /\ streaming \subseteq Request
    /\ mutex \in Request \cup {None}
    /\ poisoned \in BOOLEAN
    /\ step \in [Request -> Steps]
    /\ outcome \in [Request -> {"pending", "ok", "err"}]
    /\ sent \in [Request -> 0..MaxDeltas]
    /\ channel \in [Request -> Seq(Event)]
    /\ \A r \in Request : Len(channel[r]) <= Capacity
    /\ received \in [Request -> Seq(Event)]
    /\ client \in [Request -> {"connected", "gone"}]

(* A stream: the role, the deltas in order, then finish and done; an error *)
(* may end it at any point, and be all of it.  Every other answer is one.  *)
Stream(n) == <<Role>> \o [i \in 1..n |-> Content(i)]
Streams ==
    {<<Error>>, <<HttpError>>} \cup
    UNION {{Stream(n) \o <<Finish, Done>>, Stream(n) \o <<Error>>} :
               n \in 0..MaxDeltas}
Whole(r) == IF r \in streaming THEN Streams
            ELSE {<<Answer>>, <<HttpError>>}

IsBeginning(s, t) == Len(s) <= Len(t) /\ s = SubSeq(t, 1, Len(s))

(* What a client reads, whenever it looks, is the beginning of a stream as *)
(* the README describes it, or its one answer; nothing is lost, doubled or *)
(* out of order.                                                           *)
StreamIsWellFormed ==
    \A r \in Request : \E t \in Whole(r) : IsBeginning(received[r], t)

(* What a client that stays is owed once its request is over: of a stream  *)
(* every delta the generation offered and the terminator of its outcome    *)
(* (an error ahead of the role is all there is), otherwise one answer.     *)
Owed(r) ==
    CASE step[r] = "refused" -> {<<HttpError>>}
      [] step[r] # "refused" /\ r \notin streaming ->
            {<<IF outcome[r] = "ok" THEN Answer ELSE HttpError>>}
      [] step[r] # "refused" /\ r \in streaming ->
            IF outcome[r] = "ok" THEN {Stream(sent[r]) \o <<Finish, Done>>}
            ELSE {Stream(sent[r]) \o <<Error>>} \cup
                 (IF sent[r] = 0 THEN {<<Error>>} ELSE {})

(* A client that stays until its request is over has read exactly what it  *)
(* is owed; a stream whose thread crashed is the exception, a plain        *)
(* request's is answered even then.                                        *)
StreamIsComplete ==
    \A r \in Request :
        (/\ step[r] \in (IF r \in streaming THEN {"closed", "refused"}
                                            ELSE Ended)
         /\ client[r] = "connected"
         /\ channel[r] = <<>>) => received[r] \in Owed(r)

(* No two requests of a model are inside the session at once, and one that *)
(* is over, by a panic or a lost client too, does not keep it.             *)
SessionHeldByOne ==
    \A r \in Request :
        mutex = r <=> step[r] \in {"prepare", "generate", "respond", "done"}

(* Every request that waits for the session gets it, after a panic of      *)
(* another too, and every request ends, although the others use the same   *)
(* session, channels fill up, clients leave and generations crash.         *)
EveryRequestEnds ==
    \A r \in Request :
        /\ step[r] = "lock" ~> mutex = r
        /\ <>(step[r] \in Ended)
=============================================================================
