---------------------------- MODULE StreamProofs ----------------------------
(***************************************************************************)
(* Proofs about the HTTP surface, for any number of requests for a model,  *)
(* any capacity of a channel and any number of deltas: who is inside the   *)
(* session, what the clients read, and how many steps a request may take.  *)
(***************************************************************************)
EXTENDS ChatStream, SequenceTheorems, TLAPS

Outcomes == {"pending", "ok", "err"}

StreamTypes ==
    /\ streaming \subseteq Request
    /\ mutex \in Request \cup {None}
    /\ poisoned \in BOOLEAN
    /\ step \in [Request -> Steps]
    /\ outcome \in [Request -> Outcomes]
    /\ sent \in [Request -> 0..MaxDeltas]
    /\ channel \in [Request -> Seq(Event)]
    /\ received \in [Request -> Seq(Event)]
    /\ client \in [Request -> {"connected", "gone"}]

(* All that a connected client has been sent. *)
Wire(r) == received[r] \o channel[r]

(* What that is at each step of the request's thread. *)
WireInv(r) ==
    /\ step[r] \in {"resolve", "lock", "prepare"} => Wire(r) = <<>>
    /\ step[r] = "generate" =>
           Wire(r) = IF r \in streaming THEN Stream(sent[r]) ELSE <<>>
    /\ step[r] = "respond" =>
           \/ Wire(r) = Stream(sent[r])
           \/ outcome[r] = "err" /\ sent[r] = 0 /\ Wire(r) = <<>>
    /\ step[r] = "done" => Wire(r) = Append(Stream(sent[r]), Finish)
    /\ step[r] = "crashed" =>
           Wire(r) \in IF r \in streaming THEN {<<>>, Stream(sent[r])}
                                          ELSE {<<HttpError>>}
    /\ step[r] \in {"closed", "refused"} => Wire(r) \in Owed(r)

(* The outcome that goes with each step. *)
OutcomeInv(r) ==
    /\ step[r] \in {"resolve", "lock", "prepare", "generate", "crashed",
                    "refused"} => outcome[r] = "pending"
    /\ step[r] = "respond" => outcome[r] \in {"ok", "err"}
    /\ step[r] = "done" => outcome[r] = "ok"

(* What has been read begins a whole answer. *)
Began(r) == \E t \in Whole(r), u \in Seq(Event) : t = received[r] \o u

RequestInv(r) ==
    /\ Len(channel[r]) <= Capacity
    /\ step[r] \in {"resolve", "lock", "prepare"} => sent[r] = 0
    /\ step[r] \in {"respond", "done"} => r \in streaming
    /\ OutcomeInv(r)
    /\ client[r] = "connected" => WireInv(r)
    /\ client[r] = "gone" => Began(r) /\ channel[r] = <<>>

StreamInv ==
    /\ StreamTypes
    /\ SessionHeldByOne
    /\ \A r \in Request : RequestInv(r)
-----------------------------------------------------------------------------
(* Answers put together event by event.                                    *)

LEMMA EventTypes ==
    /\ {Role, Finish, Done, Error, Answer, HttpError} \subseteq Event
    /\ \A n \in 1..MaxDeltas : Content(n) \in Event
BY DEF Event

LEMMA StreamTyped ==
    ASSUME NEW n \in 0..MaxDeltas
    PROVE  /\ Stream(n) \in Seq(Event)
           /\ Len(Stream(n)) = n + 1
           /\ Stream(n)[1] = Role
           /\ \A i \in 1..n : Stream(n)[i + 1] = Content(i)
<1> DEFINE deltas == [i \in 1..n |-> Content(i)]
<1>1. n \in Nat /\ deltas \in [1..n -> Event]
  BY StreamAssumption, EventTypes
<1>2. deltas \in Seq(Event) /\ DOMAIN deltas = 1..n
  BY <1>1, SeqDef
<1>3. Len(deltas) = n
  BY <1>1, <1>2, LenProperties
<1>4. \A i \in 1..n : deltas[i] = Content(i)
  OBVIOUS
<1> HIDE DEF deltas
<1>5. <<Role>> \in Seq(Event) /\ Len(<<Role>>) = 1 /\ <<Role>>[1] = Role
  BY EventTypes
<1>6. /\ <<Role>> \o deltas \in Seq(Event)
      /\ Len(<<Role>> \o deltas) = 1 + n
      /\ \A i \in 1..(1 + n) : (<<Role>> \o deltas)[i] =
             IF i <= 1 THEN <<Role>>[i] ELSE deltas[i - 1]
  BY <1>2, <1>3, <1>5, ConcatProperties
<1>7. \A i \in 1..n : (<<Role>> \o deltas)[i + 1] = Content(i)
  BY <1>1, <1>4, <1>6
<1> QED BY <1>1, <1>5, <1>6, <1>7 DEF Stream, deltas

LEMMA StreamGrows ==
    ASSUME NEW n \in 0..MaxDeltas, n < MaxDeltas
    PROVE  Append(Stream(n), Content(n + 1)) = Stream(n + 1)
<1> DEFINE longer == Append(Stream(n), Content(n + 1))
<1>1. n \in Nat /\ n + 1 \in 0..MaxDeltas /\ Content(n + 1) \in Event
  BY StreamAssumption, EventTypes
<1>2. /\ Stream(n) \in Seq(Event) /\ Len(Stream(n)) = n + 1
      /\ Stream(n)[1] = Role
      /\ \A i \in 1..n : Stream(n)[i + 1] = Content(i)
  BY StreamTyped
<1>3. /\ Stream(n + 1) \in Seq(Event) /\ Len(Stream(n + 1)) = n + 2
      /\ Stream(n + 1)[1] = Role
      /\ \A i \in 1..(n + 1) : Stream(n + 1)[i + 1] = Content(i)
  BY <1>1, StreamTyped
<1>4. /\ longer \in Seq(Event) /\ Len(longer) = n + 2
      /\ \A i \in 1..(n + 1) : longer[i] = Stream(n)[i]
      /\ longer[n + 2] = Content(n + 1)
  BY <1>1, <1>2, AppendProperties
<1> HIDE DEF longer
<1>5. ASSUME NEW i \in 1..(n + 2) PROVE longer[i] = Stream(n + 1)[i]
  <2>1. CASE i = 1
    BY <1>1, <1>2, <1>3, <1>4, <2>1
  <2>2. CASE i \in 2..(n + 1)
    <3>1. i - 1 \in 1..n /\ (i - 1) + 1 = i
      BY <1>1, <2>2
    <3>2. Stream(n)[i] = Content(i - 1) /\ Stream(n + 1)[i] = Content(i - 1)
      BY <1>1, <1>2, <1>3, <3>1
    <3> QED BY <1>1, <1>4, <2>2, <3>2
  <2>3. CASE i = n + 2
    BY <1>1, <1>3, <1>4, <2>3
  <2> QED BY <1>1, <1>5, <2>1, <2>2, <2>3
<1> QED BY <1>3, <1>4, <1>5, SeqEqual DEF longer

(* The ends of a stream. *)
LEMMA StreamEnds ==
    ASSUME NEW n \in 0..MaxDeltas
    PROVE  /\ Append(<<>>, Role) = Stream(0)
           /\ Append(Append(Stream(n), Finish), Done)
                  = Stream(n) \o <<Finish, Done>>
           /\ Append(Stream(n), Error) = Stream(n) \o <<Error>>
           /\ Append(<<>>, Error) = <<Error>>
           /\ Append(<<>>, HttpError) = <<HttpError>>
           /\ Append(<<>>, Answer) = <<Answer>>
<1>1. Stream(n) \in Seq(Event)
  BY StreamTyped
<1>2. Append(<<>>, Role) = Stream(0)
  <2>1. Stream(0) \in Seq(Event) /\ Len(Stream(0)) = 1 /\ Stream(0)[1] = Role
    BY StreamAssumption, StreamTyped
  <2>2. Append(<<>>, Role) \in Seq(Event) /\ Len(Append(<<>>, Role)) = 1
        /\ Append(<<>>, Role)[1] = Role
    BY EventTypes, EmptySeq, AppendProperties
  <2> QED BY <2>1, <2>2, SeqEqual
<1>3. Append(Append(Stream(n), Finish), Done) = Stream(n) \o <<Finish, Done>>
  <2>1. <<Finish>> \in Seq(Event) /\ <<Done>> \in Seq(Event)
    BY EventTypes
  <2>2. Append(Stream(n), Finish) = Stream(n) \o <<Finish>>
        /\ Append(Stream(n), Finish) \in Seq(Event)
    BY <1>1, EventTypes, AppendIsConcat, AppendProperties
  <2>3. Append(Append(Stream(n), Finish), Done)
            = (Stream(n) \o <<Finish>>) \o <<Done>>
    BY <2>2, EventTypes, AppendIsConcat
  <2>4. (Stream(n) \o <<Finish>>) \o <<Done>>
            = Stream(n) \o (<<Finish>> \o <<Done>>)
    BY <1>1, <2>1, ConcatAssociative
  <2>5. <<Finish>> \o <<Done>> = <<Finish, Done>>
    <3> DEFINE s == <<Finish>>
               t == <<Done>>
               both == <<Finish, Done>>
    <3>1. /\ s \in Seq(Event) /\ Len(s) = 1 /\ s[1] = Finish
          /\ t \in Seq(Event) /\ Len(t) = 1 /\ t[1] = Done
          /\ both \in Seq(Event) /\ Len(both) = 2
          /\ both[1] = Finish /\ both[2] = Done
      BY EventTypes
    <3> HIDE DEF s, t, both
    <3>2. /\ s \o t \in Seq(Event) /\ Len(s \o t) = 2
          /\ \A i \in 1..2 : (s \o t)[i] = IF i <= 1 THEN s[i] ELSE t[i - 1]
      BY <3>1, ConcatProperties
    <3>3. (s \o t)[1] = Finish /\ (s \o t)[2] = Done
      BY <3>1, <3>2
    <3>4. ASSUME NEW i \in 1..2 PROVE (s \o t)[i] = both[i]
      <4>1. i = 1 \/ i = 2
        OBVIOUS
      <4> QED BY <3>1, <3>3, <4>1
    <3>5. s \o t = both
      BY <3>1, <3>2, <3>4, SeqEqual
    <3> QED BY <3>5 DEF s, t, both
  <2> QED BY <2>3, <2>4, <2>5
<1>4. Append(Stream(n), Error) = Stream(n) \o <<Error>>
  BY <1>1, EventTypes, AppendIsConcat
<1> QED BY <1>2, <1>3, <1>4

(* What a client is owed is one of the whole answers. *)
LEMMA OwedIsWhole ==
    ASSUME StreamTypes, NEW r \in Request
    PROVE  step[r] = "refused" \/ Owed(r) \subseteq Whole(r)
<1> DEFINE n == sent[r]
<1>1. n \in 0..MaxDeltas
  BY DEF StreamTypes
<1>2. CASE r \notin streaming
  BY <1>2 DEF Owed, Whole
<1>3. CASE r \in streaming /\ step[r] # "refused"
  <2>1. /\ <<Error>> \in Streams
        /\ Stream(n) \o <<Finish, Done>> \in Streams
        /\ Stream(n) \o <<Error>> \in Streams
    BY <1>1 DEF Streams
  <2>2. Owed(r) \subseteq {<<Error>>, Stream(n) \o <<Finish, Done>>,
                          Stream(n) \o <<Error>>}
    BY <1>3 DEF Owed
  <2> QED BY <1>3, <2>1, <2>2 DEF Whole
<1> QED BY <1>2, <1>3

(* The wire at any step leads to a whole answer. *)
LEMMA WireLeads ==
    ASSUME StreamTypes, NEW r \in Request, WireInv(r), RequestInv(r)
    PROVE  \E t \in Whole(r), u \in Seq(Event) : t = Wire(r) \o u
<1> DEFINE n == sent[r]
<1>1. n \in 0..MaxDeltas /\ Stream(n) \in Seq(Event)
  BY StreamTyped DEF StreamTypes
<1>2. /\ <<Error>> \in Seq(Event) /\ <<HttpError>> \in Seq(Event)
      /\ <<Done>> \in Seq(Event) /\ <<>> \in Seq(Event)
  BY EventTypes
<1>3. <<HttpError>> \in Whole(r)
  BY DEF Whole, Streams
<1>4. CASE Wire(r) = <<>>
  BY <1>2, <1>3, <1>4, ConcatEmptySeq
<1>5. CASE r \in streaming /\ Wire(r) = Stream(n)
  <2>1. Stream(n) \o <<Error>> \in Whole(r)
    BY <1>1, <1>5 DEF Whole, Streams
  <2> QED BY <1>2, <1>5, <2>1
<1>6. CASE r \in streaming /\ Wire(r) = Append(Stream(n), Finish)
  <2>1. Append(Wire(r), Done) \in Whole(r)
    <3>1. Append(Wire(r), Done) = Stream(n) \o <<Finish, Done>>
      BY <1>1, <1>6, StreamEnds
    <3>2. Stream(n) \o <<Finish, Done>> \in Streams
      BY <1>1 DEF Streams
    <3> QED BY <1>6, <3>1, <3>2 DEF Whole
  <2>2. Append(Wire(r), Done) = Wire(r) \o <<Done>>
    <3>1. Wire(r) \in Seq(Event)
      BY <1>1, <1>6, EventTypes, AppendProperties
    <3> QED BY <3>1, EventTypes, AppendIsConcat
  <2> QED BY <1>2, <2>1, <2>2
<1>7. CASE Wire(r) \in Whole(r)
  <2>1. Wire(r) \in Seq(Event)
    BY ConcatProperties DEF Wire, StreamTypes
  <2>2. Wire(r) \o <<>> = Wire(r)
    BY <2>1, ConcatEmptySeq
  <2> QED BY <1>2, <1>7, <2>2
<1>8. \/ Wire(r) = <<>> \/ Wire(r) \in Whole(r)
      \/ r \in streaming /\ Wire(r) \in {Stream(n), Append(Stream(n), Finish)}
  <2>1. step[r] \in Steps
    BY DEF StreamTypes
  <2>2. step[r] = "refused" => Owed(r) = {<<HttpError>>}
    BY DEF Owed
  <2>3. step[r] \in {"closed", "refused"} => Wire(r) \in Whole(r)
    BY <1>3, <2>2, OwedIsWhole DEF WireInv
  <2> HIDE DEF n
  <2> QED BY <1>3, <2>1, <2>3 DEF Steps, WireInv, RequestInv, n
<1> QED BY <1>4, <1>5, <1>6, <1>7, <1>8

LEMMA ReadLeads ==
    ASSUME StreamTypes, NEW r \in Request, RequestInv(r)
    PROVE  Began(r)
<1>1. CASE client[r] = "gone"
  BY <1>1 DEF RequestInv
<1>2. CASE client[r] = "connected"
  <2>1. WireInv(r)
    BY <1>2 DEF RequestInv
  <2>2. PICK t \in Whole(r), u \in Seq(Event) : t = Wire(r) \o u
    BY <2>1, WireLeads
  <2>3. received[r] \in Seq(Event) /\ channel[r] \in Seq(Event)
    BY DEF StreamTypes
  <2>4. t = received[r] \o (channel[r] \o u)
    <3> DEFINE a == received[r]
               b == channel[r]
    <3>1. a \in Seq(Event) /\ b \in Seq(Event) /\ t = (a \o b) \o u
      BY <2>2, <2>3 DEF Wire
    <3> HIDE DEF a, b
    <3>2. (a \o b) \o u = a \o (b \o u)
      BY <3>1, ConcatAssociative
    <3> QED BY <3>1, <3>2 DEF a, b
  <2>5. channel[r] \o u \in Seq(Event)
    BY <2>2, <2>3, ConcatProperties
  <2> QED BY <2>2, <2>4, <2>5 DEF Began
<1> QED BY <1>1, <1>2 DEF StreamTypes
-----------------------------------------------------------------------------
(* Steps.                                                                  *)

LEMMA OthersKeep ==
    ASSUME StreamInv, NEW q \in Request, streaming' = streaming,
           step'[q] = step[q], outcome'[q] = outcome[q], sent'[q] = sent[q],
           channel'[q] = channel[q], received'[q] = received[q],
           client'[q] = client[q]
    PROVE  RequestInv(q)'
BY DEF StreamInv, RequestInv, WireInv, OutcomeInv, Wire, Began, Whole, Owed

LEMMA Pushed ==
    ASSUME StreamTypes, NEW r \in Request, NEW event \in Event,
           Push(r, event), received' = received
    PROVE  /\ channel' \in [Request -> Seq(Event)]
           /\ \A q \in Request \ {r} : channel'[q] = channel[q]
           /\ client[r] = "connected" =>
                  /\ Wire(r)' = Append(Wire(r), event)
                  /\ Len(channel'[r]) = Len(channel[r]) + 1
           /\ client[r] = "gone" => channel'[r] = channel[r]
<1>1. channel[r] \in Seq(Event) /\ received[r] \in Seq(Event)
  BY DEF StreamTypes
<1>2. CASE client[r] = "gone"
  BY <1>2 DEF Push, Delivers, StreamTypes
<1>3. CASE client[r] = "connected"
  <2> DEFINE longer == Append(channel[r], event)
  <2>1. longer \in Seq(Event) /\ Len(longer) = Len(channel[r]) + 1
        /\ longer = channel[r] \o <<event>>
    BY <1>1, AppendProperties, AppendIsConcat
  <2>2. channel' = [channel EXCEPT ![r] = longer]
    BY <1>3 DEF Push, Delivers
  <2> HIDE DEF longer
  <2>3. /\ channel' \in [Request -> Seq(Event)] /\ channel'[r] = longer
        /\ \A q \in Request \ {r} : channel'[q] = channel[q]
    BY <2>1, <2>2 DEF StreamTypes
  <2>4. received[r] \o longer = Append(received[r] \o channel[r], event)
    <3> DEFINE a == received[r]
               b == channel[r]
    <3>1. a \in Seq(Event) /\ b \in Seq(Event) /\ <<event>> \in Seq(Event)
          /\ longer = b \o <<event>>
      BY <1>1, <2>1
    <3> HIDE DEF a, b
    <3>2. a \o (b \o <<event>>) = (a \o b) \o <<event>>
      BY <3>1, ConcatAssociative
    <3>3. a \o b \in Seq(Event)
      BY <3>1, ConcatProperties
    <3>4. Append(a \o b, event) = (a \o b) \o <<event>>
      BY <3>3, AppendIsConcat
    <3> QED BY <3>1, <3>2, <3>4 DEF a, b
  <2> QED BY <1>3, <2>1, <2>3, <2>4 DEF Wire
<1> QED BY <1>2, <1>3 DEF StreamTypes

Inside == {"prepare", "generate", "respond", "done"}

(* What a step of a request's thread has to show. *)
LEMMA ServerKeeps ==
    ASSUME StreamInv, NEW r \in Request, NEW label \in Steps,
           UNCHANGED <<streaming, received, client>>, GoTo(r, label),
           sent' \in [Request -> 0..MaxDeltas],
           outcome' \in [Request -> Outcomes], poisoned' \in BOOLEAN,
           \A q \in Request \ {r} : sent'[q] = sent[q] /\ outcome'[q] = outcome[q],
           \/ UNCHANGED channel
           \/ \E event \in Event : /\ Push(r, event)
                                   /\ Sendable(r) \/ Wire(r) = <<>>,
           \/ mutex' = mutex /\ (step[r] \in Inside <=> label \in Inside)
           \/ mutex = None /\ mutex' = r /\ label \in Inside
           \/ mutex' = None /\ step[r] \in Inside /\ label \notin Inside,
           label \in {"resolve", "lock", "prepare"} => sent'[r] = 0,
           label \in {"respond", "done"} => r \in streaming,
           OutcomeInv(r)',
           client[r] = "connected" => WireInv(r)'
    PROVE  StreamInv'
<1>1. /\ StreamTypes /\ SessionHeldByOne
      /\ \A q \in Request : RequestInv(q)
  BY DEF StreamInv
<1>2. /\ step' \in [Request -> Steps] /\ step'[r] = label
      /\ \A q \in Request \ {r} : step'[q] = step[q]
  BY <1>1 DEF GoTo, StreamTypes
<1>3. /\ channel' \in [Request -> Seq(Event)]
      /\ \A q \in Request \ {r} : channel'[q] = channel[q]
  BY <1>1, Pushed DEF StreamTypes
<1>4. mutex' \in Request \cup {None}
  BY <1>1 DEF StreamTypes
<1>5. StreamTypes'
  BY <1>1, <1>2, <1>3, <1>4 DEF StreamTypes
<1>6. SessionHeldByOne'
  <2>1. \A q \in Request : mutex = q <=> step[q] \in Inside
    BY <1>1 DEF SessionHeldByOne, Inside
  <2>2. \A q \in Request : mutex' = q <=> step'[q] \in Inside
    BY <1>2, <2>1, StreamAssumption
  <2> QED BY <2>2 DEF SessionHeldByOne, Inside
<1>7. ASSUME NEW q \in Request, q # r PROVE RequestInv(q)'
  BY <1>2, <1>3, <1>7, OthersKeep
<1>8. RequestInv(r)'
  <2>1. Len(channel'[r]) <= Capacity
    <3>1. channel[r] \in Seq(Event) /\ Len(channel[r]) \in Nat
          /\ Len(channel[r]) <= Capacity
      BY <1>1, LenProperties DEF StreamTypes, RequestInv
    <3>2. CASE UNCHANGED channel
      BY <3>1, <3>2
    <3>3. ASSUME NEW event \in Event, Push(r, event),
                 Sendable(r) \/ Wire(r) = <<>>
          PROVE  Len(channel'[r]) <= Capacity
      <4>1. CASE client[r] = "gone"
        BY <1>1, <3>1, <3>3, <4>1, Pushed
      <4>2. CASE client[r] = "connected"
        <5>1. Len(channel[r]) < Capacity
          <6>1. CASE Sendable(r)
            BY <4>2, <6>1 DEF Sendable
          <6>2. CASE Wire(r) = <<>>
            <7>1. received[r] \in Seq(Event)
              BY <1>1 DEF StreamTypes
            <7>2. channel[r] = <<>>
              BY <3>1, <6>2, <7>1, ConcatEqualIffEmpty DEF Wire
            <7> QED BY <7>2, StreamAssumption
          <6> QED BY <3>3, <6>1, <6>2
        <5>2. Len(channel'[r]) = Len(channel[r]) + 1
          BY <1>1, <3>3, <4>2, Pushed
        <5> QED BY <3>1, <5>1, <5>2, StreamAssumption
      <4> QED BY <1>1, <4>1, <4>2 DEF StreamTypes
    <3> QED BY <3>2, <3>3
  <2>2. client[r] = "gone" => Began(r)' /\ channel'[r] = <<>>
    <3>1. Began(r)' <=> Began(r)
      BY DEF Began, Whole
    <3> QED BY <1>1, <3>1, Pushed DEF RequestInv
  <2> QED BY <1>2, <2>1, <2>2 DEF RequestInv
<1> QED BY <1>5, <1>6, <1>7, <1>8 DEF StreamInv

LEMMA InitStream == Init => StreamInv
<1> SUFFICES ASSUME Init PROVE StreamInv
  OBVIOUS
<1>1. StreamTypes
  <2>1. /\ step \in [Request -> Steps] /\ outcome \in [Request -> Outcomes]
        /\ sent \in [Request -> 0..MaxDeltas]
    BY StreamAssumption DEF Init, Steps, Outcomes
  <2>2. poisoned \in BOOLEAN
    BY DEF Init
  <2>3. /\ channel \in [Request -> Seq(Event)]
        /\ received \in [Request -> Seq(Event)]
    BY EmptySeq DEF Init
  <2>4. /\ streaming \subseteq Request /\ mutex \in Request \cup {None}
        /\ client \in [Request -> {"connected", "gone"}]
    BY DEF Init
  <2> QED BY <2>1, <2>2, <2>3, <2>4 DEF StreamTypes
<1>2. SessionHeldByOne
  BY StreamAssumption DEF Init, SessionHeldByOne
<1>3. ASSUME NEW r \in Request PROVE RequestInv(r)
  <2>1. channel[r] = <<>> /\ received[r] = <<>> /\ Len(channel[r]) = 0
        /\ step[r] = "resolve" /\ client[r] = "connected" /\ sent[r] = 0
        /\ outcome[r] = "pending"
    BY DEF Init
  <2>2. Wire(r) = <<>>
    BY <2>1, EmptySeq, ConcatEmptySeq DEF Wire
  <2> QED
    BY <2>1, <2>2, StreamAssumption DEF RequestInv, WireInv, OutcomeInv
<1> QED BY <1>1, <1>2, <1>3 DEF StreamInv

LEMMA ServerSteps ==
    ASSUME StreamInv, NEW r \in Request, Server(r), UNCHANGED streaming
    PROVE  StreamInv'
<1> DEFINE n == sent[r]
<1>1. /\ StreamTypes /\ SessionHeldByOne /\ RequestInv(r)
      /\ n \in 0..MaxDeltas /\ sent \in [Request -> 0..MaxDeltas]
      /\ outcome \in [Request -> Outcomes] /\ poisoned \in BOOLEAN
      /\ step[r] \in {"resolve", "lock", "prepare"} => n = 0
      /\ step[r] \in Steps /\ OutcomeInv(r)
  BY DEF StreamInv, StreamTypes, RequestInv
<1>2. ASSUME NEW label \in Steps, GoTo(r, label)
      PROVE  step'[r] = label
  BY <1>2 DEF GoTo, StreamInv, StreamTypes
<1>3. client[r] = "connected" => WireInv(r)
  BY <1>1 DEF RequestInv
<1>4. /\ Append(<<>>, Role) = Stream(0)
      /\ Append(Append(Stream(n), Finish), Done)
             = Stream(n) \o <<Finish, Done>>
      /\ Append(Stream(n), Error) = Stream(n) \o <<Error>>
      /\ Append(<<>>, Error) = <<Error>>
      /\ Append(<<>>, HttpError) = <<HttpError>>
      /\ Append(<<>>, Answer) = <<Answer>>
  BY <1>1, StreamEnds
<1>5. ASSUME NEW event \in Event, Push(r, event), UNCHANGED received,
             client[r] = "connected"
      PROVE  Wire(r)' = Append(Wire(r), event)
  BY <1>1, <1>5, Pushed
<1>6. UNCHANGED channel /\ UNCHANGED received => Wire(r)' = Wire(r)
  BY DEF Wire
<1> HIDE DEF n
<1> USE DEF Steps, Inside, Outcomes
<1>7. CASE Resolve(r)
  <2>1. CASE GoTo(r, "lock") /\ UNCHANGED channel
    <3>1. step[r] = "resolve" /\ step'[r] = "lock" /\ OutcomeInv(r)'
      BY <1>1, <1>2, <1>7, <2>1 DEF Resolve, OutcomeInv
    <3>2. client[r] = "connected" => WireInv(r)'
      BY <1>3, <1>6, <1>7, <2>1, <3>1 DEF Resolve, WireInv
    <3> QED BY <1>1, <1>7, <2>1, <3>1, <3>2, ServerKeeps DEF Resolve, n
  <2>2. CASE GoTo(r, "refused") /\ Push(r, HttpError)
    <3>1. step[r] = "resolve" /\ step'[r] = "refused" /\ OutcomeInv(r)'
      BY <1>1, <1>2, <1>7, <2>2 DEF Resolve, OutcomeInv
    <3>2. client[r] = "connected" => Wire(r) = <<>>
      BY <1>3, <3>1 DEF WireInv
    <3>3. <<HttpError>> \in Owed(r)'
      BY <3>1 DEF Owed
    <3>4. client[r] = "connected" => WireInv(r)'
      BY <1>4, <1>5, <1>7, <2>2, <3>1, <3>2, <3>3, EventTypes
      DEF Resolve, WireInv
    <3>5. Sendable(r) \/ Wire(r) = <<>>
      BY <1>1, <3>2 DEF Sendable, StreamTypes
    <3> QED
      BY <1>1, <1>7, <2>2, <3>1, <3>4, <3>5, EventTypes, ServerKeeps
      DEF Resolve
  <2> QED BY <1>7, <2>1, <2>2 DEF Resolve
<1>8. CASE Lock(r)
  <2>1. step[r] = "lock" /\ step'[r] = "prepare" /\ OutcomeInv(r)'
    BY <1>1, <1>2, <1>8 DEF Lock, OutcomeInv
  <2>2. client[r] = "connected" => WireInv(r)'
    BY <1>3, <1>6, <1>8, <2>1 DEF Lock, WireInv
  <2> QED BY <1>1, <1>8, <2>1, <2>2, ServerKeeps DEF Lock, n
<1>9. CASE PrepareFails(r)
  <2>1. /\ step[r] = "prepare" /\ step'[r] = "respond" /\ outcome'[r] = "err"
        /\ outcome' \in [Request -> Outcomes]
        /\ \A q \in Request \ {r} : outcome'[q] = outcome[q]
    BY <1>1, <1>2, <1>9 DEF PrepareFails, Conclude
  <2>2. client[r] = "connected" => WireInv(r)'
    BY <1>1, <1>3, <1>6, <1>9, <2>1 DEF PrepareFails, WireInv, n
  <2>3. OutcomeInv(r)'
    BY <2>1 DEF OutcomeInv
  <2> QED
    BY <1>1, <1>9, <2>1, <2>2, <2>3, ServerKeeps DEF PrepareFails
<1>10. CASE SendRole(r)
  <2>1. CASE Delivers(r)
    <3>1. step[r] = "prepare" /\ step'[r] = "generate" /\ OutcomeInv(r)'
      BY <1>1, <1>2, <1>10, <2>1 DEF SendRole, OutcomeInv
    <3>2. client[r] = "connected" => WireInv(r)'
      BY <1>1, <1>3, <1>4, <1>5, <1>10, <3>1, EventTypes
      DEF SendRole, WireInv, n
    <3> QED
      BY <1>1, <1>10, <2>1, <3>1, <3>2, EventTypes, ServerKeeps DEF SendRole
  <2>2. CASE ~Delivers(r)
    <3>1. /\ step[r] = "prepare" /\ step'[r] = "respond" /\ outcome'[r] = "err"
          /\ outcome' \in [Request -> Outcomes]
          /\ \A q \in Request \ {r} : outcome'[q] = outcome[q]
      BY <1>1, <1>2, <1>10, <2>2 DEF SendRole, Conclude
    <3>2. OutcomeInv(r)' /\ client[r] # "connected"
      BY <2>2, <3>1 DEF OutcomeInv, Delivers
    <3> QED
      BY <1>1, <1>10, <2>2, <3>1, <3>2, EventTypes, ServerKeeps DEF SendRole
  <2> QED BY <2>1, <2>2
<1>11. CASE SendContent(r)
  <2> DEFINE label == IF Delivers(r) THEN "generate" ELSE "respond"
  <2>1. n \in Nat /\ n < MaxDeltas /\ n + 1 \in 0..MaxDeltas
        /\ n + 1 \in 1..MaxDeltas
    BY <1>1, <1>11, StreamAssumption DEF SendContent, n
  <2>2. Content(n + 1) \in Event
        /\ Append(Stream(n), Content(n + 1)) = Stream(n + 1)
    BY <1>1, <2>1, EventTypes, StreamGrows
  <2>3. Push(r, Content(n + 1)) /\ sent' = [sent EXCEPT ![r] = n + 1]
    BY <1>11 DEF SendContent, n
  <2>4. step \in [Request -> Steps]
    BY <1>1 DEF StreamTypes
  <2>5. /\ step[r] = "generate" /\ label \in {"generate", "respond"}
        /\ GoTo(r, label) /\ (client[r] = "connected" => label = "generate")
        /\ outcome' = [outcome EXCEPT ![r] = IF Delivers(r) THEN @ ELSE "ok"]
    BY <1>1, <1>11, <2>4 DEF SendContent, Delivers, GoTo, Conclude
  <2>6. step'[r] = label /\ outcome' \in [Request -> Outcomes]
        /\ \A q \in Request \ {r} : outcome'[q] = outcome[q]
    BY <1>1, <1>2, <2>5
  <2>7. OutcomeInv(r)'
    BY <1>1, <2>5, <2>6 DEF OutcomeInv
  <2> HIDE DEF label
  <2>8. client[r] = "connected" => WireInv(r)'
    <3>1. SUFFICES ASSUME client[r] = "connected" PROVE WireInv(r)'
      OBVIOUS
    <3>2. Wire(r)' = Append(Wire(r), Content(n + 1))
      BY <1>5, <1>11, <2>2, <2>3, <3>1 DEF SendContent
    <3>3. Wire(r) = Stream(n) /\ r \in streaming
      BY <1>3, <1>11, <2>5, <3>1 DEF SendContent, WireInv, n
    <3>4. step'[r] = "generate" /\ sent'[r] = n + 1
      BY <1>1, <2>3, <2>5, <2>6, <3>1
    <3>5. Wire(r)' = Stream(sent'[r])
      BY <2>2, <3>2, <3>3, <3>4
    <3> QED BY <3>3, <3>4, <3>5 DEF WireInv
  <2>9. /\ sent' \in [Request -> 0..MaxDeltas]
        /\ \A q \in Request \ {r} : sent'[q] = sent[q]
    BY <1>1, <2>1, <2>3
  <2> QED
    BY <1>1, <1>11, <2>2, <2>3, <2>5, <2>6, <2>7, <2>8, <2>9, ServerKeeps
    DEF SendContent
<1>12. CASE GenerationEnds(r)
  <2>1. PICK result \in {"ok", "err"} : Conclude(r, result)
    BY <1>12 DEF GenerationEnds
  <2>2. /\ step[r] = "generate" /\ step'[r] = "respond"
        /\ outcome'[r] = result /\ outcome' \in [Request -> Outcomes]
        /\ \A q \in Request \ {r} : outcome'[q] = outcome[q]
    BY <1>1, <1>2, <1>12, <2>1 DEF GenerationEnds, Conclude
  <2>3. client[r] = "connected" => WireInv(r)'
    BY <1>3, <1>6, <1>12, <2>2 DEF GenerationEnds, WireInv
  <2>4. OutcomeInv(r)'
    BY <2>2 DEF OutcomeInv
  <2> QED
    BY <1>1, <1>12, <2>2, <2>3, <2>4, ServerKeeps DEF GenerationEnds
<1>13. CASE SendFinish(r)
  <2>1. /\ r \in streaming /\ step[r] = "respond" /\ step'[r] = "done"
        /\ OutcomeInv(r)'
    BY <1>1, <1>2, <1>13 DEF SendFinish, RequestInv, OutcomeInv
  <2>2. client[r] = "connected" => WireInv(r)'
    BY <1>3, <1>5, <1>13, <2>1, EventTypes DEF SendFinish, WireInv
  <2> QED BY <1>1, <1>13, <2>1, <2>2, EventTypes, ServerKeeps DEF SendFinish
<1>14. CASE SendDone(r)
  <2>1. /\ r \in streaming /\ step[r] = "done" /\ step'[r] = "closed"
        /\ outcome[r] = "ok" /\ OutcomeInv(r)'
    BY <1>1, <1>2, <1>14 DEF SendDone, SendLast, RequestInv, OutcomeInv
  <2>2. client[r] = "connected" => WireInv(r)'
    <3>1. SUFFICES ASSUME client[r] = "connected" PROVE WireInv(r)'
      OBVIOUS
    <3>2. Wire(r)' = Stream(n) \o <<Finish, Done>>
      BY <1>3, <1>4, <1>5, <1>14, <2>1, <3>1, EventTypes
      DEF SendDone, SendLast, WireInv, n
    <3>3. Owed(r)' = {Stream(n) \o <<Finish, Done>>}
      BY <1>14, <2>1 DEF SendDone, SendLast, Owed, n
    <3> QED BY <2>1, <3>2, <3>3 DEF WireInv
  <2> QED
    BY <1>1, <1>14, <2>1, <2>2, EventTypes, ServerKeeps DEF SendDone, SendLast
<1>15. CASE SendError(r)
  <2>1. /\ r \in streaming /\ step[r] = "respond" /\ step'[r] = "closed"
        /\ outcome[r] = "err" /\ OutcomeInv(r)'
    BY <1>1, <1>2, <1>15 DEF SendError, SendLast, RequestInv, OutcomeInv
  <2>2. client[r] = "connected" => WireInv(r)'
    <3>1. SUFFICES ASSUME client[r] = "connected" PROVE WireInv(r)'
      OBVIOUS
    <3>2. \/ Wire(r)' = Stream(n) \o <<Error>>
          \/ n = 0 /\ Wire(r)' = <<Error>>
      BY <1>3, <1>4, <1>5, <1>15, <2>1, <3>1, EventTypes
      DEF SendError, SendLast, WireInv, n
    <3>3. Owed(r)' = {Stream(n) \o <<Error>>}
                        \cup (IF n = 0 THEN {<<Error>>} ELSE {})
      BY <1>15, <2>1 DEF SendError, SendLast, Owed, n
    <3> QED BY <2>1, <3>2, <3>3 DEF WireInv
  <2> QED
    BY <1>1, <1>15, <2>1, <2>2, EventTypes, ServerKeeps DEF SendError, SendLast
<1>16. CASE Panic(r)
  <2>1. /\ step[r] \in {"prepare", "generate"} /\ step'[r] = "crashed"
        /\ OutcomeInv(r)'
    BY <1>1, <1>2, <1>16 DEF Panic, OutcomeInv
  <2>2. CASE r \in streaming
    <3>1. client[r] = "connected" => WireInv(r)'
      BY <1>1, <1>3, <1>6, <1>16, <2>1, <2>2 DEF Panic, WireInv, n
    <3> QED BY <1>1, <1>16, <2>1, <2>2, <3>1, ServerKeeps DEF Panic
  <2>3. CASE r \notin streaming
    <3>1. client[r] = "connected" => Wire(r) = <<>>
      BY <1>3, <2>1, <2>3 DEF WireInv
    <3>2. client[r] = "connected" => WireInv(r)'
      BY <1>4, <1>5, <1>16, <2>1, <2>3, <3>1, EventTypes DEF Panic, WireInv
    <3>3. Sendable(r) \/ Wire(r) = <<>>
      BY <1>1, <3>1 DEF Sendable, StreamTypes
    <3> QED
      BY <1>1, <1>16, <2>1, <2>3, <3>2, <3>3, EventTypes, ServerKeeps
      DEF Panic
  <2> QED BY <2>2, <2>3
<1>17. CASE PlainGenerates(r)
  <2>1. sent' \in [Request -> 0..MaxDeltas]
        /\ \A q \in Request \ {r} : sent'[q] = sent[q]
    BY <1>1, <1>17, StreamAssumption DEF PlainGenerates
  <2>2. step[r] \in {"prepare", "generate"} /\ GoTo(r, "generate")
    BY <1>1, <1>17 DEF PlainGenerates, GoTo, StreamTypes
  <2>3. step'[r] = "generate" /\ OutcomeInv(r)'
    BY <1>1, <1>2, <1>17, <2>2 DEF PlainGenerates, OutcomeInv
  <2>4. client[r] = "connected" => WireInv(r)'
    BY <1>3, <1>6, <1>17, <2>2, <2>3 DEF PlainGenerates, WireInv
  <2> QED
    BY <1>1, <1>17, <2>1, <2>2, <2>3, <2>4, ServerKeeps DEF PlainGenerates
<1>18. CASE PlainReturns(r)
  <2>1. /\ step[r] \in {"prepare", "generate"} /\ r \notin streaming
        /\ step'[r] = "closed"
        /\ \E result \in {"ok", "err"} :
               /\ Conclude(r, result)
               /\ Push(r, IF result = "ok" THEN Answer ELSE HttpError)
    BY <1>1, <1>2, <1>18 DEF PlainReturns
  <2>2. PICK result \in {"ok", "err"} :
            /\ Conclude(r, result)
            /\ Push(r, IF result = "ok" THEN Answer ELSE HttpError)
    BY <2>1
  <2> DEFINE event == IF result = "ok" THEN Answer ELSE HttpError
  <2>3. /\ outcome'[r] = result /\ outcome' \in [Request -> Outcomes]
        /\ \A q \in Request \ {r} : outcome'[q] = outcome[q]
        /\ OutcomeInv(r)'
    BY <1>1, <2>1, <2>2 DEF Conclude, OutcomeInv
  <2>4. event \in {Answer, HttpError} /\ event \in Event /\ Push(r, event)
    BY <2>2, EventTypes
  <2>5. Owed(r)' = {<<event>>}
    BY <1>18, <2>1, <2>3 DEF Owed
  <2> HIDE DEF event
  <2>6. client[r] = "connected" => Wire(r) = <<>>
    BY <1>3, <2>1 DEF WireInv
  <2>7. client[r] = "connected" => WireInv(r)'
    <3>1. SUFFICES ASSUME client[r] = "connected" PROVE WireInv(r)'
      OBVIOUS
    <3>2. Wire(r)' = <<event>>
      BY <1>4, <1>5, <1>18, <2>4, <2>6, <3>1 DEF PlainReturns
    <3> QED BY <2>1, <2>5, <3>2 DEF WireInv
  <2>8. Sendable(r) \/ Wire(r) = <<>>
    BY <1>1, <2>6 DEF Sendable, StreamTypes
  <2> QED
    BY <1>1, <1>18, <2>1, <2>3, <2>4, <2>7, <2>8, ServerKeeps
    DEF PlainReturns
<1> QED
  BY <1>7, <1>8, <1>9, <1>10, <1>11, <1>12, <1>13, <1>14, <1>15, <1>16,
     <1>17, <1>18
  DEF Server

LEMMA ClientSteps ==
    ASSUME StreamInv, NEW r \in Request, Read(r) \/ Leave(r),
           UNCHANGED streaming
    PROVE  StreamInv'
<1>1. /\ StreamTypes /\ SessionHeldByOne /\ RequestInv(r)
      /\ channel[r] \in Seq(Event) /\ received[r] \in Seq(Event)
  BY DEF StreamInv, StreamTypes
<1>2. SessionHeldByOne'
  BY <1>1 DEF Read, Leave, SessionHeldByOne
<1>3. Whole(r)' = Whole(r)
  BY DEF Whole
<1>4. CASE Read(r)
  <2> DEFINE a == received[r]
             b == channel[r]
             h == Head(b)
             rest == Tail(b)
             more == Append(a, h)
  <2>1. a \in Seq(Event) /\ b \in Seq(Event) /\ b # <<>> /\ Len(b) <= Capacity
    BY <1>1, <1>4 DEF Read, RequestInv
  <2>2. /\ received' = [received EXCEPT ![r] = more]
        /\ channel' = [channel EXCEPT ![r] = rest]
    BY <1>4 DEF Read
  <2> HIDE DEF a, b
  <2>3. /\ h \in Event /\ rest \in Seq(Event) /\ Len(rest) = Len(b) - 1
        /\ Len(b) \in Nat /\ <<h>> \in Seq(Event)
    BY <2>1, HeadTailProperties, LenProperties
  <2>4. b = <<h>> \o rest
    <3>1. /\ \A i \in 1..Len(rest) : rest[i] = b[i + 1]
          /\ h = b[1] /\ Len(b) >= 1
      BY <2>1, <2>3, HeadTailProperties, EmptySeq
    <3> HIDE DEF h, rest
    <3>2. Len(<<h>>) = 1 /\ <<h>>[1] = h
      OBVIOUS
    <3> DEFINE one == <<h>>
    <3>3. one \in Seq(Event) /\ Len(one) = 1 /\ one[1] = h
      BY <2>3, <3>2
    <3> HIDE DEF one
    <3>4. /\ one \o rest \in Seq(Event) /\ Len(one \o rest) = Len(b)
          /\ \A i \in 1..Len(b) :
                 (one \o rest)[i] = IF i <= 1 THEN one[i] ELSE rest[i - 1]
      <4>1. Len(one) + Len(rest) = Len(b)
        BY <2>3, <3>1, <3>3
      <4>2. /\ one \o rest \in Seq(Event)
            /\ Len(one \o rest) = Len(one) + Len(rest)
            /\ \A i \in 1..(Len(one) + Len(rest)) :
                  (one \o rest)[i] = IF i <= Len(one) THEN one[i]
                                     ELSE rest[i - Len(one)]
        BY <2>3, <3>3, ConcatProperties
      <4> QED BY <3>3, <4>1, <4>2
    <3>5. ASSUME NEW i \in 1..Len(b) PROVE (one \o rest)[i] = b[i]
      <4>1. CASE i = 1
        BY <3>1, <3>3, <3>4, <4>1
      <4>2. CASE i # 1
        <5>1. i - 1 \in 1..Len(rest) /\ (i - 1) + 1 = i /\ ~(i <= 1)
          BY <2>3, <4>2
        <5>2. (one \o rest)[i] = rest[i - 1]
          BY <3>4, <5>1
        <5>3. rest[i - 1] = b[(i - 1) + 1]
          BY <3>1, <5>1
        <5> QED BY <5>1, <5>2, <5>3
      <4> QED BY <4>1, <4>2
    <3>6. b = one \o rest
      BY <2>1, <3>4, <3>5, SeqEqual
    <3> QED BY <3>6 DEF one
  <2> HIDE DEF h, rest
  <2>5. more \in Seq(Event) /\ more = a \o <<h>>
    BY <2>1, <2>3, AppendProperties, AppendIsConcat
  <2> HIDE DEF more
  <2>6. more \o rest = a \o b
    <3>1. (a \o <<h>>) \o rest = a \o (<<h>> \o rest)
      BY <2>1, <2>3, ConcatAssociative
    <3> QED BY <2>4, <2>5, <3>1
  <2>7. received'[r] = more /\ channel'[r] = rest
    BY <1>1, <2>2 DEF StreamTypes
  <2>8. Wire(r)' = Wire(r)
    BY <2>6, <2>7 DEF Wire, a, b
  <2>9. StreamTypes'
    BY <1>1, <1>4, <2>2, <2>3, <2>5 DEF Read, StreamTypes
  <2>10. Len(channel'[r]) <= Capacity
    BY <2>1, <2>3, <2>7, StreamAssumption
  <2>11. RequestInv(r)'
    BY <1>1, <1>3, <1>4, <2>8, <2>10 DEF Read, RequestInv, WireInv, OutcomeInv, Owed
  <2>12. ASSUME NEW q \in Request, q # r PROVE RequestInv(q)'
    BY <1>1, <1>4, <2>12, OthersKeep DEF Read, StreamTypes
  <2> QED BY <1>2, <2>9, <2>11, <2>12 DEF StreamInv
<1>5. CASE Leave(r)
  <2>1. <<>> \in Seq(Event) /\ Len(<<>>) = 0
    BY EmptySeq
  <2>2. StreamTypes'
    BY <1>1, <1>5, <2>1 DEF Leave, StreamTypes
  <2>3. Began(r)'
    <3>1. Began(r)
      BY <1>1, ReadLeads
    <3> QED BY <1>3, <1>5, <3>1 DEF Leave, Began
  <2>4. channel'[r] = <<>> /\ client'[r] = "gone"
        /\ UNCHANGED <<step, outcome, sent>>
    BY <1>1, <1>5 DEF Leave, StreamTypes
  <2>5. RequestInv(r)'
    BY <1>1, <1>5, <2>1, <2>3, <2>4, StreamAssumption
    DEF Leave, RequestInv, OutcomeInv
  <2>6. ASSUME NEW q \in Request, q # r PROVE RequestInv(q)'
    BY <1>1, <1>5, <2>6, OthersKeep DEF Leave, StreamTypes
  <2> QED BY <1>2, <2>2, <2>5, <2>6 DEF StreamInv
<1> QED BY <1>4, <1>5

LEMMA StreamKept == StreamInv /\ [Next]_vars => StreamInv'
<1> SUFFICES ASSUME StreamInv, [Next]_vars PROVE StreamInv'
  OBVIOUS
<1>1. CASE UNCHANGED vars
  <2>1. UNCHANGED <<streaming, mutex, poisoned, step, outcome, sent, channel,
                    received, client>>
    BY <1>1 DEF vars
  <2>2. \A q \in Request : RequestInv(q)'
    BY <2>1, OthersKeep
  <2> QED BY <2>1, <2>2 DEF StreamInv, StreamTypes, SessionHeldByOne
<1> QED BY <1>1, ServerSteps, ClientSteps DEF Next, Idle

LEMMA StreamHolds == Spec => []StreamInv
BY InitStream, StreamKept, PTL DEF Spec
-----------------------------------------------------------------------------
(* The channels never hold more than they have room for, and every variable *)
(* keeps its type, for whatever clients do.                                *)
THEOREM StreamTypeCorrect == Spec => []TypeOK
<1>1. StreamInv => TypeOK
  BY DEF StreamInv, StreamTypes, RequestInv, TypeOK, Outcomes
<1> QED BY <1>1, StreamHolds, PTL

(* The mutex is held exactly by the one request that is inside the session *)
(* (complete, chat_complete, chat_stream), panics and lost clients         *)
(* included.                                                               *)
THEOREM SessionHasOneHolder == Spec => []SessionHeldByOne
<1>1. StreamInv => SessionHeldByOne
  BY DEF StreamInv
<1> QED BY <1>1, StreamHolds, PTL

(* Whatever a client has read begins a stream of role, deltas in order,    *)
(* finish and done, or an error in their place (chat_stream's sends).      *)
THEOREM StreamsAreWellFormed == Spec => []StreamIsWellFormed
<1>1. ASSUME StreamInv, NEW r \in Request
      PROVE  \E t \in Whole(r) : IsBeginning(received[r], t)
  <2>1. received[r] \in Seq(Event) /\ Len(received[r]) \in Nat
    BY <1>1, LenProperties DEF StreamInv, StreamTypes
  <2>2. PICK t \in Whole(r), u \in Seq(Event) : t = received[r] \o u
    BY <1>1, ReadLeads DEF StreamInv, Began
  <2> DEFINE s == received[r]
             k == Len(s)
  <2> HIDE DEF s
  <2>3. s \in Seq(Event) /\ k \in Nat /\ t = s \o u /\ Len(u) \in Nat
    BY <2>1, <2>2, LenProperties DEF s
  <2>4. /\ t \in Seq(Event) /\ Len(t) = k + Len(u)
        /\ \A i \in 1..(k + Len(u)) : t[i] = IF i <= k THEN s[i] ELSE u[i - k]
    BY <2>3, ConcatProperties
  <2>5. \A i \in 1..k : t[i] = s[i] /\ t[i] \in Event
    BY <2>3, <2>4, ElementOfSeq
  <2>6. /\ SubSeq(t, 1, k) \in Seq(Event)
        /\ Len(SubSeq(t, 1, k)) = IF 1 <= k THEN k - 1 + 1 ELSE 0
        /\ \A i \in 1..(k - 1 + 1) : SubSeq(t, 1, k)[i] = t[1 + i - 1]
    BY <2>3, <2>5, SubSeqProperties
  <2> DEFINE front == SubSeq(t, 1, k)
  <2> HIDE DEF front
  <2>7. front \in Seq(Event) /\ Len(front) = k
        /\ \A i \in 1..k : front[i] = s[i]
    BY <2>3, <2>5, <2>6 DEF front
  <2>8. front = s
    BY <2>3, <2>7, SeqEqual
  <2>9. k <= Len(t)
    BY <2>3, <2>4
  <2> QED BY <2>2, <2>8, <2>9 DEF IsBeginning, front, s
<1>2. StreamInv => StreamIsWellFormed
  BY <1>1 DEF StreamIsWellFormed
<1> QED BY <1>2, StreamHolds, PTL

(* A client that stayed has read, when its request is over and its channel *)
(* is drained, every delta that the generation offered and the terminator  *)
(* of its outcome, or the one answer of a plain or refused request; only a *)
(* stream whose thread crashed is excepted (chat_stream, chat_complete).   *)
THEOREM StreamsAreComplete == Spec => []StreamIsComplete
<1>1. ASSUME StreamInv, NEW r \in Request,
             step[r] \in (IF r \in streaming THEN {"closed", "refused"}
                                             ELSE Ended),
             client[r] = "connected", channel[r] = <<>>
      PROVE  received[r] \in Owed(r)
  <2>1. received[r] \in Seq(Event) /\ WireInv(r) /\ OutcomeInv(r)
    BY <1>1 DEF StreamInv, StreamTypes, RequestInv
  <2>2. Wire(r) = received[r]
    BY <1>1, <2>1, ConcatEmptySeq DEF Wire
  <2>3. CASE step[r] = "crashed"
    <3>1. r \notin streaming /\ outcome[r] = "pending"
      BY <1>1, <2>1, <2>3 DEF OutcomeInv
    <3>2. Owed(r) = {<<HttpError>>}
      BY <2>3, <3>1 DEF Owed
    <3> QED BY <2>1, <2>2, <2>3, <3>1, <3>2 DEF WireInv
  <2>4. CASE step[r] \in {"closed", "refused"}
    BY <2>1, <2>2, <2>4 DEF WireInv
  <2> QED BY <1>1, <2>3, <2>4 DEF Ended
<1>2. StreamInv => StreamIsComplete
  BY <1>1 DEF StreamIsComplete
<1> QED BY <1>2, StreamHolds, PTL
-----------------------------------------------------------------------------
(* How much may still happen for a request: the steps of its thread, each  *)
(* of which may put an event on the way, the events that are on the way,   *)
(* and the departure of its client.                                        *)
ServerLeft(r) ==
    CASE step[r] = "resolve" -> MaxDeltas + 7
      [] step[r] = "lock" -> MaxDeltas + 6
      [] step[r] = "prepare" -> MaxDeltas + 5
      [] step[r] = "generate" -> (MaxDeltas - sent[r]) + 4
      [] step[r] = "respond" -> 3
      [] step[r] = "done" -> 2
      [] OTHER -> 0

RequestLeft(r) ==
    2 * ServerLeft(r) + Len(channel[r])
        + IF client[r] = "connected" THEN 1 ELSE 0

LEMMA ServerLeftIs ==
    ASSUME StreamInv, NEW r \in Request
    PROVE  ServerLeft(r) \in 0..(MaxDeltas + 7)
<1>1. sent[r] \in 0..MaxDeltas /\ MaxDeltas \in Nat
  BY StreamAssumption DEF StreamInv, StreamTypes
<1> QED BY <1>1 DEF ServerLeft

LEMMA RequestLeftIs ==
    ASSUME StreamInv, NEW r \in Request
    PROVE  /\ Len(channel[r]) \in Nat
           /\ RequestLeft(r) \in 0..(2 * MaxDeltas + 15 + Capacity)
<1>1. /\ Len(channel[r]) \in Nat /\ Len(channel[r]) <= Capacity
      /\ MaxDeltas \in Nat /\ Capacity \in Nat
  BY StreamAssumption, LenProperties DEF StreamInv, StreamTypes, RequestInv
<1> QED BY <1>1, ServerLeftIs DEF RequestLeft

LEMMA OthersLeft ==
    ASSUME NEW q, UNCHANGED <<step[q], sent[q], channel[q], client[q]>>
    PROVE  RequestLeft(q)' = RequestLeft(q)
BY DEF RequestLeft, ServerLeft

(* A step of a thread puts at most one event on the way.                   *)
LEMMA ServerPushes ==
    ASSUME StreamInv, NEW r \in Request, Server(r)
    PROVE  /\ UNCHANGED <<received, client>>
           /\ UNCHANGED channel \/ \E event \in Event : Push(r, event)
<1>1. /\ {Role, Finish, Done, Error, Answer, HttpError} \subseteq Event
      /\ r \in streaming /\ step[r] = "generate" /\ sent[r] < MaxDeltas
             => Content(sent[r] + 1) \in Event
  <2>1. sent[r] \in 0..MaxDeltas /\ MaxDeltas \in Nat
    BY StreamAssumption DEF StreamInv, StreamTypes
  <2>2. sent[r] < MaxDeltas => sent[r] + 1 \in 1..MaxDeltas
    BY <2>1
  <2> QED BY <2>2 DEF Event
<1> QED BY <1>1
    DEF Server, Resolve, Lock, PrepareFails, SendRole, SendContent,
        GenerationEnds, SendFinish, SendDone, SendError, SendLast, Panic,
        PlainGenerates, PlainReturns

LEMMA ServerAdvances ==
    ASSUME StreamInv, NEW r \in Request, Server(r)
    PROVE  /\ ServerLeft(r)' \in Nat /\ ServerLeft(r)' < ServerLeft(r)
           /\ \A q \in Request \ {r} : step'[q] = step[q] /\ sent'[q] = sent[q]
<1>1. /\ step \in [Request -> Steps] /\ sent \in [Request -> 0..MaxDeltas]
      /\ MaxDeltas \in Nat
      /\ step[r] \in {"resolve", "lock", "prepare"} => sent[r] = 0
  BY StreamAssumption DEF StreamInv, StreamTypes, RequestInv
<1>2. \A q \in Request \ {r} : step'[q] = step[q] /\ sent'[q] = sent[q]
  BY <1>1
  DEF Server, Resolve, Lock, PrepareFails, SendRole, SendContent,
      GenerationEnds, SendFinish, SendDone, SendError, SendLast, Panic,
      PlainGenerates, PlainReturns, GoTo
<1>3. CASE SendContent(r) \/ PlainGenerates(r)
  <2>1. \/ /\ step[r] = "generate" /\ sent[r] < MaxDeltas
           /\ sent'[r] = sent[r] + 1 /\ step'[r] \in {"generate", "respond"}
        \/ /\ step[r] = "prepare" /\ step'[r] = "generate"
           /\ sent'[r] = sent[r]
    BY <1>1, <1>3 DEF SendContent, PlainGenerates, GoTo
  <2> QED BY <1>1, <1>2, <2>1 DEF ServerLeft
<1>4. CASE ~(SendContent(r) \/ PlainGenerates(r))
  <2>1. /\ sent' = sent
        /\ \/ step[r] = "resolve" /\ step'[r] \in {"lock", "refused"}
           \/ step[r] = "lock" /\ step'[r] = "prepare"
           \/ /\ step[r] = "prepare"
              /\ step'[r] \in {"respond", "generate", "closed", "crashed"}
           \/ /\ step[r] = "generate"
              /\ step'[r] \in {"respond", "closed", "crashed"}
           \/ step[r] = "respond" /\ step'[r] \in {"done", "closed"}
           \/ step[r] = "done" /\ step'[r] = "closed"
    BY <1>1, <1>4
    DEF Server, Resolve, Lock, PrepareFails, SendRole, GenerationEnds,
        SendFinish, SendDone, SendError, SendLast, Panic, PlainReturns, GoTo
  <2> QED BY <1>1, <1>2, <2>1 DEF ServerLeft
<1> QED BY <1>3, <1>4

LEMMA RequestAdvances ==
    ASSUME StreamInv, NEW r \in Request, Server(r) \/ Read(r) \/ Leave(r)
    PROVE  /\ RequestLeft(r)' < RequestLeft(r)
           /\ \A q \in Request \ {r} : RequestLeft(q)' = RequestLeft(q)
<1>1. /\ StreamTypes /\ ServerLeft(r) \in Nat /\ channel[r] \in Seq(Event)
      /\ Len(channel[r]) \in Nat
  BY ServerLeftIs, RequestLeftIs DEF StreamInv, StreamTypes
<1>2. CASE Server(r)
  <2>1. /\ channel' = channel \/ \E event \in Event : Push(r, event)
        /\ received' = received /\ client' = client
    BY <1>2, ServerPushes
  <2>2. /\ Len(channel'[r]) \in Nat /\ Len(channel'[r]) <= Len(channel[r]) + 1
        /\ \A q \in Request \ {r} : channel'[q] = channel[q]
    <3>1. CASE channel' = channel
      BY <1>1, <3>1
    <3>2. CASE channel' # channel
      <4>1. PICK event \in Event : Push(r, event)
        BY <2>1, <3>2
      <4>2. client[r] \in {"connected", "gone"}
        BY <1>1 DEF StreamTypes
      <4> QED BY <1>1, <2>1, <4>1, <4>2, Pushed
    <3> QED BY <3>1, <3>2
  <2>3. /\ ServerLeft(r)' \in Nat /\ ServerLeft(r)' < ServerLeft(r)
        /\ \A q \in Request \ {r} : step'[q] = step[q] /\ sent'[q] = sent[q]
    BY <1>2, ServerAdvances
  <2>4. \A q \in Request \ {r} : RequestLeft(q)' = RequestLeft(q)
    BY <2>1, <2>2, <2>3, OthersLeft
  <2>5. RequestLeft(r)' < RequestLeft(r)
    <3>1. (IF client[r] = "connected" THEN 1 ELSE 0)'
              = IF client[r] = "connected" THEN 1 ELSE 0
      BY <2>1
    <3> QED BY <1>1, <2>2, <2>3, <3>1 DEF RequestLeft
  <2> QED BY <2>4, <2>5
<1>3. CASE Read(r)
  <2>1. channel[r] # <<>> /\ UNCHANGED <<step, sent, client>>
        /\ channel' = [channel EXCEPT ![r] = Tail(channel[r])]
    BY <1>3 DEF Read
  <2>2. Tail(channel[r]) \in Seq(Event)
        /\ Len(Tail(channel[r])) = Len(channel[r]) - 1
    BY <1>1, <2>1, HeadTailProperties
  <2>3. Len(channel'[r]) = Len(channel[r]) - 1
        /\ \A q \in Request \ {r} : channel'[q] = channel[q]
    BY <1>1, <2>1, <2>2 DEF StreamTypes
  <2>4. ServerLeft(r)' = ServerLeft(r)
    BY <2>1 DEF ServerLeft
  <2>5. \A q \in Request \ {r} : RequestLeft(q)' = RequestLeft(q)
    BY <2>1, <2>3, OthersLeft
  <2> QED BY <1>1, <2>1, <2>3, <2>4, <2>5 DEF RequestLeft
<1>4. CASE Leave(r)
  <2>1. /\ UNCHANGED <<step, sent>> /\ client[r] = "connected"
        /\ client'[r] = "gone" /\ channel'[r] = <<>>
        /\ \A q \in Request \ {r} : channel'[q] = channel[q]
                                    /\ client'[q] = client[q]
    BY <1>1, <1>4 DEF Leave, StreamTypes
  <2>2. ServerLeft(r)' = ServerLeft(r) /\ Len(channel'[r]) = 0
    BY <2>1 DEF ServerLeft
  <2>3. \A q \in Request \ {r} : RequestLeft(q)' = RequestLeft(q)
    BY <2>1, OthersLeft
  <2> QED BY <1>1, <2>1, <2>2, <2>3 DEF RequestLeft
<1> QED BY <1>2, <1>3, <1>4

(* A request is finite, whatever the others and its client do, and under   *)
(* no fairness: each step of its thread, each event that is read and the   *)
(* client's departure leave less to happen for it, and change nothing for  *)
(* the others (complete, chat_complete, chat_stream).                      *)
THEOREM EveryRequestIsFinite ==
    /\ Spec => [](\A r \in Request :
                     RequestLeft(r) \in 0..(2 * MaxDeltas + 15 + Capacity))
    /\ Spec => [][\E r \in Request :
                     /\ RequestLeft(r)' < RequestLeft(r)
                     /\ \A q \in Request \ {r} :
                            RequestLeft(q)' = RequestLeft(q)]_vars
<1>1. StreamInv => \A r \in Request :
                       RequestLeft(r) \in 0..(2 * MaxDeltas + 15 + Capacity)
  BY RequestLeftIs
<1>2. StreamInv /\ [Next]_vars =>
          [\E r \in Request :
              /\ RequestLeft(r)' < RequestLeft(r)
              /\ \A q \in Request \ {r} :
                     RequestLeft(q)' = RequestLeft(q)]_vars
  BY RequestAdvances DEF Next, Idle
<1> QED BY <1>1, <1>2, StreamHolds, PTL DEF Spec
=============================================================================
