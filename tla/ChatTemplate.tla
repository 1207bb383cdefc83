---------------------------- MODULE ChatTemplate -----------------------------
(***************************************************************************)
(* Prompt templates (models crate, chat.rs).  A prompt is a sequence of    *)
(* pieces: the begin-of-text token, turns of a role with the texts put     *)
(* into them, and the opening of the assistant's turn.                     *)
(***************************************************************************)
EXTENDS Naturals, Sequences

CONSTANT Empty      \* the empty text

NoTemplate == "no template"

FromName(name) ==
    CASE name = "chatml" -> "ChatMl"
      [] name = "llama3" -> "Llama3"
      [] name \in {"mistral", "llama2"} -> "MistralInstruct"
      [] OTHER -> NoTemplate

ForArchitecture(architecture) ==
    CASE architecture \in {"qwen3", "qwen3-gguf"} -> "ChatMl"
      [] architecture = "llama3" -> "Llama3"
      [] architecture \in {"llama", "llama2", "llama-gguf", "mistral",
                           "mixtral"} -> "MistralInstruct"
      [] OTHER -> NoTemplate

(* The session's template: the one the manifest names, if it is known. *)
TemplateOf(name, architecture) ==
    IF FromName(name) # NoTemplate THEN FromName(name)
                                   ELSE ForArchitecture(architecture)
-----------------------------------------------------------------------------
BeginOfText == [mark |-> "bos"]
Turn(role, texts) == [mark |-> "turn", role |-> role, texts |-> texts]
Opening == [mark |-> "open"]

IsTurn(piece) == piece.mark = "turn"

ChatMl(messages) ==
    Append([i \in 1..Len(messages) |->
               Turn(messages[i].role, <<messages[i].content>>)], Opening)

Llama3(messages) == <<BeginOfText>> \o ChatMl(messages)

(* A fold that keeps the system text for all turns that follow. *)
MistralMessageKeeps(acc, message) ==
    CASE message.role = "system" -> [acc EXCEPT !.system = message.content]
      [] message.role = "user" ->
            [acc EXCEPT !.prompt = Append(@, Turn("user",
                 IF acc.system = Empty THEN <<message.content>>
                                       ELSE <<acc.system, message.content>>))]
      [] OTHER -> [acc EXCEPT !.prompt =
                       Append(@, Turn("assistant", <<message.content>>))]

(* [INST] closes with [/INST], which opens the assistant's turn: a turn of *)
(* the user is both.  A system text waits for the next one.                *)
MistralMessage(acc, message) ==
    CASE message.role = "system" -> [acc EXCEPT !.system = message.content]
      [] message.role = "user" ->
            [prompt |-> Append(acc.prompt, Turn("user",
                 IF acc.system = Empty THEN <<message.content>>
                                       ELSE <<acc.system, message.content>>)),
             system |-> Empty]
      [] OTHER -> [acc EXCEPT !.prompt =
                       Append(@, Turn("assistant", <<message.content>>))]

(* `after` has the prompt and the waiting system text after each message. *)
Mistral(messages) ==
    LET after[n \in 0..Len(messages)] ==
            IF n = 0 THEN [prompt |-> <<BeginOfText>>, system |-> Empty]
            ELSE MistralMessage(after[n - 1], messages[n]) IN
    after[Len(messages)].prompt

(* Errors of `render`: no message, or a role that Mistral does not know. *)
Renderable(template, messages) ==
    /\ messages # <<>>
    /\ template = "MistralInstruct" => \A i \in 1..Len(messages) :
           messages[i].role \in {"system", "user", "assistant"}

Render(template, messages) ==
    CASE template = "ChatMl" -> ChatMl(messages)
      [] template = "Llama3" -> Llama3(messages)
      [] template = "MistralInstruct" -> Mistral(messages)
-----------------------------------------------------------------------------
(* The system text that holds for message i, whatever the markup: the last *)
(* one since the previous turn of the user, or Empty.                      *)
InForce(messages, i) ==
    LET since == {j \in 1..(i - 1) :
            /\ messages[j].role = "system"
            /\ \A k \in j..(i - 1) : messages[k].role # "user"} IN
    IF since = {} THEN Empty
    ELSE messages[CHOOSE j \in since : \A k \in since : k <= j].content

(* A piece as a message: the last text of a turn, and a mark as nobody's.  *)
AsMessages(prompt) ==
    [j \in 1..Len(prompt) |->
        IF IsTurn(prompt[j])
        THEN [role |-> prompt[j].role,
              content |-> prompt[j].texts[Len(prompt[j].texts)]]
        ELSE [role |-> "nobody", content |-> Empty]]

(* The system text that a turn of the user is read with: the one that was  *)
(* put into it, or the one in force before it.                             *)
SystemFor(prompt, j) ==
    IF Len(prompt[j].texts) = 2 THEN prompt[j].texts[1]
                                ELSE InForce(AsMessages(prompt), j)

(* The positions of what the user, the assistant and tools said.           *)
Spoken(messages) == {i \in 1..Len(messages) : messages[i].role # "system"}
Turns(prompt) ==
    {j \in 1..Len(prompt) : IsTurn(prompt[j]) /\ prompt[j].role # "system"}

(* The turns of the prompt are what was said, all of it and in order, and  *)
(* each turn of the user is read with the system text in force for it.     *)
Tells(prompt, messages) ==
    \E turn \in [Spoken(messages) -> Turns(prompt)] :
        /\ \A j \in Turns(prompt) : \E i \in Spoken(messages) : turn[i] = j
        /\ \A i, k \in Spoken(messages) : i < k => turn[i] < turn[k]
        /\ \A i \in Spoken(messages) :
               LET said == AsMessages(prompt)[turn[i]] IN
               /\ said.role = messages[i].role
               /\ said.content = messages[i].content
               /\ said.role = "user" =>
                      SystemFor(prompt, turn[i]) = InForce(messages, i)
=============================================================================
