----------------------------- MODULE ChatRequest -----------------------------
(***************************************************************************)
(* One plain request on its session (api crate, lib.rs), from its message  *)
(* to its outcome: prepare_chat renders and encodes the conversation, or   *)
(* `complete` encodes the prompt as it is; then run_generation drives the  *)
(* loop, whose tokens the sampler draws from the decoder's logits.         *)
(***************************************************************************)
EXTENDS RunGeneration, ChatTemplate, Sampler, FiniteSets

CONSTANTS
    Vocab,              \* the vocabulary in the order of its ids
    LogitsChoices,      \* logits a decoder may return
    SamplingChoices,    \* temperature and top_k of a request
    Content,            \* texts of messages
    Conversations,      \* sequences of messages
    TemplateName,       \* names a manifest may give as chat_template
    Architecture        \* architectures of a manifest

VARIABLES
    request,    \* the endpoint, the conversation and the session's template
    prompt,     \* the encoded prompt, from prepare_chat to prefill
    sampling,   \* params.config: temperature and top_k
    logits      \* the loop's `logits`, while it is going to sample from them

allVars == <<vars, request, prompt, sampling, logits>>

Message == [role : STRING, content : Content]

ASSUME RequestAssumption ==
    /\ Empty \in Content
    /\ Conversations \subseteq Seq(Message)
    /\ \A t \in Token : \E i \in 1..Len(Vocab) : Vocab[i] = t
    /\ LogitsChoices \subseteq Seq(Int \cup {NotFinite})
    /\ \A l \in LogitsChoices : Len(l) <= Len(Vocab)
    /\ \A s \in SamplingChoices : s.top_k \in Nat

(* The prompt field of a completion: one text that nobody has marked up. *)
Raw == <<[mark |-> "raw"]>>
-----------------------------------------------------------------------------
RequestInit ==
    /\ Init
    /\ \/ request = [surface |-> "completion"]
       \/ \E conversation \in Conversations, name \in TemplateName,
             architecture \in Architecture :
             request = [surface |-> "chat", messages |-> conversation,
                        template |-> TemplateOf(name, architecture)]
    /\ sampling \in SamplingChoices
    /\ prompt = <<>>
    /\ logits = <<>>

Preparing == phase = "start" /\ prompt = <<>> /\ outcome = None

(* tokenizer.encode(text, add_special_tokens): the tokenizer's own special *)
(* token goes in front.                                                    *)
Encode(pieces, add_special_tokens) ==
    IF add_special_tokens THEN <<BeginOfText>> \o pieces ELSE pieces

PrepareChat ==
    /\ Preparing
    /\ request.surface = "chat"
    /\ request.template # NoTemplate
    /\ Renderable(request.template, request.messages)
    /\ prompt' = Encode(Render(request.template, request.messages), FALSE)
    /\ UNCHANGED <<vars, request, sampling, logits>>

PrepareCompletion ==
    /\ Preparing
    /\ request.surface = "completion"
    /\ prompt' = Encode(Raw, TRUE)
    /\ UNCHANGED <<vars, request, sampling, logits>>

(* No template, a conversation it cannot render, a tokenizer that fails:   *)
(* the request is answered with an error, its session has not been used.   *)
Refuse ==
    /\ Preparing
    /\ outcome' = Failure
    /\ UNCHANGED <<loopVars, stop_strings, closureVars, client,
                   request, prompt, sampling, logits>>

(* Any logits come out of prefill and decode; a token is drawn from them.  *)
Draws ==
    IF phase' = "top"
    THEN IF phase = "top" THEN UNCHANGED logits ELSE logits' \in LogitsChoices
    ELSE /\ logits' = <<>>
         /\ sampled' # sampled =>
                \E i \in Sampled(logits, sampling) : Vocab[i] = Last(sampled')

(* run_generation.  The request and its prompt are not looked at again.    *)
Generate ==
    /\ phase = "start" => prompt # <<>>
    /\ Next
    /\ phase' = "top" /\ phase = "start" => ValidSampling(sampling)
    /\ Draws
    /\ IF phase' = "start" THEN UNCHANGED <<request, prompt>>
                           ELSE request' = None /\ prompt' = <<>>
    /\ UNCHANGED sampling

RequestNext == PrepareChat \/ PrepareCompletion \/ Refuse \/ Generate

RequestSpec == RequestInit /\ [][RequestNext]_allVars
-----------------------------------------------------------------------------
(* The prompt tells the model the conversation, whatever the markup: the   *)
(* begin-of-text token is there at most once, in front; what the user and  *)
(* the assistant said is there once and in order; and each turn of the     *)
(* user comes with the system text in force for it, and with no other.     *)
(* (A Mistral prompt leaves out a system text that no user turn follows,   *)
(* and all but the last of several in a row.)                              *)
PromptTellsConversation ==
    prompt # <<>> =>
        /\ \A i \in 2..Len(prompt) : prompt[i] # BeginOfText
        /\ request.surface = "chat" => Tells(prompt, request.messages)

(* Every token is one that the request allows: among the top_k most likely *)
(* ones, a maximum if the temperature is 0, never drawn from logits that   *)
(* are not numbers or from a configuration that validate refuses.          *)
DrawsAreAllowed ==
    [][sampled' # sampled =>
        \E i \in 1..Len(logits) :
            /\ Vocab[i] = Last(sampled')
            /\ ValidSampling(sampling)
            /\ \A j \in 1..Len(logits) : logits[j] # NotFinite
            /\ LET better == {j \in 1..Len(logits) : logits[j] > logits[i]} IN
               /\ Cardinality(better) < sampling.top_k
               /\ sampling.temperature = "zero" => better = {}]_allVars
=============================================================================
