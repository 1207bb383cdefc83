\* Five tokens, two stop strings, characters that span tokens; conversations
\* of up to three messages; logits with ties, greedy and warm sampling.
SPECIFICATION RequestSpec
CONSTANTS
  a = a
  b = b
  wide = wide
  broken = broken
  lead = lead
  trail = trail
  eos = eos
  bad = bad
  Token <- Vocabulary
  StopTokens = {eos}
  MaxTokens = 5
  None = None
  Char <- Characters
  Broken = broken
  Text <- Decoded
  Undecodable = bad
  StopChoices <- Choices
  NotFinite = NotFinite
  ExpRange = 3
  Empty = Empty
  Vocab <- VocabInOrder
  LogitsChoices <- Logits
  SamplingChoices <- Samplings
  Content <- Texts
  Conversations <- Talks
  TemplateName <- Names
  Architecture <- Architectures
CHECK_DEADLOCK FALSE
INVARIANTS TypeOK LoopContract DecoderFollows StreamIsStable DeltasAddUp NoStopLeaks FinishReasonTells PromptTellsConversation
PROPERTY DrawsAreAllowed
