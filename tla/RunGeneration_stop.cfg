\* A stop string that ends in a token whose last byte opens a character.
SPECIFICATION RequestSpec
CONSTANTS
  a = a
  b = b
  wide = wide
  broken = broken
  lead = lead
  trail = trail
  eos = eos
  bad = bad
  Token <- Vocabulary
  StopTokens = {eos}
  MaxTokens = 2
  None = None
  Char <- Characters
  Broken = broken
  Text <- Decoded
  Undecodable = bad
  StopChoices <- StopsOnly
  NotFinite = NotFinite
  ExpRange = 3
  Empty = Empty
  Vocab <- VocabInOrder
  LogitsChoices <- Logits
  SamplingChoices <- Samplings
  Content <- Texts
  Conversations <- Talks
  TemplateName <- Names
  Architecture <- Architectures
CHECK_DEADLOCK FALSE
INVARIANT NoStopEverLeaks
