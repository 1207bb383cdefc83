\* Three threads that call the same model over and over; three tokens a call.
SPECIFICATION Spec
CONSTANTS
  a = a
  stop = stop
  wide = wide
  broken = broken
  lead = lead
  trail = trail
  eos = eos
  bad = bad
  Token <- Vocabulary
  StopTokens <- Stops
  MaxTokens = 3
  None = None
  Thread = {t1, t2, t3}
  Char <- Characters
  Broken = broken
  Text <- Decoded
  Undecodable = bad
INVARIANTS TypeOK DeltasAddUp ExceptionReachesCaller
PROPERTIES RefusalIsFinal SessionIsReleased HostKeepsRunning
