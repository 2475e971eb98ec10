SPECIFICATION Spec
CONSTANTS
  DefaultMaxTokens = 3
  MaxOutputTokens = 2
  MaxPromptTokens = 2
  TokenLimits = {0, 2, 3}
  PromptLengths = {2, 3}
  MaxChunks = 4
  MaxTime = 3
INVARIANTS
  ValidationExact
  AnswerTellsOutcome
  BodyEndsWithDone
  ClientAndRecordAgree
  TokensAccounted
  PercentilesRight
CHECK_DEADLOCK FALSE
