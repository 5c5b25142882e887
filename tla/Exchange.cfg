\* Two sessions, a reply of up to three blocks to the first request over every adapter,
\* and the second request over every adapter, which offers a tool or none and may want it
\* called, or another one.
SPECIFICATION ExchangeSpec
CONSTANTS
  Dialects = {"anthropic", "openai", "deepseek", "tagged", "responses", "gemini"}
  MaxBlocks = 3
  MaxPieces = 2
  Openings <- MCOpenings
  MaxAsks = 2
  Tools = {"t"}
  Names = {"t", "u"}
INVARIANTS
  
  SentAsMeant
CHECK_DEADLOCK FALSE
