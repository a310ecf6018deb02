\* Transcripts of at most two segments, as the transcript module proves them.
SPECIFICATION SpanSpec
CONSTANTS
  Blocks <- FiveBlocks
  Issues = {1}
  SourceTexts <- Transcribed
  InsertTexts <- Proposed
  MaxSegments = 2
INVARIANTS
  NeverRepaired
CHECK_DEADLOCK FALSE
