\* Documents of up to two paragraphs, read before and after accepting.
SPECIFICATION ReadingSpec
CONSTANTS
  Paragraphs <- Catalogue
  MaxParagraphs = 2
INVARIANTS
  SameBlockMap
CHECK_DEADLOCK FALSE
