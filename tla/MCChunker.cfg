\* The default sizes, an overlap beyond the tail, and one that is refused.
SPECIFICATION Spec
CONSTANTS
  Texts <- TheTexts
  Settings <- TheSettings
  MinLookback = 50
  Percent = 15
INVARIANTS LostOnlyInLongSentences EachChunkAddsText
\* The call returns.
CHECK_DEADLOCK FALSE
