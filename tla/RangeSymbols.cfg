CONSTANTS
  Width = 3
  MaxValues = 4
  Literals = {1}
  AnySubtrahend = FALSE
  EqualMerges = FALSE
SPECIFICATION SymbolSpec
INVARIANTS DomainSound ComparisonsSound
CHECK_DEADLOCK FALSE
