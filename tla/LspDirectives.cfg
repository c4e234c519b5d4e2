SPECIFICATION TokensSpec
CONSTANTS
  Alphabet = {"nl", "letter", "tick"}
  MaxChars = 3
PROPERTY TokenizingEnds
CHECK_DEADLOCK FALSE
