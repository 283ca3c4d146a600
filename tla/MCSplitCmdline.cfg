SPECIFICATION Spec
CONSTANTS
  Commands <- SomeLines
  ArgLists <- SomeArgs
  Plain <- Letters
  Letter = "a"
  Space = " "
  DQuote = "dq"
  SQuote = "sq"
  Backslash = "bs"
  Null = Null
  StrdupFails = TRUE
  MaxLen = 5
  MaxArg = 2
  MaxWords = 12
CHECK_DEADLOCK FALSE
INVARIANTS InBounds SplitsAsDefined RoundTrip LostBehindNull
