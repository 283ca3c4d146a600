SPECIFICATION SigSpec
CONSTANTS
  Sets = {1, 2}
  Word = 3
  UInt = 4
  Signals <- MCSignals
INVARIANTS MembersAsAsked
