SPECIFICATION Spec
CONSTANTS
  Inet1 = Inet1
  Inet2 = Inet2
  Inet6 = Inet6
  Peers = {Inet1, Inet2, Inet6}
  Family <- Families
  Size <- Sizes
  Capacity = 5
  Unnamed = Unnamed
INVARIANTS NameSurvives
PROPERTIES NoOverrun
