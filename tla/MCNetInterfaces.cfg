CONSTANTS
  eth0 = eth0
  alias = alias
  long = long
  wlan = wlan
  inet = inet
  packet = packet
  Unspec = Unspec
  Null = Null
  Faults = {"memory"}
  Names <- MCNames
  Families <- MCFamilies
  Internet <- MCInternet
  IndexOf <- MCIndexOf
  Cut <- MCCut
  Tables <- MCTables
SPECIFICATION Spec
INVARIANTS
  TypeOK
  NothingLeaks
  NamesListed
  ListShowsTable
  IndexComesBack
