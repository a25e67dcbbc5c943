\* a ring of three bytes; the other components have their constants in the module
CONSTANTS
  RINGSIZE = 3
  MaxSent = 10
SPECIFICATION SpecAll
INVARIANTS
  TypeOK RingIsTail PtrTellsOutput
  AppTable PtyTerminals DhcpSound TimeGoesOn ConsoleSound
  WifiSound KeysSound ModulesFound LibrarySound
PROPERTIES
  XidsKept TimeSyncSound
CHECK_DEADLOCK FALSE
