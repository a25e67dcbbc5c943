\* three instances of a service at one path; the other components have their
\* constants in the module
CONSTANTS
  Inst = {"i1", "i2", "i3"}
SPECIFICATION SpecAll
INVARIANTS LockHolds Reachable
PROPERTIES StaleRemoved ClientsAnswered StopEnds AttemptsEnd IfctlAnswered
CHECK_DEADLOCK FALSE
