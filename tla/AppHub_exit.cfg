\* one application
CONSTANTS
  Names = {"a"}
  Clients = {"c"}
  PIDS = 1
  FDS = 1
  NCONNS = 1
  XIDS = 1
  STARTS = 1
  MAXRUN = 1
  FORKS = FALSE
  Faults = {}
  Timers = {"MMAP", "STOP"}
  Stops = {}
SPECIFICATION Spec
INVARIANT HubStays
CHECK_DEADLOCK FALSE
