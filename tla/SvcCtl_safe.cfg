\* two clients run any commands on one service
CONSTANTS
  Names = {a}
  NPROCS = 1
  NCONNS = 2
  RETRIES = 0
  Pids = {p1, p2}
  Statuses = {0, 1}
  Kinds = {{}, {"ONCE"}}
  Modes = {}
  Signals = {}
  Absent = {"shell"}
  Env = {}
  Commands = {"start", "stop", "restart", "remove"}
  QLEN = 2
SPECIFICATION SpecCtl
INVARIANTS NeverConfused WaiterCovered
SYMMETRY Symmetric
CONSTRAINT BeforeShutdown
